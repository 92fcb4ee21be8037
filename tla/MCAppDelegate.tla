--------------------------- MODULE MCAppDelegate ---------------------------
EXTENDS AppDelegate
=============================================================================
