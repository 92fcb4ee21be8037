SPECIFICATION Spec
CONSTANTS
    ProbeFailuresBeforeOffline = 2
INVARIANTS
    QuitQuits
CHECK_DEADLOCK FALSE
