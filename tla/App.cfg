SPECIFICATION FairSpec
CONSTANTS
    ProbeFailuresBeforeOffline = 2
INVARIANTS
    RepairedOnce
    VerifiedThisSession
    
PROPERTIES
    QuitEnds
    ReconnectsAfterWake
CHECK_DEADLOCK FALSE
