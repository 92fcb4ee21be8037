SPECIFICATION FairSpec
CONSTANTS
    DriverNames  <- MCDriverNames
    Daemonize    = {0, 1, 2, 3}
    LogFileOpens = {TRUE, FALSE}
INVARIANTS
    TypeOK
    LoggedOffBeforeClosed
    OnlyOwnerSends
    LogLinesSeen
PROPERTIES
    StopEnds
CHECK_DEADLOCK FALSE
