SPECIFICATION FairSpec
CONSTANTS
    p1 = p1
    p2 = p2
    p3 = p3
    NoPid = NoPid
    Pids <- ThreePids
    KillTypes <- NoStart
    Sigkill = TRUE
INVARIANTS OneInstance PidFileNamesNoOther MarkerHasOwner
PROPERTY TermEnds
