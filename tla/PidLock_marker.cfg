SPECIFICATION Spec
CONSTANTS
    p1 = p1
    p2 = p2
    p3 = p3
    NoPid = NoPid
    Pids <- ThreePids
    KillTypes <- NoKill
    Sigkill = FALSE
SYMMETRY Symmetry
INVARIANT MarkerIsSure
