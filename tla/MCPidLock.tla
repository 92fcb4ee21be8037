------------------------------ MODULE MCPidLock ------------------------------
(* Instances of PidLock for TLC. *)
EXTENDS PidLock, TLC

CONSTANTS p1, p2, p3

ThreePids == {p1, p2, p3}
Symmetry  == Permutations(Pids)

NoStart == {"KILL_NONE", "KILL_ONLY"}
AnyKill == {"KILL_NONE", "KILL_ONLY", "KILL_AND_START"}
NoKill  == {"KILL_NONE"}
=============================================================================
