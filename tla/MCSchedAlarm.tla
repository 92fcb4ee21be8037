---------------------------- MODULE MCSchedAlarm ----------------------------
(* Instances of SchedAlarm for TLC. *)
EXTENDS SchedAlarm

\* A short, a middle and a long delay; the long one is no multiple.
ThreeSecs == {1, 2, 5}
TwoSecs   == {2, 5}
=============================================================================
