-------------------------- MODULE MCEapStateMachine --------------------------
(* Instances of EapStateMachine for TLC. *)
EXTENDS EapStateMachine

\* No plugin is selected.
NoPlugin == {"none"}
unchanged(x) == x
unchanged_by(x, f) == x

AllFrames == {"identity", "challenge", "success", "failure", "other"}
=============================================================================
