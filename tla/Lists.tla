------------------------------- MODULE Lists --------------------------------
(* A selection from a list by membership, as a recursive function: SelectSeq   *)
(* has no definition that the proof system could use.                          *)
EXTENDS Integers, Sequences, SequencesExt

\* The members of S in a list, in their order.
Select(list, S) ==
    LET some[n \in 0..Len(list)] ==
            IF n = 0 THEN <<>>
            ELSE IF list[n] \in S THEN Append(some[n - 1], list[n]) ELSE some[n - 1]
    IN  some[Len(list)]
=============================================================================
