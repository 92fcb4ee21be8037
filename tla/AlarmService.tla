---------------------------- MODULE AlarmService ----------------------------
(* What a caller of schedule_alarm and unschedule_alarm may rely on: an alarm *)
(* runs at most once and never before its time, and it never runs once        *)
(* unschedule_alarm was called for it, with two exceptions: the call came     *)
(* after its time, or a callback made it in the very ring that scheduled the  *)
(* alarm, where unschedule_alarm looks at g_alarm_list only and the call may  *)
(* be lost.  How late an alarm may run is left open.                          *)
EXTENDS Integers

CONSTANT Secs      \* the delays a caller asks for

VARIABLES
    live,          \* the alarms that may still run: their id and seconds to go,
                   \* -1 for one that is late
    running,       \* id of the alarm whose callback runs, 0 when none does
    last,          \* the last id handed out
    fresh,         \* ids of the alarms the ring under way has scheduled
    cancelled      \* history: the ids unschedule_alarm was called with

vars == <<live, running, last, fresh, cancelled>>

Init ==
    /\ live = {}
    /\ running = 0
    /\ last = 0
    /\ fresh = {}
    /\ cancelled = {}

Schedule ==
    /\ last' = last + 1
    /\ \E s \in Secs : live' = live \cup {[id |-> last + 1, togo |-> s]}
    /\ fresh' = IF running = 0 THEN fresh ELSE fresh \cup {last + 1}
    /\ UNCHANGED <<running, cancelled>>

\* A cancel has no effect on an alarm whose time has come, or of this very ring.
MayBeLost(i) == i \in fresh \/ \A a \in live : a.id = i => a.togo <= 0

\* The call of unschedule_alarm(i), which every caller makes as it likes.
Cancel ==
    /\ \E i \in 1..last :
         /\ cancelled' = cancelled \cup {i}
         /\ \/ live' = {a \in live : a.id # i}
            \/ MayBeLost(i) /\ UNCHANGED live
    /\ UNCHANGED <<running, last, fresh>>

Fire ==
    /\ \E a \in live :
         /\ a.togo <= 0
         /\ live' = live \ {a}
         /\ running' = a.id
    /\ UNCHANGED <<last, fresh, cancelled>>

\* The last callback of a ring returns.
Return ==
    /\ running' = 0
    /\ fresh' = {}
    /\ UNCHANGED <<live, last, cancelled>>

\* A second passes; no callback takes that long.
Pass ==
    /\ running = 0
    /\ live' = {[a EXCEPT !.togo = IF @ < 0 THEN @ ELSE @ - 1] : a \in live}
    /\ UNCHANGED <<running, last, fresh, cancelled>>

Next == Schedule \/ Cancel \/ Fire \/ Return \/ Pass

Spec == Init /\ [][Next]_vars
=============================================================================
