----------------------------- MODULE SchedAlarm -----------------------------
(* The scheduler of util/sched_alarm.c: many alarms on the one timer alarm(2) *)
(* gives a process.  The main thread calls schedule_alarm and                 *)
(* unschedule_alarm; SIGALRM preempts it and runs alarm_sig_handler (a ring), *)
(* whose callbacks call the same two functions.                               *)
(*                                                                            *)
(* Time passes in whole seconds.  A list is a set of events; its order is the *)
(* order of insertion, which is the order of the ids here (an id is only ever *)
(* compared for equality).  togo is a ghost: the seconds until the time the   *)
(* caller asked for, -1 once the event is late.                               *)
EXTENDS Integers, FiniteSetsExt

CONSTANTS
    Secs,       \* the delays callers pass to schedule_alarm
    IntMax,     \* INT_MAX, the delay that stands for "no alarm pending"
    MaxId       \* bound: how many alarms are scheduled in a behaviour

ASSUME SecsAssumption == Secs \subseteq Nat
ASSUME IntMaxAssumption == IntMax \in Nat \ {0} /\ \A s \in Secs : s <= IntMax
ASSUME MaxIdAssumption == MaxId \in Nat

VARIABLES
    g_alarm_list,
    g_alarm_list_add_temp,
    g_last_id,
    g_ringing,
    g_last_set_time,
    timer,          \* the kernel's: seconds until SIGALRM, 0 when not set
    sigalrm,        \* SIGALRM is raised, its handler has not started
    cursor,         \* id of the event whose callback the ring runs, 0 at first
    pc,             \* the main thread: "schedule" between alarm(0) and set_alarm
    secs,           \* there, the argument of schedule_alarm
    curr_remaining, \* and what alarm(0) returned, INT_MAX for 0
    cancelled       \* history: the ids unschedule_alarm was called with

kernel == <<timer, sigalrm>>
main   == <<pc, secs, curr_remaining>>
vars   == <<g_alarm_list, g_alarm_list_add_temp, g_last_id, g_ringing,
            g_last_set_time, kernel, cursor, main, cancelled>>

Event(Remaining) ==
    [id : Nat, remaining : Remaining, marked_delete : BOOLEAN, togo : Int]

TypeOK ==
    /\ g_alarm_list \subseteq Event(Int)
    /\ g_alarm_list_add_temp \subseteq Event(Nat)
    /\ g_last_id \in Nat
    /\ g_ringing \in BOOLEAN
    /\ g_last_set_time \in Nat
    /\ timer \in Nat
    /\ sigalrm \in BOOLEAN
    /\ cursor \in Nat
    /\ pc \in {"idle", "schedule"}
    /\ secs \in Nat
    /\ curr_remaining \in Nat
    /\ cancelled \subseteq Nat

Init ==
    /\ g_alarm_list = {} /\ g_alarm_list_add_temp = {}
    /\ g_last_id = 0
    /\ g_ringing = FALSE
    /\ g_last_set_time = 0
    /\ timer = 0 /\ sigalrm = FALSE
    /\ cursor = 0
    /\ pc = "idle" /\ secs = 0 /\ curr_remaining = 0
    /\ cancelled = {}
-----------------------------------------------------------------------------
NewEvent(s) ==
    [id |-> g_last_id + 1, remaining |-> s, marked_delete |-> FALSE, togo |-> s]

find_min_remaining(list) ==
    Min({IntMax} \cup {e.remaining : e \in {x \in list : x.remaining # 0}})

\* Mutant: a running g_last_set_time is not replaced.
set_alarm_once(time) ==
    /\ timer' = time
    /\ g_last_set_time' = IF g_last_set_time = 0 THEN time ELSE g_last_set_time

set_alarm(time) ==
    /\ timer' = time
    /\ g_last_set_time' = time

update_remaining(list) ==
    {[e EXCEPT !.remaining = @ - g_last_set_time] : e \in list}

\* Mutant: only an event this ring fires anyway is marked; the cancel of any
\* other is lost.
mark_as_delete_due(list, id) ==
    {[e EXCEPT !.marked_delete = @ \/ (e.id = id /\ e.remaining <= 0)] : e \in list}

mark_as_delete(list, id) ==
    {[e EXCEPT !.marked_delete = @ \/ e.id = id] : e \in list}

\* Mutant: the clean-up looks at one of the two fields only.
alarm_valid_unmarked(e) == ~e.marked_delete

alarm_valid(e) == e.remaining > 0 /\ ~e.marked_delete

\* The events fire_single has still to call: it looks at remaining only.
ToFire == {e \in g_alarm_list : e.remaining <= 0 /\ e.id > cursor}

\* A pending SIGALRM is delivered before the main thread's next instruction.
MainRuns == ~g_ringing /\ ~sigalrm
-----------------------------------------------------------------------------
(* The main thread. *)

\* alarm(0) stops the timer.  A timer that expires during the call leaves both
\* a result of 0 and a SIGALRM that is delivered when the call returns.
schedule_alarm_read ==
    /\ ~g_ringing /\ pc = "idle" /\ g_last_id < MaxId
    /\ pc' = "schedule"
    /\ secs' \in Secs
    /\ curr_remaining' = IF timer = 0 THEN IntMax ELSE timer
    /\ timer' = 0
    /\ UNCHANGED <<g_alarm_list, g_alarm_list_add_temp, g_last_id, g_ringing,
                   g_last_set_time, sigalrm, cursor, cancelled>>

\* Mutant: the timer alarm(0) stopped is taken to run still when it is shorter.
schedule_alarm_set_longer ==
    /\ MainRuns /\ pc = "schedule"
    /\ IF curr_remaining < secs THEN UNCHANGED <<timer, g_last_set_time>>
                                ELSE set_alarm(secs)
    /\ g_alarm_list' = g_alarm_list \cup {NewEvent(secs)}
    /\ g_last_id' = g_last_id + 1
    /\ pc' = "idle" /\ secs' = 0 /\ curr_remaining' = 0
    /\ UNCHANGED <<g_alarm_list_add_temp, g_ringing, sigalrm, cursor, cancelled>>

schedule_alarm_set ==
    /\ MainRuns /\ pc = "schedule"
    /\ set_alarm(IF curr_remaining < secs THEN curr_remaining ELSE secs)
    /\ g_alarm_list' = g_alarm_list \cup {NewEvent(secs)}
    /\ g_last_id' = g_last_id + 1
    /\ pc' = "idle" /\ secs' = 0 /\ curr_remaining' = 0
    /\ UNCHANGED <<g_alarm_list_add_temp, g_ringing, sigalrm, cursor, cancelled>>

\* Callers keep ids of alarms that are gone, and cancel those as well.
unschedule_alarm ==
    /\ MainRuns /\ pc = "idle"
    /\ \E id \in 1..g_last_id :
         /\ g_alarm_list' = {e \in g_alarm_list : e.id # id}
         /\ cancelled' = cancelled \cup {id}
    /\ UNCHANGED <<g_alarm_list_add_temp, g_last_id, g_ringing, g_last_set_time,
                   kernel, cursor, main>>
-----------------------------------------------------------------------------
(* alarm_sig_handler, and what its callbacks do. *)

RingBegin ==
    /\ sigalrm /\ ~g_ringing
    /\ sigalrm' = FALSE
    /\ g_ringing' = TRUE
    /\ cursor' = 0
    /\ g_alarm_list' = update_remaining(g_alarm_list)
    /\ UNCHANGED <<g_alarm_list_add_temp, g_last_id, g_last_set_time, timer, main,
                   cancelled>>

fire_single ==
    /\ g_ringing
    /\ \E e \in ToFire :
         /\ \A f \in ToFire : e.id <= f.id
         /\ cursor' = e.id
    /\ UNCHANGED <<g_alarm_list, g_alarm_list_add_temp, g_last_id, g_ringing,
                   g_last_set_time, kernel, main, cancelled>>

\* Mutant: a callback's event goes to the list being traversed.
schedule_alarm_in_place ==
    /\ g_ringing /\ cursor > 0 /\ g_last_id < MaxId
    /\ \E s \in Secs : g_alarm_list' = g_alarm_list \cup {NewEvent(s)}
    /\ g_last_id' = g_last_id + 1
    /\ UNCHANGED <<g_alarm_list_add_temp, g_ringing, g_last_set_time, kernel,
                   cursor, main, cancelled>>

\* A callback schedules: the event waits in the list of additions.
schedule_alarm_ringing ==
    /\ g_ringing /\ cursor > 0 /\ g_last_id < MaxId
    /\ \E s \in Secs :
         g_alarm_list_add_temp' = g_alarm_list_add_temp \cup {NewEvent(s)}
    /\ g_last_id' = g_last_id + 1
    /\ UNCHANGED <<g_alarm_list, g_ringing, g_last_set_time, kernel, cursor, main,
                   cancelled>>

\* A callback unschedules: an event of g_alarm_list is marked; one that waits in
\* the list of additions is not found, and the call has no effect.
unschedule_alarm_ringing ==
    /\ g_ringing /\ cursor > 0
    /\ \E id \in 1..g_last_id :
         /\ g_alarm_list' = mark_as_delete(g_alarm_list, id)
         /\ cancelled' = cancelled \cup {id}
    /\ UNCHANGED <<g_alarm_list_add_temp, g_last_id, g_ringing, g_last_set_time,
                   kernel, cursor, main>>

RingEnd ==
    /\ g_ringing /\ ToFire = {}
    /\ g_alarm_list' = {e \in g_alarm_list : alarm_valid(e)} \cup g_alarm_list_add_temp
    /\ g_alarm_list_add_temp' = {}
    /\ set_alarm(find_min_remaining(g_alarm_list'))
    /\ g_ringing' = FALSE
    /\ cursor' = 0
    /\ UNCHANGED <<g_last_id, sigalrm, main, cancelled>>
-----------------------------------------------------------------------------
\* A second passes.  The handler and the few instructions between alarm(0) and
\* set_alarm take no time.
Tick ==
    /\ MainRuns /\ pc = "idle"
    /\ g_alarm_list' = {[e EXCEPT !.togo = IF @ < 0 THEN @ ELSE @ - 1] :
                           e \in g_alarm_list}
    /\ timer' = IF timer > 0 THEN timer - 1 ELSE 0
    /\ sigalrm' = (timer = 1)
    /\ UNCHANGED <<g_alarm_list_add_temp, g_last_id, g_ringing, g_last_set_time,
                   cursor, main, cancelled>>

Ring == RingBegin \/ fire_single \/ RingEnd

Next ==
    \/ schedule_alarm_read \/ schedule_alarm_set \/ unschedule_alarm
    \/ RingBegin \/ fire_single \/ RingEnd
    \/ schedule_alarm_ringing \/ unschedule_alarm_ringing
    \/ Tick

Spec == Init /\ [][Next]_vars

\* The clock runs, a pending signal is handled, a handler and a call return.
Fairness == WF_vars(Tick) /\ WF_vars(Ring) /\ WF_vars(schedule_alarm_set)

FairSpec == Spec /\ Fairness
-----------------------------------------------------------------------------
(* Properties. *)

Ids(list) == {e.id : e \in list}

\* A callback never runs before the time its caller asked for, whatever mix of
\* main thread calls, callbacks and rings restarted the timer in between.
NeverEarly ==
    \A e \in g_alarm_list : g_ringing /\ cursor = e.id => e.togo <= 0

\* NeverEarly, strengthened to an inductive invariant.  Of the seconds set_alarm
\* last asked for, those that have passed are discounted at the next ring; the
\* main thread loses them when it stops the timer.
Undiscounted ==
    IF sigalrm THEN g_last_set_time
    ELSE IF pc = "schedule" THEN 0 ELSE g_last_set_time - timer

IdsDistinct ==
    /\ \A e \in g_alarm_list \cup g_alarm_list_add_temp : e.id \in 1..g_last_id
    /\ \A e, f \in g_alarm_list : e.id = f.id => e = f
    /\ \A e, f \in g_alarm_list_add_temp : e.id = f.id => e = f
    /\ \A e \in g_alarm_list, f \in g_alarm_list_add_temp : e.id # f.id

EnoughRemaining ==
    /\ \A e \in g_alarm_list : e.togo > 0 =>
          e.togo <= IF g_ringing THEN e.remaining ELSE e.remaining - Undiscounted
    /\ \A e \in g_alarm_list_add_temp : e.togo <= e.remaining

RingState ==
    /\ timer <= g_last_set_time
    /\ g_ringing => /\ ~sigalrm
                    /\ \A e \in g_alarm_list : e.id = cursor => e.remaining <= 0

TimeInv == IdsDistinct /\ EnoughRemaining /\ RingState

\* No alarm is forgotten: between the calls, while an event waits, the kernel
\* timer runs (within what set_alarm asked for) or its signal is on the way.
Armed ==
    ~g_ringing /\ pc = "idle" /\ g_alarm_list # {}
        => sigalrm \/ timer \in 1..g_last_set_time

\* Armed, strengthened to an inductive invariant.
ArmedInv ==
    /\ Armed
    /\ timer <= g_last_set_time
    /\ pc = "schedule" => secs > 0 /\ curr_remaining > 0

\* The traversals are safe: during a ring no node is added to or taken from
\* the list being traversed, by whatever the callbacks call.
ListStableInRing ==
    [][g_ringing /\ g_ringing' => Ids(g_alarm_list') = Ids(g_alarm_list)]_vars

\* sched_alarm.h: "It will call func after secs seconds".  Every alarm runs or
\* is unscheduled in the end.
EveryAlarmEnds ==
    \A i \in 1..MaxId :
        i \in Ids(g_alarm_list \cup g_alarm_list_add_temp)
            ~> i \notin Ids(g_alarm_list \cup g_alarm_list_add_temp)

\* sched_alarm.h: "It will call func after secs seconds": no later, either.
OnTime ==
    \A e \in g_alarm_list : g_ringing /\ cursor = e.id => e.togo >= 0

\* The alarms a caller still has to reckon with: those a ring has marked as
\* deleted or already fired are gone, except the marked ones it will fire yet.
Live ==
    {[id |-> e.id, togo |-> e.togo] :
        e \in {x \in g_alarm_list :
                  g_ringing => IF x.remaining > 0 THEN ~x.marked_delete
                                                  ELSE x.id > cursor}
              \cup g_alarm_list_add_temp}

Service == INSTANCE AlarmService
              WITH live <- Live, running <- cursor, last <- g_last_id,
                   fresh <- Ids(g_alarm_list_add_temp)

\* The scheduler implements the service a caller may rely on: what each call of
\* unschedule_alarm stops, also in a ring that is about to fire the alarm, to
\* clean up the list or to add to it.
ServiceSpec == Service!Spec
=============================================================================
