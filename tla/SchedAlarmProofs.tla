-------------------------- MODULE SchedAlarmProofs --------------------------
(* Proofs about SchedAlarm, for every set of delays and any number of alarms. *)
EXTENDS SchedAlarm, WellFoundedInduction, TLAPS

\* find_min_remaining returns a positive number of seconds, so the alarm(0)
\* that would silently stop the timer is never the end of a ring.
LEMMA MinRemaining ==
    ASSUME NEW list \in SUBSET Event(Nat)
    PROVE  find_min_remaining(list) \in Nat \ {0}
<1> DEFINE S == {IntMax} \cup {e.remaining : e \in {x \in list : x.remaining # 0}}
<1>1. S \in SUBSET (Nat \ {0})
  BY IntMaxAssumption DEF Event
<1>2. S # {}
  OBVIOUS
<1>3. \E n \in S : \A m \in S : n <= m
  <2>1. PICK n \in S : \A m \in S : ~(<<m, n>> \in OpToRel(<, Nat))
    <3>1. S \subseteq Nat /\ S # {}
      BY <1>1, <1>2
    <3>2. QED
      BY <3>1, NatLessThanWellFounded, WFMin
  <2>2. ASSUME NEW m \in S PROVE n <= m
    <3>1. OpToRel(<, Nat) = {ss \in Nat \X Nat : ss[1] < ss[2]}
      BY DEF OpToRel
    <3>2. <<m, n>> \notin {ss \in Nat \X Nat : ss[1] < ss[2]}
      BY <2>1, <3>1
    <3>3. QED
      BY <3>2, <1>1
  <2>3. QED
    BY <2>2
<1>4. Min(S) \in S
  BY <1>3 DEF Min
<1>5. QED
  BY <1>1, <1>4 DEF find_min_remaining

\* What a ring leaves in the list has time left or was just scheduled.
LEMMA RingLeaves ==
    ASSUME TypeOK
    PROVE  {e \in g_alarm_list : alarm_valid(e)} \cup g_alarm_list_add_temp
              \in SUBSET Event(Nat)
BY DEF TypeOK, Event, alarm_valid

\* A new event has the delay asked for, and is not marked.
LEMMA NewEventType ==
    ASSUME TypeOK, NEW s \in Nat
    PROVE  NewEvent(s) \in Event(Nat)
<1>1. NewEvent(s).marked_delete \in BOOLEAN
  BY DEF NewEvent
<1>2. QED
  BY <1>1 DEF NewEvent, Event, TypeOK

-----------------------------------------------------------------------------
(* The variables keep their types.                                            *)

\* Type correctness: in particular alarm(2) is never given a negative delay,
\* though a late ring leaves events with a negative number of seconds.
THEOREM TypeCorrect == Spec => []TypeOK
<1>1. Init => TypeOK
  <2> SUFFICES ASSUME Init PROVE TypeOK
    OBVIOUS
  <2>1. g_ringing \in BOOLEAN /\ sigalrm \in BOOLEAN
    BY DEF Init
  <2>2. QED
    BY <2>1 DEF Init, TypeOK
<1>2. TypeOK /\ [Next]_vars => TypeOK'
  <2> SUFFICES ASSUME TypeOK, [Next]_vars PROVE TypeOK'
    OBVIOUS
  <2>1. CASE schedule_alarm_read
    BY <2>1, SecsAssumption, IntMaxAssumption DEF schedule_alarm_read, TypeOK
  <2>2. CASE schedule_alarm_set
    <3>1. NewEvent(secs) \in Event(Int)
      BY NewEventType DEF TypeOK, Event
    <3>2. QED
      BY <2>2, <3>1 DEF schedule_alarm_set, set_alarm, TypeOK
  <2>3. CASE unschedule_alarm
    BY <2>3 DEF unschedule_alarm, TypeOK, kernel, main
  <2>4. CASE RingBegin
    <3>1. g_ringing' \in BOOLEAN /\ sigalrm' \in BOOLEAN
      BY <2>4 DEF RingBegin
    <3>2. QED
      BY <2>4, <3>1 DEF RingBegin, update_remaining, TypeOK, Event, main
  <2>5. CASE fire_single
    BY <2>5 DEF fire_single, ToFire, TypeOK, Event, kernel, main
  <2>6. CASE schedule_alarm_ringing
    <3>1. \A s \in Secs : NewEvent(s) \in Event(Nat)
      BY NewEventType, SecsAssumption
    <3>2. QED
      BY <2>6, <3>1 DEF schedule_alarm_ringing, TypeOK, kernel, main
  <2>7. CASE unschedule_alarm_ringing
    <3>1. PICK id \in 1..g_last_id :
             /\ g_alarm_list' = mark_as_delete(g_alarm_list, id)
             /\ cancelled' = cancelled \cup {id}
      BY <2>7 DEF unschedule_alarm_ringing
    <3>2. g_alarm_list' \subseteq Event(Int)
      BY <3>1 DEF mark_as_delete, TypeOK, Event
    <3>3. cancelled' \subseteq Nat
      BY <3>1 DEF TypeOK
    <3>4. QED
      BY <2>7, <3>2, <3>3 DEF unschedule_alarm_ringing, TypeOK, kernel, main
  <2>8. CASE RingEnd
    <3>1. g_alarm_list' \in SUBSET Event(Nat)
      BY <2>8, RingLeaves DEF RingEnd
    <3>2. find_min_remaining(g_alarm_list') \in Nat
      BY <3>1, MinRemaining
    <3>3. g_alarm_list' \subseteq Event(Int)
      BY <3>1 DEF Event
    <3>4. QED
      BY <2>8, <3>2, <3>3 DEF RingEnd, set_alarm, TypeOK, main
  <2>9. CASE Tick
    BY <2>9 DEF Tick, TypeOK, Event, main
  <2>10. CASE UNCHANGED vars
    BY <2>10 DEF vars, kernel, main, TypeOK
  <2>11. QED
    BY <2>1, <2>2, <2>3, <2>4, <2>5, <2>6, <2>7, <2>8, <2>9, <2>10 DEF Next
<1>3. QED
  BY <1>1, <1>2, PTL DEF Spec

-----------------------------------------------------------------------------
(* No callback runs early.                                                    *)

\* A step that moves time, stops the timer or runs a callback keeps enough
\* seconds on every event.
LEMMA TimeInvStep == TypeOK /\ TypeOK' /\ TimeInv /\ [Next]_vars => TimeInv'
<1> SUFFICES ASSUME TypeOK, TypeOK', TimeInv, [Next]_vars PROVE TimeInv'
  OBVIOUS
<1>1. CASE schedule_alarm_read
  <2>1. IdsDistinct'
    BY <1>1 DEF schedule_alarm_read, kernel, TypeOK, TimeInv, IdsDistinct, Event
  <2>2. EnoughRemaining'
    BY <1>1
       DEF schedule_alarm_read, kernel, TypeOK, TimeInv, IdsDistinct,
           EnoughRemaining, RingState, Undiscounted, Event
  <2>3. RingState'
    BY <1>1
       DEF schedule_alarm_read, kernel, TypeOK, TimeInv, IdsDistinct, RingState,
           Event
  <2>4. QED
    BY <2>1, <2>2, <2>3 DEF TimeInv
<1>2. CASE schedule_alarm_set
  <2>1. IdsDistinct'
    BY <1>2
       DEF schedule_alarm_set, NewEvent, set_alarm, MainRuns, TypeOK, TimeInv,
           IdsDistinct, Event
  <2>2. EnoughRemaining'
    BY <1>2
       DEF schedule_alarm_set, NewEvent, set_alarm, MainRuns, TypeOK, TimeInv,
           IdsDistinct, EnoughRemaining, RingState, Undiscounted, Event
  <2>3. RingState'
    BY <1>2
       DEF schedule_alarm_set, NewEvent, set_alarm, MainRuns, TypeOK, TimeInv,
           IdsDistinct, RingState, Event
  <2>4. QED
    BY <2>1, <2>2, <2>3 DEF TimeInv
<1>3. CASE unschedule_alarm
  <2>1. IdsDistinct'
    BY <1>3
       DEF unschedule_alarm, kernel, main, TypeOK, TimeInv, IdsDistinct, Event
  <2>2. EnoughRemaining'
    BY <1>3
       DEF unschedule_alarm, kernel, main, TypeOK, TimeInv, IdsDistinct,
           EnoughRemaining, RingState, Undiscounted, Event
  <2>3. RingState'
    BY <1>3
       DEF unschedule_alarm, kernel, main, TypeOK, TimeInv, IdsDistinct,
           RingState, Event
  <2>4. QED
    BY <2>1, <2>2, <2>3 DEF TimeInv
<1>4. CASE RingBegin
  <2>1. IdsDistinct'
    BY <1>4
       DEF RingBegin, update_remaining, main, TypeOK, TimeInv, IdsDistinct,
           Event
  <2>2. EnoughRemaining'
    BY <1>4
       DEF RingBegin, update_remaining, main, TypeOK, TimeInv, IdsDistinct,
           EnoughRemaining, RingState, Undiscounted, Event
  <2>3. RingState'
    BY <1>4
       DEF RingBegin, update_remaining, main, TypeOK, TimeInv, IdsDistinct,
           RingState, Event
  <2>4. QED
    BY <2>1, <2>2, <2>3 DEF TimeInv
<1>5. CASE fire_single
  <2>1. IdsDistinct'
    BY <1>5
       DEF fire_single, ToFire, kernel, main, TypeOK, TimeInv, IdsDistinct,
           Event
  <2>2. EnoughRemaining'
    BY <1>5
       DEF fire_single, ToFire, kernel, main, TypeOK, TimeInv, IdsDistinct,
           EnoughRemaining, RingState, Undiscounted, Event
  <2>3. RingState'
    BY <1>5
       DEF fire_single, ToFire, kernel, main, TypeOK, TimeInv, IdsDistinct,
           RingState, Event
  <2>4. QED
    BY <2>1, <2>2, <2>3 DEF TimeInv
<1>6. CASE schedule_alarm_ringing
  <2>1. IdsDistinct'
    BY <1>6
       DEF schedule_alarm_ringing, NewEvent, kernel, main, TypeOK, TimeInv,
           IdsDistinct, Event
  <2>2. EnoughRemaining'
    BY <1>6
       DEF schedule_alarm_ringing, NewEvent, kernel, main, TypeOK, TimeInv,
           IdsDistinct, EnoughRemaining, RingState, Undiscounted, Event
  <2>3. RingState'
    BY <1>6
       DEF schedule_alarm_ringing, NewEvent, kernel, main, TypeOK, TimeInv,
           IdsDistinct, RingState, Event
  <2>4. QED
    BY <2>1, <2>2, <2>3 DEF TimeInv
<1>7. CASE unschedule_alarm_ringing
  <2>1. IdsDistinct'
    BY <1>7
       DEF unschedule_alarm_ringing, mark_as_delete, kernel, main, TypeOK,
           TimeInv, IdsDistinct, Event
  <2>2. EnoughRemaining'
    BY <1>7
       DEF unschedule_alarm_ringing, mark_as_delete, kernel, main, TypeOK,
           TimeInv, IdsDistinct, EnoughRemaining, RingState, Undiscounted, Event
  <2>3. RingState'
    BY <1>7
       DEF unschedule_alarm_ringing, mark_as_delete, kernel, main, TypeOK,
           TimeInv, IdsDistinct, RingState, Event
  <2>4. QED
    BY <2>1, <2>2, <2>3 DEF TimeInv
<1>8. CASE RingEnd
  <2>1. IdsDistinct'
    BY <1>8 DEF RingEnd, alarm_valid, TypeOK, TimeInv, IdsDistinct, Event
  <2>2. EnoughRemaining'
    <3>1. Undiscounted' = 0
      BY <1>8 DEF RingEnd, set_alarm, TypeOK, TimeInv, RingState, Undiscounted
    <3>2. \A e \in g_alarm_list' : /\ e.togo > 0 => e.togo <= e.remaining
                                   /\ e.remaining \in Int
      BY <1>8 DEF RingEnd, TypeOK, TimeInv, EnoughRemaining, Event
    <3>3. ~g_ringing' /\ g_alarm_list_add_temp' = {}
      BY <1>8 DEF RingEnd
    <3>4. QED
      BY <3>1, <3>2, <3>3 DEF EnoughRemaining
  <2>3. RingState'
    BY <1>8 DEF RingEnd, set_alarm, TypeOK, TimeInv, RingState
  <2>4. QED
    BY <2>1, <2>2, <2>3 DEF TimeInv
<1>9. CASE Tick
  <2>1. IdsDistinct'
    BY <1>9 DEF Tick, MainRuns, main, TypeOK, TimeInv, IdsDistinct, Event
  <2>2. EnoughRemaining'
    BY <1>9
       DEF Tick, MainRuns, main, TypeOK, TimeInv, IdsDistinct, EnoughRemaining,
           RingState, Undiscounted, Event
  <2>3. RingState'
    BY <1>9
       DEF Tick, MainRuns, main, TypeOK, TimeInv, IdsDistinct, RingState, Event
  <2>4. QED
    BY <2>1, <2>2, <2>3 DEF TimeInv
<1>10. CASE UNCHANGED vars
  BY <1>10
     DEF vars, kernel, main, TimeInv, IdsDistinct, EnoughRemaining, RingState,
               Undiscounted
<1>11. QED
  BY <1>1, <1>2, <1>3, <1>4, <1>5, <1>6, <1>7, <1>8, <1>9, <1>10 DEF Next

\* The ids are distinct, and no event has fewer seconds left than its caller is
\* still owed.
THEOREM TimeInvariant == Spec => []TimeInv
<1>1. Init => TimeInv
  BY DEF Init, TimeInv, IdsDistinct, EnoughRemaining, RingState
<1>2. QED
  BY <1>1, TimeInvStep, TypeCorrect, PTL DEF Spec

\* A callback never runs before the time its caller asked for.
THEOREM NoCallbackEarly == Spec => []NeverEarly
<1>1. TypeOK /\ TimeInv => NeverEarly
  BY DEF TypeOK, TimeInv, EnoughRemaining, RingState, NeverEarly, Event
<1>2. QED
  BY <1>1, TimeInvariant, TypeCorrect, PTL

-----------------------------------------------------------------------------
(* No alarm is forgotten, as long as no caller asks for a delay of 0.         *)

\* With delays of at least a second every step leaves a timer behind it.
LEMMA ArmedStep ==
    ASSUME 0 \notin Secs, TypeOK, TypeOK', ArmedInv, [Next]_vars
    PROVE  ArmedInv'
<1> USE DEF ArmedInv, Armed
<1>1. CASE schedule_alarm_read
  BY <1>1, SecsAssumption, IntMaxAssumption DEF schedule_alarm_read, TypeOK
<1>2. CASE schedule_alarm_set
  BY <1>2 DEF schedule_alarm_set, set_alarm, TypeOK
<1>3. CASE unschedule_alarm
  BY <1>3 DEF unschedule_alarm, kernel, main, TypeOK
<1>4. CASE RingBegin
  BY <1>4 DEF RingBegin, main, TypeOK
<1>5. CASE fire_single
  BY <1>5 DEF fire_single, kernel, main, TypeOK
<1>6. CASE schedule_alarm_ringing
  BY <1>6 DEF schedule_alarm_ringing, kernel, main, TypeOK
<1>7. CASE unschedule_alarm_ringing
  BY <1>7 DEF unschedule_alarm_ringing, kernel, main, TypeOK
<1>8. CASE RingEnd
  <2>1. find_min_remaining(g_alarm_list') \in Nat \ {0}
    BY <1>8, RingLeaves, MinRemaining DEF RingEnd
  <2>2. QED
    BY <1>8, <2>1 DEF RingEnd, set_alarm, main, TypeOK
<1>9. CASE Tick
  <2>1. g_alarm_list' # {} => g_alarm_list # {}
    BY <1>9 DEF Tick
  <2>2. timer = 1 => sigalrm'
    BY <1>9 DEF Tick
  <2>3. timer # 1 => timer' = (IF timer > 0 THEN timer - 1 ELSE 0)
    BY <1>9 DEF Tick
  <2>4. timer' <= g_last_set_time'
    BY <1>9 DEF Tick, TypeOK
  <2>5. pc' = "idle" /\ pc = "idle" /\ ~sigalrm /\ ~g_ringing
    BY <1>9 DEF Tick, MainRuns, main
  <2>6. QED
    BY <2>1, <2>2, <2>3, <2>4, <2>5 DEF TypeOK
<1>10. CASE UNCHANGED vars
  BY <1>10 DEF vars, kernel, main
<1>11. QED
  BY <1>1, <1>2, <1>3, <1>4, <1>5, <1>6, <1>7, <1>8, <1>9, <1>10 DEF Next

\* Between the calls, while an event waits, the kernel timer runs or its signal
\* is on the way.
THEOREM NoAlarmForgotten ==
    ASSUME 0 \notin Secs
    PROVE  Spec => []Armed
<1>1. Init => ArmedInv
  BY DEF Init, ArmedInv, Armed
<1>2. TypeOK /\ TypeOK' /\ ArmedInv /\ [Next]_vars => ArmedInv'
  BY ArmedStep
<1>3. ArmedInv => Armed
  BY DEF ArmedInv
<1>4. QED
  BY <1>1, <1>2, <1>3, TypeCorrect, PTL DEF Spec

-----------------------------------------------------------------------------
(* The list the handler traverses does not change under it.                   *)

\* schedule_alarm and unschedule_alarm never add a node to g_alarm_list or take
\* one from it while a ring traverses it.
THEOREM TraversalSafe == Spec => ListStableInRing
<1>1. TypeOK /\ [Next]_vars
         => [g_ringing /\ g_ringing' => Ids(g_alarm_list') = Ids(g_alarm_list)]_vars
  <2> SUFFICES ASSUME TypeOK, Next, g_ringing, g_ringing'
               PROVE  Ids(g_alarm_list') = Ids(g_alarm_list)
    OBVIOUS
  <2>1. ~schedule_alarm_read /\ ~schedule_alarm_set /\ ~unschedule_alarm
    BY DEF schedule_alarm_read, schedule_alarm_set, unschedule_alarm, MainRuns
  <2>2. ~RingBegin /\ ~RingEnd /\ ~Tick
    BY DEF RingBegin, RingEnd, Tick, MainRuns
  <2>3. CASE fire_single \/ schedule_alarm_ringing
    BY <2>3 DEF fire_single, schedule_alarm_ringing
  <2>4. CASE unschedule_alarm_ringing
    <3>1. PICK id \in 1..g_last_id :
             g_alarm_list' = mark_as_delete(g_alarm_list, id)
      BY <2>4 DEF unschedule_alarm_ringing
    <3> DEFINE Marked(e) == [e EXCEPT !.marked_delete = @ \/ e.id = id]
    <3>2. \A e \in g_alarm_list : Marked(e).id = e.id
      BY DEF TypeOK, Event
    <3>3. g_alarm_list' = {Marked(e) : e \in g_alarm_list}
      BY <3>1 DEF mark_as_delete
    <3> HIDE DEF Marked
    <3> QED
      BY <3>2, <3>3 DEF Ids
  <2> QED
    BY <2>1, <2>2, <2>3, <2>4 DEF Next
<1> QED
  BY <1>1, TypeCorrect, PTL DEF Spec, ListStableInRing
-----------------------------------------------------------------------------
(* SchedAlarm implements AlarmService: its initial states are initial states  *)
(* of the service and its steps are steps or stutters of it.                  *)

\* Between rings no callback runs, nothing waits to be added and nothing is
\* marked as deleted; what waits to be added in a ring is never marked.  The call
\* the main thread is in asked for one of the delays.
RingInv ==
    /\ ~g_ringing => /\ cursor = 0
                     /\ g_alarm_list_add_temp = {}
                     /\ \A e \in g_alarm_list : ~e.marked_delete
    /\ \A e \in g_alarm_list_add_temp : ~e.marked_delete
    /\ pc = "schedule" => secs \in Secs

\* RingInv is invariant: the handler cleans up what its callbacks leave behind.
THEOREM RingInvariant == Spec => []RingInv
<1>1. Init => RingInv
  BY DEF Init, RingInv
<1>2. TypeOK /\ RingInv /\ [Next]_vars => RingInv'
  <2> SUFFICES ASSUME TypeOK, RingInv, [Next]_vars PROVE RingInv'
    OBVIOUS
  <2> USE DEF RingInv, main
  <2>1. CASE schedule_alarm_read
    BY <2>1 DEF schedule_alarm_read
  <2>2. CASE schedule_alarm_set
    BY <2>2 DEF schedule_alarm_set, NewEvent, MainRuns
  <2>3. CASE unschedule_alarm
    BY <2>3 DEF unschedule_alarm, MainRuns
  <2>4. CASE RingBegin
    BY <2>4 DEF RingBegin
  <2>5. CASE fire_single
    BY <2>5 DEF fire_single
  <2>6. CASE schedule_alarm_ringing
    BY <2>6 DEF schedule_alarm_ringing, NewEvent
  <2>7. CASE unschedule_alarm_ringing
    BY <2>7 DEF unschedule_alarm_ringing
  <2>8. CASE RingEnd
    BY <2>8 DEF RingEnd, alarm_valid
  <2>9. CASE Tick
    BY <2>9 DEF Tick, MainRuns, TypeOK, Event
  <2>10. CASE UNCHANGED vars
    BY <2>10 DEF vars
  <2> QED
    BY <2>1, <2>2, <2>3, <2>4, <2>5, <2>6, <2>7, <2>8, <2>9, <2>10 DEF Next
<1> QED
  BY <1>1, <1>2, TypeCorrect, PTL DEF Spec

\* The initial state maps to the initial state of the service.
LEMMA RefinesInit == Init => Service!Init
BY DEF Init, Service!Init, Live, Ids

\* Every step is a step of the service, or changes nothing a caller can see.
LEMMA RefinesStep ==
    ASSUME TypeOK, TimeInv, RingInv, [Next]_vars
    PROVE  [Service!Next]_(Service!vars)
<1> DEFINE Seen(e) == [id |-> e.id, togo |-> e.togo]
<1> USE DEF Service!Next, Service!vars
<1>1. CASE schedule_alarm_read
  <2>1. Live' = Live
    BY <1>1 DEF schedule_alarm_read, Live
  <2> QED
    BY <1>1, <2>1 DEF schedule_alarm_read
<1>2. CASE schedule_alarm_set
  <2>1. Live' = Live \cup {[id |-> g_last_id + 1, togo |-> secs]}
    <3>1. Seen(NewEvent(secs)) = [id |-> g_last_id + 1, togo |-> secs]
      BY DEF NewEvent
    <3>2. Live = {Seen(e) : e \in g_alarm_list}
      BY <1>2 DEF schedule_alarm_set, MainRuns, RingInv, Live
    <3>3. Live' = {Seen(e) : e \in g_alarm_list \cup {NewEvent(secs)}}
      BY <1>2 DEF schedule_alarm_set, MainRuns, RingInv, Live
    <3> HIDE DEF Seen
    <3> QED
      BY <3>1, <3>2, <3>3
  <2> QED
    <3>1. /\ secs \in Secs /\ g_last_id' = g_last_id + 1
          /\ cursor = 0 /\ cursor' = cursor
          /\ Ids(g_alarm_list_add_temp)' = Ids(g_alarm_list_add_temp)
          /\ cancelled' = cancelled
      BY <1>2 DEF schedule_alarm_set, MainRuns, RingInv
    <3> QED
      BY <2>1, <3>1 DEF Service!Schedule
<1>3. CASE unschedule_alarm
  <2>1. PICK id \in 1..g_last_id :
           /\ g_alarm_list' = {e \in g_alarm_list : e.id # id}
           /\ cancelled' = cancelled \cup {id}
    BY <1>3 DEF unschedule_alarm
  <2>2. Live' = {a \in Live : a.id # id}
    <3>1. Live = {Seen(e) : e \in g_alarm_list}
      BY <1>3 DEF unschedule_alarm, MainRuns, RingInv, Live
    <3>2. Live' = {Seen(e) : e \in {x \in g_alarm_list : x.id # id}}
      BY <1>3, <2>1 DEF unschedule_alarm, MainRuns, RingInv, Live
    <3>3. \A e \in g_alarm_list : Seen(e).id = e.id
      OBVIOUS
    <3> HIDE DEF Seen
    <3> QED
      BY <3>1, <3>2, <3>3
  <2> QED
    BY <1>3, <2>1, <2>2 DEF unschedule_alarm, Service!Cancel
<1>4. CASE RingBegin
  <2> DEFINE Later(e) == [e EXCEPT !.remaining = @ - g_last_set_time]
  <2>1. g_alarm_list' = {Later(e) : e \in g_alarm_list}
    BY <1>4 DEF RingBegin, update_remaining
  <2>2. \A e \in g_alarm_list : /\ Seen(Later(e)) = Seen(e)
                                 /\ Later(e).id > 0 /\ ~Later(e).marked_delete
    BY <1>4 DEF RingBegin, RingInv, TypeOK, Event, TimeInv, IdsDistinct
  <2>3. Live = {Seen(e) : e \in g_alarm_list}
    BY <1>4 DEF RingBegin, RingInv, Live
  <2>4. \A x \in g_alarm_list' : x.id > 0 /\ ~x.marked_delete
    BY <2>1, <2>2
  <2>5. Live' = {Seen(x) : x \in g_alarm_list'}
    BY <1>4, <2>4 DEF RingBegin, RingInv, Live
  <2>6. Live' = Live
    <3> HIDE DEF Later
    <3>1. {Seen(x) : x \in g_alarm_list'} = {Seen(Later(e)) : e \in g_alarm_list}
      BY <2>1
    <3>2. {Seen(Later(e)) : e \in g_alarm_list} = {Seen(e) : e \in g_alarm_list}
      BY <2>2
    <3> QED BY <2>3, <2>5, <3>1, <3>2
  <2> QED
    BY <1>4, <2>6 DEF RingBegin, RingInv
<1>5. CASE fire_single
  <2>1. PICK e \in ToFire : (\A f \in ToFire : e.id <= f.id) /\ cursor' = e.id
    BY <1>5 DEF fire_single
  <2>2. Seen(e) \in Live /\ Live' = Live \ {Seen(e)}
    BY <1>5, <2>1 DEF fire_single, ToFire, Live, TypeOK, Event, TimeInv, IdsDistinct
  <2>3. e.togo <= 0
    BY <1>5, <2>1 DEF fire_single, ToFire, TypeOK, Event, TimeInv, EnoughRemaining
  <2> QED
    BY <1>5, <2>1, <2>2, <2>3 DEF fire_single, Service!Fire
<1>6. CASE schedule_alarm_ringing
  <2>1. PICK s \in Secs :
           g_alarm_list_add_temp' = g_alarm_list_add_temp \cup {NewEvent(s)}
    BY <1>6 DEF schedule_alarm_ringing
  <2>2. Live' = Live \cup {[id |-> g_last_id + 1, togo |-> s]}
    <3> DEFINE W == {x \in g_alarm_list : IF x.remaining > 0 THEN ~x.marked_delete
                                                               ELSE x.id > cursor}
    <3>1. Seen(NewEvent(s)) = [id |-> g_last_id + 1, togo |-> s]
      BY DEF NewEvent
    <3>2. Live = {Seen(e) : e \in W \cup g_alarm_list_add_temp}
      BY <1>6 DEF schedule_alarm_ringing, Live
    <3>3. Live' = {Seen(e) : e \in W \cup g_alarm_list_add_temp \cup {NewEvent(s)}}
      BY <1>6, <2>1 DEF schedule_alarm_ringing, Live
    <3> HIDE DEF Seen, W
    <3> QED
      BY <3>1, <3>2, <3>3
  <2>3. Ids(g_alarm_list_add_temp)'
           = Ids(g_alarm_list_add_temp) \cup {g_last_id + 1}
    <3>1. NewEvent(s).id = g_last_id + 1
      BY DEF NewEvent
    <3> QED
      BY <2>1, <3>1 DEF Ids
  <2>4. cursor # 0
    BY <1>6 DEF schedule_alarm_ringing
  <2> QED
    BY <1>6, <2>2, <2>3, <2>4 DEF schedule_alarm_ringing, Service!Schedule
<1>7. CASE unschedule_alarm_ringing
  <2>1. PICK id \in 1..g_last_id :
           /\ g_alarm_list' = mark_as_delete(g_alarm_list, id)
           /\ cancelled' = cancelled \cup {id}
    BY <1>7 DEF unschedule_alarm_ringing
  <2> DEFINE Marked(e) == [e EXCEPT !.marked_delete = @ \/ e.id = id]
             Waits(e)  == IF e.remaining > 0 THEN ~e.marked_delete
                                             ELSE e.id > cursor
             Old       == {Seen(e) : e \in {x \in g_alarm_list : Waits(x)}}
             New       == {Seen(e) : e \in {x \in g_alarm_list' : Waits(x)}}
             Added     == {Seen(e) : e \in g_alarm_list_add_temp}
  <2>2. g_alarm_list' = {Marked(e) : e \in g_alarm_list}
    BY <2>1 DEF mark_as_delete
  <2>3. \A e \in g_alarm_list :
           /\ Seen(Marked(e)) = Seen(e)
           /\ Marked(e).remaining = e.remaining /\ Marked(e).id = e.id
           /\ Marked(e).marked_delete = (e.marked_delete \/ e.id = id)
    BY DEF TypeOK, Event
  <2>4. Live = Old \cup Added
    BY <1>7 DEF unschedule_alarm_ringing, Live
  <2>5. Live' = New \cup Added
    BY <1>7 DEF unschedule_alarm_ringing, Live
  <2>6. \A e \in g_alarm_list : e.id # id => (Waits(Marked(e)) <=> Waits(e))
    BY <2>3
  <2>7. \A e \in g_alarm_list : Seen(e).id = e.id
    OBVIOUS
  \* An event of the list with seconds left, not marked yet: the call stops it.
  <2>8. CASE \E d \in g_alarm_list : d.id = id /\ d.remaining > 0
    <3>1. PICK d \in g_alarm_list : d.id = id /\ d.remaining > 0
      BY <2>8
    <3>2. \A e \in g_alarm_list : e.id = id => ~Waits(Marked(e))
      <4>1. \A e \in g_alarm_list : e.id = id => e = d
        BY <3>1 DEF TimeInv, IdsDistinct
      <4> QED
        BY <2>3, <3>1, <4>1
    <3>3. New = {a \in Old : a.id # id}
      <4> HIDE DEF Seen, Waits, Marked
      <4> QED
        BY <2>2, <2>3, <2>6, <2>7, <3>2
    <3>4. \A a \in Added : a.id # id
      BY <3>1 DEF TimeInv, IdsDistinct
    <3>5. Live' = {a \in Live : a.id # id}
      <4> HIDE DEF New, Old, Added
      <4> QED
        BY <2>4, <2>5, <3>3, <3>4
    <3> QED
      BY <1>7, <2>1, <3>5 DEF unschedule_alarm_ringing, Service!Cancel
  \* One that is due, or not in the list: the call changes nothing.
  <2>9. CASE \A d \in g_alarm_list : d.id = id => ~(d.remaining > 0)
    <3>1. \A e \in g_alarm_list : Waits(Marked(e)) <=> Waits(e)
      BY <2>3, <2>6, <2>9 DEF TypeOK, Event
    <3>2. New = Old
      <4> HIDE DEF Seen, Waits, Marked
      <4> QED
        BY <2>2, <2>3, <3>1
    <3>3. Live' = Live
      <4> HIDE DEF New, Old, Added
      <4> QED
        BY <2>4, <2>5, <3>2
    <3>4. CASE \E e \in g_alarm_list_add_temp : e.id = id
      <4>1. id \in Ids(g_alarm_list_add_temp)
        BY <3>4 DEF Ids
      <4> QED
        BY <1>7, <2>1, <3>3, <4>1
           DEF unschedule_alarm_ringing, Service!Cancel, Service!MayBeLost
    <3>5. CASE \A e \in g_alarm_list_add_temp : e.id # id
      <4>1. \A a \in Added : a.id # id
        BY <3>5
      <4>2. \A a \in Old : a.id = id => a.togo <= 0
        BY <1>7, <2>9
           DEF unschedule_alarm_ringing, TypeOK, Event, TimeInv, EnoughRemaining
      <4>3. \A a \in Live : a.id = id => a.togo <= 0
        <5> HIDE DEF New, Old, Added
        <5> QED
          BY <2>4, <4>1, <4>2
      <4> QED
        BY <1>7, <2>1, <3>3, <4>3
           DEF unschedule_alarm_ringing, Service!Cancel, Service!MayBeLost
    <3> QED
      BY <3>4, <3>5
  <2> QED
    BY <2>8, <2>9
<1>8. CASE RingEnd
  <2>1. Live' = Live
    BY <1>8 DEF RingEnd, ToFire, alarm_valid, Live, TypeOK, Event
  <2>2. Ids(g_alarm_list_add_temp)' = {}
    BY <1>8 DEF RingEnd, Ids
  <2> QED
    BY <1>8, <2>1, <2>2 DEF RingEnd, Service!Return
<1>9. CASE Tick
  <2> DEFINE Later(e) == [e EXCEPT !.togo = IF @ < 0 THEN @ ELSE @ - 1]
  <2>1. \A e \in g_alarm_list : Seen(Later(e)) = Later(Seen(e))
    BY DEF TypeOK, Event
  <2>2. g_alarm_list' = {Later(e) : e \in g_alarm_list}
    BY <1>9 DEF Tick
  <2>3. Live = {Seen(e) : e \in g_alarm_list}
    BY <1>9 DEF Tick, MainRuns, RingInv, Live
  <2>4. Live' = {Seen(e) : e \in g_alarm_list'}
    BY <1>9 DEF Tick, MainRuns, RingInv, Live
  <2>5. Live' = {Later(a) : a \in Live}
    <3> HIDE DEF Seen, Later
    <3> QED
      BY <2>1, <2>2, <2>3, <2>4
  <2> QED
    BY <1>9, <2>5 DEF Tick, MainRuns, RingInv, Service!Pass
<1>10. CASE UNCHANGED vars
  BY <1>10 DEF vars, Live
<1> QED
  BY <1>1, <1>2, <1>3, <1>4, <1>5, <1>6, <1>7, <1>8, <1>9, <1>10 DEF Next

\* The scheduler implements the service: an alarm runs at most once, never before
\* its time, and not at all once unschedule_alarm was called for it before its
\* time, unless a callback of the ring that scheduled it made the call.
THEOREM Implements == Spec => ServiceSpec
BY RefinesInit, RefinesStep, TypeCorrect, TimeInvariant, RingInvariant, PTL
   DEF Spec, ServiceSpec, Service!Spec
=============================================================================
