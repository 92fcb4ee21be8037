----------------------------- MODULE EapProofs -----------------------------
(* The safety of EapStateMachine, for every configuration, any number of       *)
(* pending alarms, and all plugins that keep to what PluginsKeep says.         *)
EXTENDS EapStateMachine, WellFoundedInduction, TLAPS

CONSTANT PluginNeeds(_)     \* the alarms a plugin counts on in a state of its memory

-----------------------------------------------------------------------------
(* Induction over an interval, and the nodes a filter keeps                    *)

LEMMA Least ==
    ASSUME NEW S \in SUBSET Nat, S # {}
    PROVE  \E n \in S : \A j \in S : n <= j
<1>1. PICK n \in S : \A j \in S : ~(<<j, n>> \in OpToRel(<, Nat))
  BY NatLessThanWellFounded, WFMin
<1>2. ASSUME NEW j \in S PROVE n <= j
  <2>1. OpToRel(<, Nat) = {ss \in Nat \X Nat : ss[1] < ss[2]}
    BY DEF OpToRel
  <2>2. <<j, n>> \notin {ss \in Nat \X Nat : ss[1] < ss[2]}
    BY <1>1, <2>1
  <2>3. j \in Nat /\ n \in Nat
    OBVIOUS
  <2>4. <<j, n>> \in Nat \X Nat
    BY <2>3
  <2>5. ~(<<j, n>>[1] < <<j, n>>[2])
    BY <2>2, <2>4
  <2> QED BY <2>3, <2>5
<1> QED BY <1>2

LEMMA Induct ==
    ASSUME NEW n \in Nat, NEW S \in SUBSET (0..n), 0 \in S,
           \A i \in 1..n : i - 1 \in S => i \in S
    PROVE  S = 0..n
<1> SUFFICES ASSUME (0..n) \ S # {} PROVE FALSE
  OBVIOUS
<1> DEFINE R == (0..n) \ S
<1>1. PICK k \in R : \A j \in R : k <= j
  <2>1. R \in SUBSET Nat /\ R # {}
    OBVIOUS
  <2> HIDE DEF R
  <2> QED BY <2>1, Least
<1>2. k - 1 \in 0..n /\ k - 1 \notin (0..n) \ S
  BY <1>1
<1> QED BY <1>1, <1>2

Kept(list, S, n, f) ==
    f = [i \in 0..n |-> IF i = 0 THEN <<>>
                        ELSE IF list[i] \in S THEN Append(f[i - 1], list[i]) ELSE f[i - 1]]

Steps(list, S, n, f) ==
    /\ f = [i \in 0..n |-> f[i]]
    /\ f[0] = <<>>
    /\ \A i \in 1..n : f[i] = IF list[i] \in S THEN Append(f[i - 1], list[i]) ELSE f[i - 1]

LEMMA KeptSteps ==
    ASSUME NEW list, NEW S, NEW n \in Nat, NEW f
    PROVE  Kept(list, S, n, f) <=> Steps(list, S, n, f)
<1> DEFINE e(i) == IF i = 0 THEN <<>>
                   ELSE IF list[i] \in S THEN Append(f[i - 1], list[i]) ELSE f[i - 1]
<1>1. f = [i \in 0..n |-> e(i)] <=> f = [i \in 0..n |-> f[i]] /\ \A i \in 0..n : f[i] = e(i)
  <2> HIDE DEF e
  <2> QED OBVIOUS
<1>2. (\A i \in 0..n : f[i] = e(i)) <=>
        /\ f[0] = <<>>
        /\ \A i \in 1..n : f[i] = IF list[i] \in S THEN Append(f[i - 1], list[i]) ELSE f[i - 1]
  OBVIOUS
<1> QED BY <1>1, <1>2 DEF Kept, Steps

LEMMA StepsExist ==
    ASSUME NEW T, NEW list \in Seq(T), NEW S
    PROVE  \E f : Steps(list, S, Len(list), f)
<1> DEFINE n == Len(list)
           K == {k \in 0..n : \E f : Steps(list, S, k, f)}
<1>1. 0 \in K
  <2> DEFINE f == [i \in 0..0 |-> <<>>]
  <2>1. Steps(list, S, 0, f)
    BY DEF Steps
  <2> QED BY <2>1
<1>2. ASSUME NEW k \in 1..n, k - 1 \in K PROVE k \in K
  <2>1. PICK f : Steps(list, S, k - 1, f)
    BY <1>2
  <2> DEFINE g == [i \in 0..k |-> IF i < k THEN f[i]
                     ELSE IF list[i] \in S THEN Append(f[i - 1], list[i]) ELSE f[i - 1]]
  <2>2. /\ g = [i \in 0..k |-> g[i]] /\ g[0] = <<>>
        /\ \A i \in 0..(k - 1) : g[i] = f[i]
        /\ g[k] = IF list[k] \in S THEN Append(f[k - 1], list[k]) ELSE f[k - 1]
    BY <2>1 DEF Steps
  <2> HIDE DEF g
  <2>3. ASSUME NEW i \in 1..k
        PROVE  g[i] = IF list[i] \in S THEN Append(g[i - 1], list[i]) ELSE g[i - 1]
    <3>1. i - 1 \in 0..(k - 1)
      OBVIOUS
    <3>2. CASE i = k
      BY <2>2, <3>1, <3>2
    <3>3. CASE i # k
      <4>1. i \in 1..(k - 1) /\ i \in 0..(k - 1)
        BY <3>3
      <4> QED BY <2>1, <2>2, <3>1, <4>1 DEF Steps
    <3> QED BY <3>2, <3>3
  <2>4. Steps(list, S, k, g)
    BY <2>2, <2>3 DEF Steps
  <2> QED BY <2>4
<1>3. K = 0..n
  <2>1. n \in Nat
    OBVIOUS
  <2>2. K \in SUBSET (0..n)
    OBVIOUS
  <2>3. \A i \in 1..n : i - 1 \in K => i \in K
    BY <1>2
  <2> HIDE DEF n, K
  <2> QED BY <1>1, <2>3, <2>1, <2>2, Induct
<1>4. n \in K
  <2>1. n \in 0..n
    OBVIOUS
  <2> HIDE DEF K, n
  <2> QED BY <1>3, <2>1
<1> HIDE DEF n
<1>5. \E f : Steps(list, S, n, f)
  BY <1>4
<1> QED BY <1>5 DEF n

LEMMA FilterIsKept ==
    ASSUME NEW T, NEW list \in Seq(T), NEW S
    PROVE  \E f : Steps(list, S, Len(list), f) /\ filter(list, S) = f[Len(list)]
<1> DEFINE f == CHOOSE f : Kept(list, S, Len(list), f)
<1>1. Kept(list, S, Len(list), f)
  BY StepsExist, KeptSteps
<1>2. filter(list, S) = f[Len(list)]
  BY Zenon DEF filter, Kept
<1>3. Steps(list, S, Len(list), f)
  BY <1>1, KeptSteps
<1> QED BY <1>2, <1>3

\* A filter keeps the nodes that are in S, and no other.
LEMMA FilterKeeps ==
    ASSUME NEW T, NEW list \in Seq(T), NEW S
    PROVE  /\ filter(list, S) \in Seq(T)
           /\ \A k \in DOMAIN filter(list, S) :
                filter(list, S)[k] \in S /\ \E j \in DOMAIN list : filter(list, S)[k] = list[j]
           /\ \A j \in DOMAIN list : list[j] \in S =>
                \E k \in DOMAIN filter(list, S) : filter(list, S)[k] = list[j]
<1>1. PICK f : Steps(list, S, Len(list), f) /\ filter(list, S) = f[Len(list)]
  BY FilterIsKept
<1> DEFINE n == Len(list)
           Upto(i) == /\ f[i] \in Seq(T)
                      /\ \A k \in DOMAIN f[i] :
                           f[i][k] \in S /\ \E j \in 1..n : f[i][k] = list[j]
                      /\ \A j \in 1..i : list[j] \in S => \E k \in DOMAIN f[i] : f[i][k] = list[j]
           K == {i \in 0..n : Upto(i)}
<1>2. Upto(0)
  <2>1. f[0] = <<>>
    BY <1>1 DEF Steps
  <2>2. f[0] \in Seq(T) /\ DOMAIN f[0] = {} /\ 1..0 = {}
    BY <2>1
  <2> QED BY <2>2
<1>3. ASSUME NEW i \in 1..n, Upto(i - 1) PROVE Upto(i)
  <2>1. list[i] \in T /\ n \in Nat
    OBVIOUS
  <2>2. f[i] = IF list[i] \in S THEN Append(f[i - 1], list[i]) ELSE f[i - 1]
    BY <1>1 DEF Steps
  <2>3. CASE list[i] \in S
    <3> DEFINE g == f[i - 1]
    <3>1. g \in Seq(T) /\ f[i] = Append(g, list[i])
      BY <1>3, <2>2, <2>3
    <3>2. /\ \A k \in DOMAIN g : g[k] \in S /\ \E j \in 1..n : g[k] = list[j]
          /\ \A j \in 1..(i - 1) : list[j] \in S => \E k \in DOMAIN g : g[k] = list[j]
      BY <1>3
    <3> HIDE DEF g
    <3>3. /\ f[i] \in Seq(T) /\ DOMAIN f[i] = 1..(Len(g) + 1) /\ DOMAIN g = 1..Len(g)
          /\ Len(g) \in Nat /\ f[i][Len(g) + 1] = list[i]
          /\ \A k \in 1..Len(g) : f[i][k] = g[k]
      BY <2>1, <3>1
    <3>4. ASSUME NEW k \in DOMAIN f[i]
          PROVE  f[i][k] \in S /\ \E j \in 1..n : f[i][k] = list[j]
      <4>1. CASE k = Len(g) + 1
        BY <2>3, <3>3, <4>1
      <4>2. CASE k \in 1..Len(g)
        BY <3>2, <3>3, <4>2
      <4> QED BY <3>3, <4>1, <4>2
    <3>5. ASSUME NEW j \in 1..i, list[j] \in S
          PROVE  \E k \in DOMAIN f[i] : f[i][k] = list[j]
      <4>1. CASE j = i
        BY <3>3, <4>1
      <4>2. CASE j # i
        <5>1. PICK k \in DOMAIN g : g[k] = list[j]
          BY <3>2, <3>5, <4>2
        <5> QED BY <3>3, <5>1
      <4> QED BY <4>1, <4>2
    <3> QED BY <3>3, <3>4, <3>5
  <2>4. CASE list[i] \notin S
    <3>1. f[i] = f[i - 1]
      BY <2>2, <2>4
    <3>2. ASSUME NEW j \in 1..i, list[j] \in S PROVE j \in 1..(i - 1)
      BY <2>4, <3>2
    <3> QED BY <1>3, <3>1, <3>2
  <2> QED BY <2>3, <2>4
<1>4. K = 0..n
  <2>1. n \in Nat
    OBVIOUS
  <2>2. K \in SUBSET (0..n) /\ 0 \in K
    BY <1>2, <2>1
  <2>3. \A i \in 1..n : i - 1 \in K => i \in K
    BY <1>3, <2>1
  <2> HIDE DEF n, K
  <2> QED BY <2>1, <2>2, <2>3, Induct
<1>5. n \in 0..n
  OBVIOUS
<1>6. Upto(n)
  BY <1>4, <1>5
<1> DEFINE r == f[n]
<1>7. filter(list, S) = r /\ DOMAIN list = 1..n
  BY <1>1
<1>8. /\ r \in Seq(T)
      /\ \A k \in DOMAIN r : r[k] \in S /\ \E j \in 1..n : r[k] = list[j]
      /\ \A j \in 1..n : list[j] \in S => \E k \in DOMAIN r : r[k] = list[j]
  BY <1>6
<1> HIDE DEF r, n
<1> QED BY <1>7, <1>8
-----------------------------------------------------------------------------
(* The calls of the scheduler                                                  *)

LEMMA Constants ==
    /\ IntMax \in Nat /\ StageTimeout \in Seconds /\ WaitAfterFail \in Seconds /\ 1 \in Seconds
    /\ Seconds \subseteq Nat
    /\ MaxRetries \in Nat /\ MaxFailures \in Nat /\ AuthRound \in Nat
    /\ \A f \in PluginAlarms : f # "state_watchdog" /\ f # "restart_auth"
BY ConfigAssumption DEF Seconds

SameMachine(x, y) ==
    /\ y.state = x.state /\ y.state_last_count = x.state_last_count
    /\ y.auth_round = x.auth_round /\ y.fail_count = x.fail_count
    /\ y.last_recv_frame = x.last_recv_frame /\ y.ever_sent_start = x.ever_sent_start
    /\ y.in_capture_callback = x.in_capture_callback /\ y.ringing = x.ringing
    /\ y.link = x.link /\ y.breakloop = x.breakloop /\ y.online = x.online /\ y.exit = x.exit
    /\ y.logoff = x.logoff /\ y.plugin = x.plugin /\ y.accepted = x.accepted
    /\ y.rejected = x.rejected

\* Inside a ring no call changes which nodes the list holds.
SameNodes(x, y) ==
    x.ringing =>
        /\ DOMAIN y.alarm_list = DOMAIN x.alarm_list
        /\ \A k \in DOMAIN x.alarm_list :
             /\ y.alarm_list[k].func = x.alarm_list[k].func
             /\ y.alarm_list[k].remaining = x.alarm_list[k].remaining

AlarmsOnly(x, y) ==
    y \in Memory /\ ListsInOrder(y) /\ SameMachine(x, y) /\ SameNodes(x, y)

Funcs == {"state_watchdog", "restart_auth"} \cup PluginAlarms

LEMMA SettingTimer ==
    ASSUME NEW x \in Memory, NEW t \in Nat
    PROVE  LET y == set_alarm(x, t) IN
           /\ y \in Memory /\ SameMachine(x, y)
           /\ y.alarm_list = x.alarm_list /\ y.add_temp = x.add_temp /\ y.timer = t
<1>1. set_alarm(x, t) \in Memory
  BY DEF set_alarm, Memory
<1>2. /\ SameMachine(x, set_alarm(x, t)) /\ set_alarm(x, t).timer = t
      /\ set_alarm(x, t).alarm_list = x.alarm_list /\ set_alarm(x, t).add_temp = x.add_temp
  BY DEF set_alarm, Memory, SameMachine
<1> QED BY <1>1, <1>2

LEMMA Scheduling ==
    ASSUME NEW x \in Memory, ListsInOrder(x), NEW secs \in Seconds, NEW func \in Funcs,
           NEW named \in BOOLEAN
    PROVE  LET y == schedule_alarm(x, secs, func, named) IN
           /\ AlarmsOnly(x, y)
           /\ \A i, n : (n => named) => Held(y, i, func, n)
           /\ \A i, g, n : Held(x, i, g, n) => Held(y, i, g, n)
<1> DEFINE event == [func |-> func, remaining |-> secs, marked_delete |-> FALSE, named |-> named]
           y == schedule_alarm(x, secs, func, named)
<1>1. /\ event \in Alarm /\ event.func = func /\ event.remaining = secs
      /\ event.marked_delete = FALSE /\ event.named = named
      /\ secs \in Nat /\ secs > 0 /\ secs < IntMax
  BY Constants DEF Alarm, Funcs, Seconds
<1> HIDE DEF event
<1>2. CASE x.ringing
  <2> DEFINE new == Append(x.add_temp, event)
  <2>1. y = [x EXCEPT !.add_temp = new]
    BY <1>2 DEF schedule_alarm, event
  <2>2. /\ new \in Seq(Alarm)
        /\ DOMAIN new = 1..(Len(x.add_temp) + 1) /\ new[Len(x.add_temp) + 1] = event
        /\ \A k \in 1..Len(x.add_temp) : new[k] = x.add_temp[k]
        /\ DOMAIN x.add_temp = 1..Len(x.add_temp) /\ Len(x.add_temp) \in Nat
    BY <1>1 DEF Memory
  <2> HIDE DEF new
  <2>3. /\ y \in Memory /\ SameMachine(x, y) /\ y.alarm_list = x.alarm_list
        /\ y.add_temp = new /\ y.timer = x.timer
    BY <2>1, <2>2 DEF Memory, SameMachine
  <2> HIDE DEF y
  <2>4. \A k \in DOMAIN new : new[k].remaining \in Seconds /\ ~new[k].marked_delete
    BY <1>1, <2>2 DEF ListsInOrder
  <2>5. ListsInOrder(y)
    BY <1>2, <2>3, <2>4 DEF ListsInOrder, SameMachine
  <2> QED BY <1>1, <2>2, <2>3, <2>5 DEF AlarmsOnly, SameNodes, Held, y
<1>3. CASE ~x.ringing
  <2> DEFINE left == IF x.timer = 0 THEN IntMax ELSE x.timer
             t == IF left < secs THEN left ELSE secs
             new == Append(x.alarm_list, event)
             z == [x EXCEPT !.alarm_list = new]
  <2>1. y = set_alarm(z, t)
    BY <1>3 DEF schedule_alarm, event
  <2>2. t \in Seconds /\ t \in Nat /\ t <= IntMax
    BY <1>1, <1>3, Constants DEF ListsInOrder, Memory, Seconds
  <2>3. /\ new \in Seq(Alarm)
        /\ DOMAIN new = 1..(Len(x.alarm_list) + 1) /\ new[Len(x.alarm_list) + 1] = event
        /\ \A k \in 1..Len(x.alarm_list) : new[k] = x.alarm_list[k]
        /\ DOMAIN x.alarm_list = 1..Len(x.alarm_list) /\ Len(x.alarm_list) \in Nat
    BY <1>1 DEF Memory
  <2> HIDE DEF t, new
  <2>4. z \in Memory /\ z.alarm_list = new /\ z.add_temp = x.add_temp /\ SameMachine(x, z)
    BY <2>3 DEF Memory, SameMachine
  <2> HIDE DEF z
  <2>5. /\ y \in Memory /\ SameMachine(x, y) /\ y.add_temp = x.add_temp
        /\ y.alarm_list = new /\ y.timer = t
    BY <2>1, <2>2, <2>4, SettingTimer DEF SameMachine
  <2> HIDE DEF y
  <2>6. \A k \in DOMAIN new : new[k].remaining < IntMax /\ new[k].remaining > 0 /\ ~new[k].marked_delete
    BY <1>1, <1>3, <2>3 DEF ListsInOrder
  <2>7. ListsInOrder(y)
    BY <1>3, <2>2, <2>5, <2>6 DEF ListsInOrder, SameMachine
  <2> QED BY <1>1, <1>3, <2>3, <2>5, <2>7 DEF AlarmsOnly, SameNodes, Held, y
<1> QED BY <1>2, <1>3

LEMMA IsList ==
    ASSUME NEW T, NEW n \in Nat, NEW f, f = [k \in 1..n |-> f[k]], \A k \in 1..n : f[k] \in T
    PROVE  f \in Seq(T)
<1>1. f \in [1..n -> T]
  OBVIOUS
<1> QED BY <1>1

LEMMA Marking ==
    ASSUME NEW e \in Alarm, NEW func
    PROVE  /\ marked(e, func) \in Alarm
           /\ marked(e, func).func = e.func /\ marked(e, func).named = e.named
           /\ marked(e, func).remaining = e.remaining
           /\ e.func # func => marked(e, func).marked_delete = e.marked_delete
<1>1. e.marked_delete \in BOOLEAN /\ e.named \in BOOLEAN
  BY DEF Alarm
<1>2. (e.marked_delete \/ (e.func = func /\ e.named)) \in BOOLEAN
  BY <1>1
<1>3. marked(e, func) \in Alarm
  BY <1>2 DEF marked, Alarm
<1>4. /\ marked(e, func).func = e.func /\ marked(e, func).named = e.named
      /\ marked(e, func).remaining = e.remaining
      /\ marked(e, func).marked_delete = (e.marked_delete \/ (e.func = func /\ e.named))
  BY DEF marked, Alarm
<1>5. e.func # func => (e.marked_delete \/ (e.func = func /\ e.named)) = e.marked_delete
  BY <1>1
<1> QED BY <1>3, <1>4, <1>5

LEMMA Unscheduling ==
    ASSUME NEW x \in Memory, ListsInOrder(x), NEW func
    PROVE  LET y == unschedule_alarm(x, func) IN
           /\ AlarmsOnly(x, y)
           /\ \A i, g, n : Held(x, i, g, n) /\ g # func => Held(y, i, g, n)
<1> DEFINE y == unschedule_alarm(x, func)
<1>1. CASE x.ringing
  <2> DEFINE new == [i \in DOMAIN x.alarm_list |-> marked(x.alarm_list[i], func)]
  <2>1. y = [x EXCEPT !.alarm_list = new]
    BY <1>1 DEF unschedule_alarm
  <2>2. x.alarm_list \in Seq(Alarm)
    BY DEF Memory
  <2>3. ASSUME NEW k \in DOMAIN x.alarm_list
        PROVE  new[k] = marked(x.alarm_list[k], func) /\ x.alarm_list[k] \in Alarm
    BY <2>2
  <2>4. DOMAIN new = DOMAIN x.alarm_list /\ new = [k \in 1..Len(x.alarm_list) |-> new[k]]
    BY <2>2
  <2> HIDE DEF new
  <2>5. \A k \in DOMAIN x.alarm_list :
          /\ new[k] \in Alarm
          /\ new[k].func = x.alarm_list[k].func /\ new[k].named = x.alarm_list[k].named
          /\ new[k].remaining = x.alarm_list[k].remaining
          /\ x.alarm_list[k].func # func
               => new[k].marked_delete = x.alarm_list[k].marked_delete
    BY <2>3, Marking
  <2>6. new \in Seq(Alarm)
    <3>1. Len(x.alarm_list) \in Nat /\ DOMAIN x.alarm_list = 1..Len(x.alarm_list)
      BY <2>2
    <3> QED BY <2>4, <2>5, <3>1, IsList
  <2>7. /\ y \in Memory /\ SameMachine(x, y) /\ y.alarm_list = new /\ y.add_temp = x.add_temp
        /\ y.timer = x.timer
    BY <2>1, <2>6 DEF Memory, SameMachine
  <2> HIDE DEF y
  <2>8. ListsInOrder(y)
    BY <1>1, <2>4, <2>5, <2>7 DEF ListsInOrder, SameMachine
  <2>9. SameNodes(x, y)
    BY <2>4, <2>5, <2>7 DEF SameNodes
  <2>10. \A i, g, n : Held(x, i, g, n) /\ g # func => Held(y, i, g, n)
    BY <2>4, <2>5, <2>7 DEF Held
  <2> QED BY <2>7, <2>8, <2>9, <2>10 DEF AlarmsOnly, y
<1>2. CASE ~x.ringing
  <2> DEFINE S == {e \in Range(x.alarm_list) : ~(e.func = func /\ e.named)}
             new == filter(x.alarm_list, S)
  <2>1. y = [x EXCEPT !.alarm_list = new]
    BY <1>2 DEF unschedule_alarm
  <2>2. x.alarm_list \in Seq(Alarm)
    BY DEF Memory
  <2>3. \A k \in DOMAIN x.alarm_list : x.alarm_list[k].func # func => x.alarm_list[k] \in S
    BY DEF Range
  <2> HIDE DEF S
  <2>4. /\ new \in Seq(Alarm)
        /\ \A k \in DOMAIN new : \E j \in DOMAIN x.alarm_list : new[k] = x.alarm_list[j]
        /\ \A j \in DOMAIN x.alarm_list : x.alarm_list[j].func # func =>
             \E k \in DOMAIN new : new[k] = x.alarm_list[j]
    BY <2>2, <2>3, FilterKeeps
  <2> HIDE DEF new
  <2>5. /\ y \in Memory /\ SameMachine(x, y) /\ y.alarm_list = new /\ y.add_temp = x.add_temp
        /\ y.timer = x.timer
    BY <2>1, <2>4 DEF Memory, SameMachine
  <2> HIDE DEF y
  <2>6. \A k \in DOMAIN new : new[k].remaining < IntMax /\ new[k].remaining > 0
                              /\ ~new[k].marked_delete
    BY <1>2, <2>4 DEF ListsInOrder
  <2>7. new # <<>> => x.alarm_list # <<>>
    BY <2>2, <2>4
  <2>8. ListsInOrder(y)
    BY <1>2, <2>5, <2>6, <2>7 DEF ListsInOrder, SameMachine
  <2>9. \A i, g, n : Held(x, i, g, n) /\ g # func => Held(y, i, g, n)
    BY <1>2, <2>4, <2>5, <2>6 DEF Held
  <2> QED BY <1>2, <2>5, <2>8, <2>9 DEF AlarmsOnly, SameNodes, y
<1> QED BY <1>1, <1>2

LEMMA Unnamed ==
    ASSUME NEW e \in Alarm, NEW func
    PROVE  /\ unnamed(e, func) \in Alarm
           /\ unnamed(e, func).func = e.func
           /\ unnamed(e, func).marked_delete = e.marked_delete
           /\ unnamed(e, func).remaining = e.remaining
           /\ e.func # func => unnamed(e, func).named = e.named
<1>1. e.named \in BOOLEAN /\ (e.named /\ e.func # func) \in BOOLEAN
  BY DEF Alarm
<1>2. unnamed(e, func) \in Alarm
  BY <1>1 DEF unnamed, Alarm
<1>3. /\ unnamed(e, func).func = e.func /\ unnamed(e, func).marked_delete = e.marked_delete
      /\ unnamed(e, func).remaining = e.remaining
      /\ unnamed(e, func).named = (e.named /\ e.func # func)
  BY DEF unnamed, Alarm
<1>4. e.func # func => (e.named /\ e.func # func) = e.named
  BY <1>1
<1> QED BY <1>2, <1>3, <1>4

\* The same nodes in the same order, with other names.
Renamed(old, new, func) ==
    /\ new \in Seq(Alarm) /\ DOMAIN new = DOMAIN old /\ (old = <<>> => new = <<>>)
    /\ \A k \in DOMAIN old :
         /\ new[k].func = old[k].func /\ new[k].remaining = old[k].remaining
         /\ new[k].marked_delete = old[k].marked_delete
         /\ old[k].func # func => new[k].named = old[k].named

LEMMA Renaming ==
    ASSUME NEW old \in Seq(Alarm), NEW func
    PROVE  Renamed(old, [i \in DOMAIN old |-> unnamed(old[i], func)], func)
<1> DEFINE new == [i \in DOMAIN old |-> unnamed(old[i], func)]
<1>1. ASSUME NEW k \in DOMAIN old PROVE new[k] = unnamed(old[k], func) /\ old[k] \in Alarm
  OBVIOUS
<1>2. /\ DOMAIN new = DOMAIN old /\ new = [k \in 1..Len(old) |-> new[k]]
      /\ Len(old) \in Nat /\ DOMAIN old = 1..Len(old)
  OBVIOUS
<1> HIDE DEF new
<1>3. \A k \in DOMAIN old :
        /\ new[k] \in Alarm
        /\ new[k].func = old[k].func /\ new[k].remaining = old[k].remaining
        /\ new[k].marked_delete = old[k].marked_delete
        /\ old[k].func # func => new[k].named = old[k].named
  BY <1>1, Unnamed
<1>4. new \in Seq(Alarm)
  BY <1>2, <1>3, IsList
<1>5. old = <<>> => new = <<>>
  BY <1>2, <1>4
<1>6. Renamed(old, new, func)
  BY <1>2, <1>3, <1>4, <1>5 DEF Renamed
<1> QED BY <1>6 DEF new

LEMMA Unnaming ==
    ASSUME NEW x \in Memory, ListsInOrder(x), NEW func
    PROVE  LET y == Unname(x, func) IN
           /\ AlarmsOnly(x, y)
           /\ \A i, g, n : Held(x, i, g, n) /\ (g # func \/ n = FALSE) => Held(y, i, g, n)
<1> DEFINE each(list) == [i \in DOMAIN list |-> unnamed(list[i], func)]
           main == each(x.alarm_list)
           temp == each(x.add_temp)
           y == Unname(x, func)
<1>1. y = [x EXCEPT !.alarm_list = main, !.add_temp = temp]
  BY DEF Unname
<1>2. Renamed(x.alarm_list, main, func) /\ Renamed(x.add_temp, temp, func)
  <2>1. x.alarm_list \in Seq(Alarm) /\ x.add_temp \in Seq(Alarm)
    BY DEF Memory
  <2> QED BY <2>1, Renaming
<1> HIDE DEF main, temp
<1>3. /\ y \in Memory /\ SameMachine(x, y) /\ y.alarm_list = main /\ y.add_temp = temp
      /\ y.timer = x.timer
  BY <1>1, <1>2 DEF Memory, SameMachine, Renamed
<1> HIDE DEF y
<1>4. x.alarm_list \in Seq(Alarm) /\ (main # <<>> => x.alarm_list # <<>>)
  BY <1>2 DEF Memory, Renamed
<1>5. ListsInOrder(y)
  BY <1>2, <1>3, <1>4 DEF ListsInOrder, SameMachine, Renamed
<1>6. SameNodes(x, y)
  BY <1>2, <1>3 DEF SameNodes, Renamed
<1>7. \A i, g, n : Held(x, i, g, n) /\ (g # func \/ n = FALSE) => Held(y, i, g, n)
  BY <1>2, <1>3 DEF Held, Renamed
<1> QED BY <1>3, <1>5, <1>6, <1>7 DEF AlarmsOnly, y
-----------------------------------------------------------------------------
(* What the functions of the state machine do to a process that runs           *)

Calm(x) == x \in Memory /\ ListsInOrder(x) /\ Running(x)

\* The process goes on after a call, in the same place.
Near(x, y) ==
    /\ y \in Memory /\ ListsInOrder(y) /\ y.exit = x.exit /\ y.ringing = x.ringing
    /\ y.in_capture_callback = x.in_capture_callback
    /\ x.ever_sent_start => y.ever_sent_start
    /\ y.rejected = x.rejected /\ SameNodes(x, y)

\* A call ended the process.
Over(x, y) ==
    /\ y \in Memory /\ ListsInOrder(y) /\ ~Running(y) /\ y.exit # "stopped" /\ ~y.ringing
    /\ y.rejected = x.rejected

Goes(x, y) == Near(x, y) \/ Over(x, y)

\* Alarms that are still to come before a call are so after it, those of S apart.
Keeps(x, y, S) == \A i, g, n : g \notin S /\ Held(x, i, g, n) => Held(y, i, g, n)

Own == {"state_watchdog", "restart_auth"}

\* A call of the state machine itself, which leaves the plugins' alarms alone.
Close(x, y) ==
    /\ Near(x, y) /\ Keeps(x, y, Own)
    /\ PluginNeeds(y.plugin) \subseteq PluginNeeds(x.plugin)

\* The alarms the plugins need are to come, those of S apart.
Needed(x, i, S) ==
    Running(x) => \A g \in PluginNeeds(x.plugin) \ S : Held(x, i, g, FALSE)

\* A watchdog that can be cancelled, and a restart.
Watched(x) == \A i : Held(x, i, "state_watchdog", TRUE)
Restarting(x) == \A i : Held(x, i, "restart_auth", FALSE)

\* What the plugins promise the state machine.  A packet that is to be sent changes
\* no more than their own memory, and what they need no further.
PacketsKeep ==
    /\ \A p \in PluginStates : PluginNeeds(p) \subseteq PluginAlarms
    /\ \A p \in PluginInits : PluginNeeds(p) = {}
    /\ \A x \in Memory :
         /\ prepare_frame(x) = [x EXCEPT !.plugin = prepare_frame(x).plugin]
         /\ prepare_frame(x).plugin \in PluginStates
         /\ PluginNeeds(prepare_frame(x).plugin) \subseteq PluginNeeds(x.plugin)

\* Their hooks for frames and alarms are calls of the scheduler and of the state
\* machine that keep what its own calls keep, and the alarms they need themselves.
HooksKeep ==
    /\ \A x \in Memory, f \in Frames : Calm(x) =>
         /\ Goes(x, on_frame_received(x, f))
         /\ \A i \in Nat : Sound(x, i) => Sound(on_frame_received(x, f), i)
         /\ \A i \in Nat : Needed(x, i, {}) => Needed(on_frame_received(x, f), i, {})
    /\ \A x \in Memory, func \in PluginAlarms : Calm(x) =>
         /\ Goes(x, plugin_alarm(x, func))
         /\ \A i \in Nat : Sound(x, i) => Sound(plugin_alarm(x, func), i)
         /\ \A i \in Nat : Needed(x, i, {func}) => Needed(plugin_alarm(x, func), i, {})

PluginsKeep == PacketsKeep /\ HooksKeep

LEMMA NearTrans ==
    ASSUME NEW x, NEW y, NEW z, Near(x, y), Near(y, z)
    PROVE  Near(x, z)
BY DEF Near, SameNodes

LEMMA NearOver ==
    ASSUME NEW x, NEW y, NEW z, Near(x, y), Over(y, z)
    PROVE  Over(x, z)
BY DEF Near, Over

LEMMA CloseTrans ==
    ASSUME NEW x, NEW y, NEW z, Close(x, y), Close(y, z)
    PROVE  Close(x, z)
BY NearTrans DEF Close, Keeps

LEMMA CloseOver ==
    ASSUME NEW x, NEW y, NEW z, Close(x, y), Over(y, z)
    PROVE  Over(x, z)
BY NearOver DEF Close

LEMMA AlarmsClose ==
    ASSUME NEW x, NEW y, AlarmsOnly(x, y), Keeps(x, y, Own)
    PROVE  Close(x, y) /\ y.state = x.state /\ y.fail_count = x.fail_count
BY DEF AlarmsOnly, SameMachine, Near, Close

\* What the state machine does keeps what the plugins need.
LEMMA CloseNeeded ==
    ASSUME PacketsKeep, NEW x \in Memory, NEW y, Close(x, y), NEW i, NEW S, Needed(x, i, S)
    PROVE  Needed(y, i, S)
<1>1. \A g \in PluginNeeds(x.plugin) : g \notin Own
  BY Constants DEF PacketsKeep, Memory, Own
<1>2. Running(y) => Running(x)
  BY DEF Close, Near, Running
<1> QED BY <1>1, <1>2 DEF Needed, Close, Keeps

LEMMA CloseCalm ==
    ASSUME NEW x, NEW y, Calm(x), Close(x, y)
    PROVE  Calm(y)
BY DEF Close, Near, Calm, Running

LEMMA DisableWatchdog ==
    ASSUME NEW x \in Memory, ListsInOrder(x)
    PROVE  LET y == disable_state_watchdog(x) IN
           /\ Close(x, y) /\ Keeps(x, y, {"state_watchdog"})
           /\ y.state = x.state /\ y.fail_count = x.fail_count
<1> DEFINE w == unschedule_alarm(x, "state_watchdog")
           y == Unname(w, "state_watchdog")
<1>1. y = disable_state_watchdog(x)
  BY DEF disable_state_watchdog
<1>2. /\ AlarmsOnly(x, w)
      /\ \A i, g, n : Held(x, i, g, n) /\ g # "state_watchdog" => Held(w, i, g, n)
  BY Unscheduling
<1> HIDE DEF w
<1>3. w \in Memory /\ ListsInOrder(w)
  BY <1>2 DEF AlarmsOnly
<1>4. /\ AlarmsOnly(w, y)
      /\ \A i, g, n : Held(w, i, g, n) /\ (g # "state_watchdog" \/ n = FALSE) => Held(y, i, g, n)
  BY <1>3, Unnaming
<1> HIDE DEF y
<1>own. Keeps(x, w, Own) /\ Keeps(w, y, Own)
  BY <1>2, <1>4 DEF Keeps, Own
<1>5. Close(x, y) /\ y.state = x.state /\ y.fail_count = x.fail_count
  BY <1>2, <1>4, <1>own, AlarmsClose, CloseTrans
<1>6. Keeps(x, y, {"state_watchdog"})
  BY <1>2, <1>4 DEF Keeps
<1> QED BY <1>1, <1>5, <1>6

LEMMA ResetWatchdog ==
    ASSUME NEW x \in Memory, ListsInOrder(x)
    PROVE  LET y == reset_state_watchdog(x) IN
           /\ Close(x, y) /\ Keeps(x, y, {}) /\ Watched(y)
           /\ y.state = x.state /\ y.fail_count = x.fail_count
<1> DEFINE w == disable_state_watchdog(x)
           y == schedule_alarm(w, StageTimeout, "state_watchdog", TRUE)
<1>1. y = reset_state_watchdog(x)
  BY DEF reset_state_watchdog
<1>2. /\ Close(x, w) /\ Keeps(x, w, {"state_watchdog"})
      /\ w.state = x.state /\ w.fail_count = x.fail_count
  BY DisableWatchdog
<1> HIDE DEF w
<1>3. w \in Memory /\ ListsInOrder(w) /\ StageTimeout \in Seconds /\ "state_watchdog" \in Funcs
  BY <1>2, Constants DEF Close, Near, Funcs
<1>4. /\ AlarmsOnly(w, y)
      /\ \A i, n : (n => TRUE) => Held(y, i, "state_watchdog", n)
      /\ \A i, g, n : Held(w, i, g, n) => Held(y, i, g, n)
  BY <1>3, Scheduling
<1> HIDE DEF y
<1>own. Keeps(w, y, Own)
  BY <1>4 DEF Keeps
<1>5. Close(x, y) /\ y.state = x.state /\ y.fail_count = x.fail_count
  BY <1>2, <1>4, <1>own, AlarmsClose, CloseTrans
<1>6. Keeps(x, y, {}) /\ Watched(y)
  BY <1>2, <1>4 DEF Keeps, Watched
<1> QED BY <1>1, <1>5, <1>6

LEMMA Preparing ==
    ASSUME PacketsKeep, NEW x \in Memory, ListsInOrder(x)
    PROVE  LET y == prepare_frame(x) IN
           /\ Close(x, y) /\ y.state = x.state /\ y.fail_count = x.fail_count
           /\ y.ever_sent_start = x.ever_sent_start
           /\ y.alarm_list = x.alarm_list /\ y.add_temp = x.add_temp
<1> DEFINE y == prepare_frame(x)
           p == y.plugin
<1>1. y = [x EXCEPT !.plugin = p] /\ p \in PluginStates
      /\ PluginNeeds(p) \subseteq PluginNeeds(x.plugin)
  BY DEF PacketsKeep
<1> HIDE DEF y, p
<1>2. /\ y \in Memory /\ y.exit = x.exit /\ y.ringing = x.ringing /\ y.timer = x.timer
      /\ y.in_capture_callback = x.in_capture_callback
      /\ y.ever_sent_start = x.ever_sent_start
      /\ y.rejected = x.rejected
      /\ y.state = x.state /\ y.fail_count = x.fail_count /\ y.plugin = p
      /\ y.alarm_list = x.alarm_list /\ y.add_temp = x.add_temp
  BY <1>1 DEF Memory
<1>3. ListsInOrder(y) /\ SameNodes(x, y) /\ Keeps(x, y, Own)
  BY <1>2 DEF ListsInOrder, SameNodes, Keeps, Held
<1> QED BY <1>1, <1>2, <1>3 DEF Close, Near, y

LEMMA Empty == <<>> \in Seq(Alarm)
OBVIOUS

LEMMA Exiting ==
    ASSUME PacketsKeep, NEW x \in Memory, ListsInOrder(x), NEW why \in Exits
    PROVE  LET y == exit(x, why) IN
           /\ y \in Memory /\ ListsInOrder(y) /\ y.exit = why /\ ~y.ringing
           /\ y.rejected = x.rejected
           /\ y.logoff = (x.ever_sent_start /\ ~x.in_capture_callback)
<1> DEFINE logoff == x.ever_sent_start /\ ~x.in_capture_callback
           z == IF logoff THEN prepare_frame(x) ELSE x
           z1 == [z EXCEPT !.exit = why, !.logoff = logoff]
           z2 == [z1 EXCEPT !.online = FALSE, !.timer = 0]
           z3 == [z2 EXCEPT !.alarm_list = <<>>, !.add_temp = <<>>]
           y == [z3 EXCEPT !.ringing = FALSE, !.last_set_time = 0]
<1>1. exit(x, why) = [z EXCEPT !.exit = why, !.logoff = logoff,
                  !.online = FALSE, !.alarm_list = <<>>, !.add_temp = <<>>, !.timer = 0,
                  !.ringing = FALSE, !.last_set_time = 0]
  BY DEF exit
<1>2. z \in Memory /\ z.rejected = x.rejected /\ logoff \in BOOLEAN
  BY Preparing DEF Close, Near, Memory
<1> HIDE DEF z, logoff
<1>3. y = [z EXCEPT !.exit = why, !.logoff = logoff,
                  !.online = FALSE, !.alarm_list = <<>>, !.add_temp = <<>>, !.timer = 0,
                  !.ringing = FALSE, !.last_set_time = 0]
  BY <1>2 DEF Memory
<1>4. z1 \in Memory /\ z1.exit = why /\ z1.logoff = logoff /\ z1.rejected = z.rejected
  BY <1>2 DEF Memory
<1> HIDE DEF z1
<1>5. /\ z2 \in Memory /\ z2.exit = why /\ z2.logoff = logoff /\ z2.rejected = z.rejected
      /\ z2.timer = 0
  BY <1>4 DEF Memory
<1> HIDE DEF z2
<1>6. /\ z3 \in Memory /\ z3.exit = why /\ z3.logoff = logoff /\ z3.rejected = z.rejected
      /\ z3.alarm_list = <<>> /\ z3.add_temp = <<>> /\ z3.timer = 0
  BY <1>5, Empty DEF Memory
<1> HIDE DEF z3
<1>7. /\ y \in Memory /\ y.exit = why /\ y.logoff = logoff /\ y.rejected = z.rejected
      /\ y.alarm_list = <<>> /\ y.add_temp = <<>> /\ y.timer = 0 /\ y.ringing = FALSE
  BY <1>6 DEF Memory
<1> HIDE DEF y
<1>8. ListsInOrder(y)
  BY <1>7, Constants DEF ListsInOrder
<1> QED BY <1>1, <1>2, <1>3, <1>7, <1>8 DEF logoff

LEMMA Crashing ==
    ASSUME NEW x \in Memory, ListsInOrder(x)
    PROVE  Over(x, crash(x))
<1> DEFINE why == "crash"
           z1 == [x EXCEPT !.exit = why, !.timer = 0]
           z2 == [z1 EXCEPT !.alarm_list = <<>>, !.add_temp = <<>>]
           y == [z2 EXCEPT !.ringing = FALSE, !.last_set_time = 0]
<1>1. y = crash(x)
  BY DEF Memory, crash, why
<1>e. why \in Exits /\ why # "no" /\ why # "stopped"
  BY DEF Exits
<1> HIDE DEF why
<1>2. z1 \in Memory /\ z1.exit = why /\ z1.rejected = x.rejected /\ z1.timer = 0
  BY <1>e DEF Memory
<1> HIDE DEF z1
<1>3. /\ z2 \in Memory /\ z2.exit = why /\ z2.rejected = x.rejected /\ z2.alarm_list = <<>>
      /\ z2.add_temp = <<>> /\ z2.timer = 0
  BY <1>2, Empty DEF Memory
<1> HIDE DEF z2
<1>4. /\ y \in Memory /\ y.exit = why /\ y.rejected = x.rejected /\ y.alarm_list = <<>>
      /\ y.add_temp = <<>> /\ y.timer = 0 /\ y.ringing = FALSE
  BY <1>3 DEF Memory
<1> HIDE DEF y
<1>5. ListsInOrder(y)
  BY <1>4, Constants DEF ListsInOrder
<1> QED BY <1>1, <1>e, <1>4, <1>5 DEF Over, Running

\* A call for one of these reasons ends the process.
LEMMA ExitIsOver ==
    ASSUME PacketsKeep, NEW x \in Memory, ListsInOrder(x), NEW why \in Exits \ {"no", "stopped"}
    PROVE  Over(x, exit(x, why))
<1>1. why \in Exits /\ why # "no" /\ why # "stopped"
  OBVIOUS
<1> QED BY <1>1, Exiting DEF Over, Running

LEMMA Sending ==
    ASSUME PacketsKeep, NEW x, Calm(x)
    PROVE  LET y == send(x) IN
           \/ Over(x, y)
           \/ /\ Close(x, y) /\ Keeps(x, y, {})
              /\ y.state = x.state /\ y.fail_count = x.fail_count
              /\ y.ever_sent_start = x.ever_sent_start
<1> DEFINE z == prepare_frame(x)
<1>1. /\ Close(x, z) /\ z.state = x.state /\ z.fail_count = x.fail_count
      /\ z.ever_sent_start = x.ever_sent_start
      /\ z.alarm_list = x.alarm_list /\ z.add_temp = x.add_temp
  BY Preparing DEF Calm
<1>2. send(x) = IF x.link THEN z ELSE exit(z, "send")
  BY DEF send
<1> HIDE DEF z
<1>3. Keeps(x, z, {})
  BY <1>1 DEF Keeps, Held
<1>4. Over(x, exit(z, "send"))
  <2>1. "send" \in Exits \ {"no", "stopped"} /\ z \in Memory /\ ListsInOrder(z)
    BY <1>1 DEF Close, Near, Exits
  <2> QED BY <1>1, <2>1, ExitIsOver, CloseOver
<1> QED BY <1>1, <1>2, <1>3, <1>4

LEMMA Arriving ==
    ASSUME NEW x, Calm(x), NEW state \in States
    PROVE  LET y == arrive(x, state) IN
           /\ Close(x, y) /\ Keeps(x, y, {}) /\ y.state = state
           /\ y.fail_count = x.fail_count /\ y.ever_sent_start = x.ever_sent_start
<1> DEFINE y == [x EXCEPT !.state = state]
<1>1. y = arrive(x, state)
  BY DEF arrive, Calm
<1>2. /\ y \in Memory /\ y.exit = x.exit /\ y.ringing = x.ringing /\ y.timer = x.timer
      /\ y.in_capture_callback = x.in_capture_callback
      /\ y.ever_sent_start = x.ever_sent_start /\ y.rejected = x.rejected
      /\ y.state = state /\ y.fail_count = x.fail_count /\ y.plugin = x.plugin
      /\ y.alarm_list = x.alarm_list /\ y.add_temp = x.add_temp
  BY DEF Memory, Calm
<1> HIDE DEF y
<1>3. ListsInOrder(y)
  BY <1>2 DEF ListsInOrder, Calm
<1>4. SameNodes(x, y) /\ Keeps(x, y, {}) /\ Keeps(x, y, Own)
  BY <1>2 DEF SameNodes, Keeps, Held
<1> QED BY <1>1, <1>2, <1>3, <1>4 DEF Close, Near

\* Fields no invariant speaks of.
LEMMA Bookkeeping ==
    ASSUME NEW x, Calm(x), NEW y \in Memory,
           y.alarm_list = x.alarm_list, y.add_temp = x.add_temp, y.ringing = x.ringing,
           y.timer = x.timer, y.exit = x.exit, y.rejected = x.rejected, y.plugin = x.plugin,
           y.in_capture_callback = x.in_capture_callback,
           x.ever_sent_start => y.ever_sent_start
    PROVE  Close(x, y) /\ Keeps(x, y, {})
<1>1. ListsInOrder(y)
  BY DEF ListsInOrder, Calm
<1>2. SameNodes(x, y) /\ Keeps(x, y, {}) /\ Keeps(x, y, Own)
  BY DEF SameNodes, Keeps, Held
<1> QED BY <1>1, <1>2 DEF Close, Near

LEMMA Entering ==
    ASSUME PacketsKeep, NEW x, Calm(x), NEW state \in States
    PROVE  LET y == enter_state(x, state) IN
           \/ Over(x, y)
           \/ /\ Close(x, y) /\ Keeps(x, y, {})
              /\ y.state = x.state /\ y.fail_count = x.fail_count
              /\ x.state # state => Watched(y)
<1>1. x \in Memory
  BY DEF Calm
<1>2. CASE x.state = state
  <2> DEFINE count == IF MaxRetries = 0 THEN 0 ELSE x.state_last_count + 1
             y == [x EXCEPT !.state_last_count = count]
  <2>1. enter_state(x, state) =
          IF MaxRetries # 0 /\ count = MaxRetries THEN exit(y, "retries") ELSE y
    BY <1>2 DEF enter_state
  <2>2. count \in Nat
    BY <1>1, Constants DEF Memory
  <2> HIDE DEF count
  <2>3. /\ y \in Memory /\ y.alarm_list = x.alarm_list /\ y.add_temp = x.add_temp
        /\ y.ringing = x.ringing /\ y.timer = x.timer /\ y.plugin = x.plugin /\ y.exit = x.exit
        /\ y.rejected = x.rejected /\ y.in_capture_callback = x.in_capture_callback
        /\ y.ever_sent_start = x.ever_sent_start
        /\ y.state = x.state /\ y.fail_count = x.fail_count
    BY <1>1, <2>2 DEF Memory
  <2> HIDE DEF y
  <2>4. Close(x, y) /\ Keeps(x, y, {})
    BY <2>3, Bookkeeping
  <2>5. Over(x, exit(y, "retries"))
    <3>1. "retries" \in Exits \ {"no", "stopped"} /\ y \in Memory /\ ListsInOrder(y)
      BY <2>4 DEF Close, Near, Exits
    <3> QED BY <2>4, <3>1, ExitIsOver, CloseOver
  <2> QED BY <1>2, <2>1, <2>3, <2>4, <2>5
<1>3. CASE x.state # state
  <2> DEFINE z == [x EXCEPT !.state_last_count = 0]
             y == reset_state_watchdog(z)
  <2>1. enter_state(x, state) = y
    BY <1>3 DEF enter_state
  <2>2. /\ z \in Memory /\ z.alarm_list = x.alarm_list /\ z.add_temp = x.add_temp
        /\ z.ringing = x.ringing /\ z.timer = x.timer /\ z.plugin = x.plugin /\ z.exit = x.exit
        /\ z.rejected = x.rejected /\ z.in_capture_callback = x.in_capture_callback
        /\ z.ever_sent_start = x.ever_sent_start
        /\ z.state = x.state /\ z.fail_count = x.fail_count
    BY <1>1 DEF Memory
  <2> HIDE DEF z
  <2>3. Close(x, z) /\ Keeps(x, z, {})
    BY <2>2, Bookkeeping
  <2>4. z \in Memory /\ ListsInOrder(z)
    BY <2>3 DEF Close, Near
  <2>5. /\ Close(z, y) /\ Keeps(z, y, {}) /\ Watched(y)
        /\ y.state = z.state /\ y.fail_count = z.fail_count
    BY <2>4, ResetWatchdog
  <2> HIDE DEF y
  <2>6. Close(x, y) /\ Keeps(x, y, {})
    BY <2>3, <2>5, CloseTrans DEF Keeps
  <2> QED BY <2>1, <2>2, <2>5, <2>6
<1> QED BY <1>2, <1>3

LEMMA KeepsWatch ==
    ASSUME NEW x, NEW y, NEW S, Keeps(x, y, S)
    PROVE  /\ "state_watchdog" \notin S /\ Watched(x) => Watched(y)
           /\ "restart_auth" \notin S /\ Restarting(x) => Restarting(y)
BY DEF Keeps, Watched, Restarting

LEMMA KeepsTrans ==
    ASSUME NEW x, NEW y, NEW z, NEW S, Keeps(x, y, S), Keeps(y, z, {})
    PROVE  Keeps(x, z, S)
BY DEF Keeps

LEMMA SwitchingToStart ==
    ASSUME PacketsKeep, NEW x, Calm(x)
    PROVE  LET y == switch_to_start_sent(x) IN
           \/ Over(x, y)
           \/ /\ Close(x, y) /\ Keeps(x, y, {})
              /\ y.state = "START_SENT" /\ y.fail_count = x.fail_count /\ y.ever_sent_start
              /\ x.state # "START_SENT" => Watched(y)
<1> DEFINE w == enter_state(x, "START_SENT")
           z == [w EXCEPT !.ever_sent_start = TRUE]
           v == send(z)
           y == arrive(v, "START_SENT")
<1>1. switch_to_start_sent(x) = IF ~Running(w) THEN w ELSE y
  BY DEF switch_to_start_sent
<1>2. "START_SENT" \in States
  BY DEF States, Waiting
<1>3. \/ Over(x, w)
      \/ /\ Close(x, w) /\ Keeps(x, w, {})
         /\ w.state = x.state /\ w.fail_count = x.fail_count
         /\ x.state # "START_SENT" => Watched(w)
  BY <1>2, Entering
<1> HIDE DEF w
<1>4. CASE Over(x, w)
  BY <1>1, <1>4 DEF Over
<1>5. CASE /\ Close(x, w) /\ Keeps(x, w, {})
           /\ w.state = x.state /\ w.fail_count = x.fail_count
           /\ x.state # "START_SENT" => Watched(w)
  <2>1. Calm(w)
    BY <1>5, CloseCalm
  <2>2. /\ z \in Memory /\ z.alarm_list = w.alarm_list /\ z.add_temp = w.add_temp
        /\ z.ringing = w.ringing /\ z.timer = w.timer /\ z.plugin = w.plugin /\ z.exit = w.exit
        /\ z.rejected = w.rejected /\ z.in_capture_callback = w.in_capture_callback
        /\ z.ever_sent_start
        /\ z.state = w.state /\ z.fail_count = w.fail_count
    BY <2>1 DEF Memory, Calm
  <2> HIDE DEF z
  <2>3. Close(w, z) /\ Keeps(w, z, {})
    BY <2>1, <2>2, Bookkeeping
  <2>4. Calm(z) /\ Close(x, z) /\ Keeps(x, z, {}) /\ (x.state # "START_SENT" => Watched(z))
    BY <1>5, <2>1, <2>3, CloseCalm, CloseTrans, KeepsTrans, KeepsWatch
  <2>5. \/ Over(z, v)
        \/ /\ Close(z, v) /\ Keeps(z, v, {})
           /\ v.state = z.state /\ v.fail_count = z.fail_count
           /\ v.ever_sent_start = z.ever_sent_start
    BY <2>4, Sending
  <2> HIDE DEF v
  <2>6. CASE Over(z, v)
    <3>1. y = v
      BY <2>6 DEF arrive, Over
    <3> QED BY <1>1, <2>1, <2>4, <2>6, <3>1, CloseOver DEF Calm
  <2>7. CASE /\ Close(z, v) /\ Keeps(z, v, {})
             /\ v.state = z.state /\ v.fail_count = z.fail_count
             /\ v.ever_sent_start = z.ever_sent_start
    <3>1. Calm(v)
      BY <2>4, <2>7, CloseCalm
    <3>2. /\ Close(v, y) /\ Keeps(v, y, {}) /\ y.state = "START_SENT"
          /\ y.fail_count = v.fail_count /\ y.ever_sent_start = v.ever_sent_start
      BY <1>2, <3>1, Arriving
    <3> HIDE DEF y
    <3>3. Close(x, v) /\ Keeps(x, v, {}) /\ (x.state # "START_SENT" => Watched(v))
      BY <2>4, <2>7, CloseTrans, KeepsTrans, KeepsWatch
    <3>4. Close(x, y) /\ Keeps(x, y, {}) /\ (x.state # "START_SENT" => Watched(y))
      BY <3>2, <3>3, CloseTrans, KeepsTrans, KeepsWatch
    <3> QED BY <1>1, <1>5, <2>1, <2>2, <2>7, <3>2, <3>4 DEF Calm
  <2> QED BY <2>5, <2>6, <2>7
<1> QED BY <1>3, <1>4, <1>5

LEMMA Resetting ==
    ASSUME NEW x, Calm(x)
    PROVE  LET y == eap_state_machine_reset(x) IN
           /\ Close(x, y) /\ Keeps(x, y, {"state_watchdog"})
           /\ y.state = "UNKNOWN" /\ y.fail_count = 0
<1> DEFINE w == disable_state_watchdog(x)
           z1 == [w EXCEPT !.last_recv_frame = "NULL", !.state_last_count = 0]
           z2 == [z1 EXCEPT !.state = "UNKNOWN", !.auth_round = 1]
           y == [z2 EXCEPT !.fail_count = 0]
<1>1. x \in Memory /\ ListsInOrder(x)
  BY DEF Calm
<1>2. Close(x, w) /\ Keeps(x, w, {"state_watchdog"})
  BY <1>1, DisableWatchdog
<1>3. eap_state_machine_reset(x) = [w EXCEPT
        !.last_recv_frame = "NULL", !.state_last_count = 0, !.state = "UNKNOWN",
        !.auth_round = 1, !.fail_count = 0]
  BY DEF eap_state_machine_reset
<1> HIDE DEF w
<1>4. Calm(w) /\ w \in Memory
  BY <1>2, CloseCalm DEF Close, Near
<1>5. eap_state_machine_reset(x) = y
  BY <1>3, <1>4 DEF Memory
<1>6. "NULL" \in Frames \cup {"NULL"} /\ "UNKNOWN" \in States
  BY DEF States
<1>7. /\ z1 \in Memory /\ z1.alarm_list = w.alarm_list /\ z1.add_temp = w.add_temp
      /\ z1.ringing = w.ringing /\ z1.timer = w.timer /\ z1.plugin = w.plugin /\ z1.exit = w.exit
      /\ z1.rejected = w.rejected /\ z1.in_capture_callback = w.in_capture_callback
      /\ z1.ever_sent_start = w.ever_sent_start
  BY <1>4, <1>6 DEF Memory
<1> HIDE DEF z1
<1>8. /\ z2 \in Memory /\ z2.alarm_list = w.alarm_list /\ z2.add_temp = w.add_temp
      /\ z2.ringing = w.ringing /\ z2.timer = w.timer /\ z2.plugin = w.plugin /\ z2.exit = w.exit
      /\ z2.rejected = w.rejected /\ z2.in_capture_callback = w.in_capture_callback
      /\ z2.ever_sent_start = w.ever_sent_start /\ z2.state = "UNKNOWN"
  BY <1>6, <1>7 DEF Memory
<1> HIDE DEF z2
<1>9. /\ y \in Memory /\ y.alarm_list = w.alarm_list /\ y.add_temp = w.add_temp
      /\ y.ringing = w.ringing /\ y.timer = w.timer /\ y.plugin = w.plugin /\ y.exit = w.exit
      /\ y.rejected = w.rejected /\ y.in_capture_callback = w.in_capture_callback
      /\ y.ever_sent_start = w.ever_sent_start /\ y.state = "UNKNOWN" /\ y.fail_count = 0
  BY <1>8 DEF Memory
<1> HIDE DEF y
<1>10. Close(w, y) /\ Keeps(w, y, {})
  BY <1>4, <1>9, Bookkeeping
<1>11. Close(x, y) /\ Keeps(x, y, {"state_watchdog"})
  BY <1>2, <1>10, CloseTrans, KeepsTrans
<1> QED BY <1>5, <1>9, <1>11

\* The restart that is named, if any, is cancelled and no longer named.
LEMMA CancelRestart ==
    ASSUME NEW x, Calm(x)
    PROVE  LET y == Unname(unschedule_alarm(x, "restart_auth"), "restart_auth") IN
           /\ Close(x, y) /\ Keeps(x, y, {"restart_auth"})
           /\ y.state = x.state /\ y.fail_count = x.fail_count
<1> DEFINE w == unschedule_alarm(x, "restart_auth")
           y == Unname(w, "restart_auth")
<1>1. /\ AlarmsOnly(x, w)
      /\ \A i, g, n : Held(x, i, g, n) /\ g # "restart_auth" => Held(w, i, g, n)
  BY Unscheduling DEF Calm
<1> HIDE DEF w
<1>2. w \in Memory /\ ListsInOrder(w)
  BY <1>1 DEF AlarmsOnly
<1>3. /\ AlarmsOnly(w, y)
      /\ \A i, g, n : Held(w, i, g, n) /\ (g # "restart_auth" \/ n = FALSE) => Held(y, i, g, n)
  BY <1>2, Unnaming
<1> HIDE DEF y
<1>own. Keeps(x, w, Own) /\ Keeps(w, y, Own)
  BY <1>1, <1>3 DEF Keeps, Own
<1>4. Close(x, y) /\ y.state = x.state /\ y.fail_count = x.fail_count
  BY <1>1, <1>3, <1>own, AlarmsClose, CloseTrans
<1>5. Keeps(x, y, {"restart_auth"})
  BY <1>1, <1>3 DEF Keeps
<1> QED BY <1>4, <1>5 DEF w, y

LEMMA ProcessSuccess ==
    ASSUME PacketsKeep, NEW x, Calm(x)
    PROVE  LET y == process_success(x) IN
           Over(x, y) \/ (Close(x, y) /\ y.fail_count = 0)
<1> DEFINE w == Unname(unschedule_alarm(x, "restart_auth"), "restart_auth")
           online == [w EXCEPT !.online = TRUE]
           round == w.auth_round + 1
           next == [w EXCEPT !.fail_count = 0, !.auth_round = round]
<1>1. process_success(x) = IF w.auth_round = AuthRound THEN eap_state_machine_reset(online)
                           ELSE switch_to_start_sent(next)
  BY DEF process_success
<1>2. Close(x, w)
  BY CancelRestart
<1> HIDE DEF w
<1>3. Calm(w)
  BY <1>2, CloseCalm
<1>4. Close(w, online)
  <2>1. /\ online \in Memory
        /\ online.alarm_list = w.alarm_list /\ online.add_temp = w.add_temp
        /\ online.ringing = w.ringing /\ online.timer = w.timer
        /\ online.plugin = w.plugin /\ online.exit = w.exit
        /\ online.rejected = w.rejected
        /\ online.in_capture_callback = w.in_capture_callback
        /\ online.ever_sent_start = w.ever_sent_start
    BY <1>3 DEF Memory, Calm
  <2> HIDE DEF online
  <2> QED BY <1>3, <2>1, Bookkeeping
<1>5. Close(w, next) /\ next.fail_count = 0
  <2>0. round \in Nat
    BY <1>3 DEF Memory, Calm
  <2> HIDE DEF round
  <2>1. /\ next \in Memory
        /\ next.alarm_list = w.alarm_list /\ next.add_temp = w.add_temp
        /\ next.ringing = w.ringing /\ next.timer = w.timer
        /\ next.plugin = w.plugin /\ next.exit = w.exit
        /\ next.rejected = w.rejected
        /\ next.in_capture_callback = w.in_capture_callback
        /\ next.ever_sent_start = w.ever_sent_start /\ next.fail_count = 0
    BY <1>3, <2>0 DEF Memory, Calm
  <2> HIDE DEF next
  <2> QED BY <1>3, <2>1, Bookkeeping
<1> HIDE DEF online, next
<1>6. Calm(online) /\ Calm(next) /\ Close(x, online) /\ Close(x, next)
  BY <1>2, <1>3, <1>4, <1>5, CloseCalm, CloseTrans
<1>7. CASE w.auth_round = AuthRound
  <2> DEFINE y == eap_state_machine_reset(online)
  <2>1. Close(online, y) /\ y.fail_count = 0
    BY <1>6, Resetting
  <2> HIDE DEF y
  <2> QED BY <1>1, <1>6, <1>7, <2>1, CloseTrans DEF y
<1>8. CASE w.auth_round # AuthRound
  <2> DEFINE y == switch_to_start_sent(next)
  <2>1. Over(next, y) \/ (Close(next, y) /\ y.fail_count = 0)
    BY <1>5, <1>6, SwitchingToStart
  <2> HIDE DEF y
  <2> QED BY <1>1, <1>6, <1>8, <2>1, CloseTrans, CloseOver DEF y
<1> QED BY <1>7, <1>8

LEMMA ArmRestart ==
    ASSUME NEW x, Calm(x), NEW secs \in Seconds, NEW named \in BOOLEAN
    PROVE  LET y == schedule_alarm(x, secs, "restart_auth", named) IN
           /\ Close(x, y) /\ Keeps(x, y, {}) /\ Restarting(y)
           /\ y.state = x.state /\ y.fail_count = x.fail_count
<1> DEFINE y == schedule_alarm(x, secs, "restart_auth", named)
<1>1. "restart_auth" \in Funcs
  BY DEF Funcs
<1>2. /\ AlarmsOnly(x, y)
      /\ \A i, n : (n => named) => Held(y, i, "restart_auth", n)
      /\ \A i, g, n : Held(x, i, g, n) => Held(y, i, g, n)
  BY <1>1, Scheduling DEF Calm
<1> HIDE DEF y
<1>3. Restarting(y) /\ Keeps(x, y, {}) /\ Keeps(x, y, Own)
  BY <1>2 DEF Restarting, Keeps
<1>4. Close(x, y) /\ y.state = x.state /\ y.fail_count = x.fail_count
  BY <1>2, <1>3, AlarmsClose
<1> QED BY <1>3, <1>4 DEF y

\* The failure is counted, unless it takes the process offline.
LEMMA ProcessFailure ==
    ASSUME PacketsKeep, NEW x, Calm(x)
    PROVE  LET y == process_failure(x) IN
           \/ Over(x, y)
           \/ /\ Close(x, y) /\ Restarting(y)
              /\ \/ x.state = "SUCCESS" /\ y.fail_count = x.fail_count
                 \/ MaxFailures # 0 => y.fail_count = x.fail_count + 1 /\ y.fail_count # MaxFailures
<1>0. x \in Memory /\ ListsInOrder(x)
  BY DEF Calm
<1>1. CASE x.state = "SUCCESS"
  <2> DEFINE w == [x EXCEPT !.online = FALSE]
             y == schedule_alarm(w, 1, "restart_auth", FALSE)
  <2>1. process_failure(x) = IF RestartOnLogoff THEN y ELSE exit(x, "offline")
    BY <1>1 DEF process_failure
  <2>2. Over(x, exit(x, "offline"))
    <3>1. "offline" \in Exits \ {"no", "stopped"}
      BY DEF Exits
    <3> QED BY <1>0, <3>1, ExitIsOver
  <2>3. /\ w \in Memory /\ w.alarm_list = x.alarm_list /\ w.add_temp = x.add_temp
        /\ w.ringing = x.ringing /\ w.timer = x.timer /\ w.plugin = x.plugin /\ w.exit = x.exit
        /\ w.rejected = x.rejected /\ w.in_capture_callback = x.in_capture_callback
        /\ w.ever_sent_start = x.ever_sent_start /\ w.fail_count = x.fail_count
    BY <1>0 DEF Memory
  <2> HIDE DEF w
  <2>4. Close(x, w) /\ Calm(w)
    BY <2>3, Bookkeeping, CloseCalm
  <2>5. 1 \in Seconds /\ FALSE \in BOOLEAN
    BY Constants
  <2>6. Close(w, y) /\ Restarting(y) /\ y.fail_count = w.fail_count
    BY <2>4, <2>5, ArmRestart
  <2> HIDE DEF y
  <2>7. Close(x, y)
    BY <2>4, <2>6, CloseTrans
  <2> QED BY <1>1, <2>1, <2>2, <2>3, <2>6, <2>7
<1>2. CASE x.state # "SUCCESS"
  <2> DEFINE count == IF MaxFailures = 0 THEN 0 ELSE x.fail_count + 1
             z == [x EXCEPT !.fail_count = count]
             w == Unname(unschedule_alarm(z, "restart_auth"), "restart_auth")
             y == schedule_alarm(w, WaitAfterFail, "restart_auth", TRUE)
  <2>1. process_failure(x) =
          IF MaxFailures # 0 /\ count = MaxFailures THEN exit(z, "failures") ELSE y
    BY <1>2 DEF process_failure
  <2>2. count \in Nat /\ (MaxFailures # 0 => count = x.fail_count + 1)
    BY <1>0, Constants DEF Memory
  <2> HIDE DEF count
  <2>3. /\ z \in Memory /\ z.alarm_list = x.alarm_list /\ z.add_temp = x.add_temp
        /\ z.ringing = x.ringing /\ z.timer = x.timer /\ z.plugin = x.plugin /\ z.exit = x.exit
        /\ z.rejected = x.rejected /\ z.in_capture_callback = x.in_capture_callback
        /\ z.ever_sent_start = x.ever_sent_start /\ z.fail_count = count
    BY <1>0, <2>2 DEF Memory
  <2> HIDE DEF z
  <2>4. Close(x, z) /\ Calm(z)
    BY <2>3, Bookkeeping, CloseCalm
  <2>5. Over(x, exit(z, "failures"))
    <3>1. "failures" \in Exits \ {"no", "stopped"} /\ z \in Memory /\ ListsInOrder(z)
      BY <2>4 DEF Close, Near, Exits
    <3> QED BY <2>4, <3>1, ExitIsOver, CloseOver
  <2>6. Close(z, w) /\ w.fail_count = z.fail_count
    BY <2>4, CancelRestart
  <2> HIDE DEF w
  <2>7. Calm(w)
    BY <2>4, <2>6, CloseCalm
  <2>8. WaitAfterFail \in Seconds /\ TRUE \in BOOLEAN
    BY Constants
  <2>9. Close(w, y) /\ Restarting(y) /\ y.fail_count = w.fail_count
    BY <2>7, <2>8, ArmRestart
  <2> HIDE DEF y
  <2>10. Close(x, y)
    BY <2>4, <2>6, <2>9, CloseTrans
  <2> QED BY <2>1, <2>2, <2>3, <2>5, <2>6, <2>9, <2>10
<1> QED BY <1>1, <1>2

\* The process has gone from x to y in a switch_to_state that succeeded.
Switched(x, y, state) ==
    /\ Close(x, y) /\ y.state = state /\ state # "UNKNOWN"
    /\ state \in Waiting =>
         Keeps(x, y, {}) /\ y.fail_count = x.fail_count /\ (x.state # state => Watched(y))
    /\ state = "SUCCESS" => y.fail_count = 0
    /\ state = "FAILURE" =>
         /\ Restarting(y)
         /\ \/ x.state = "SUCCESS" /\ y.fail_count = x.fail_count
            \/ MaxFailures # 0 => y.fail_count = x.fail_count + 1 /\ y.fail_count # MaxFailures

\* The last step of a switch to w, whose transition function returned v.
LEMMA Ending ==
    ASSUME NEW x, NEW v, NEW state \in States, Calm(x), Over(x, v) \/ Close(x, v)
    PROVE  LET y == arrive(v, state) IN
           \/ Over(x, y)
           \/ /\ Close(x, v) /\ Close(x, y) /\ Keeps(v, y, {}) /\ y.state = state
              /\ y.fail_count = v.fail_count
<1>1. CASE Over(x, v)
  BY <1>1 DEF arrive, Over
<1>2. CASE Close(x, v)
  <2> DEFINE y == arrive(v, state)
  <2>1. Calm(v)
    BY <1>2, CloseCalm
  <2>2. Close(v, y) /\ Keeps(v, y, {}) /\ y.state = state /\ y.fail_count = v.fail_count
    BY <2>1, Arriving
  <2> HIDE DEF y
  <2>3. Close(x, y)
    BY <1>2, <2>2, CloseTrans
  <2> QED BY <1>2, <2>2, <2>3 DEF y
<1> QED BY <1>1, <1>2

LEMMA Switching ==
    ASSUME PacketsKeep, NEW x, Calm(x), NEW state \in States \ {"PREPARING"}, NEW f
    PROVE  LET y == switch_to_state(x, state, f) IN Over(x, y) \/ Switched(x, y, state)
<1> DEFINE w == enter_state(x, state)
           u == disable_state_watchdog(w)
           y == switch_to_state(x, state, f)
<1>0. state \in States /\ state \in {"UNKNOWN", "SUCCESS", "FAILURE"} \cup Waiting
  BY DEF States
<1>1. \/ Over(x, w)
      \/ /\ Close(x, w) /\ Keeps(x, w, {})
         /\ w.state = x.state /\ w.fail_count = x.fail_count
         /\ x.state # state => Watched(w)
  BY <1>0, Entering
<1>2. ~Running(w) => y = w
  BY DEF switch_to_state
<1>3. Running(w) /\ state = "UNKNOWN" => y = crash(w)
  BY DEF switch_to_state
<1>4. Running(w) /\ state = "START_SENT" => y = switch_to_start_sent(x)
  BY DEF switch_to_state
<1>5. Running(w) /\ state \in {"IDENTITY_SENT", "CHALLENGE_SENT"}
        => y = IF f = "NULL" THEN crash(w) ELSE arrive(send(w), state)
  BY DEF switch_to_state
<1>6. Running(w) /\ state = "SUCCESS" => y = arrive(process_success(u), state)
  BY DEF switch_to_state
<1>7. Running(w) /\ state = "FAILURE" => y = arrive(process_failure(u), state)
  BY DEF switch_to_state
<1> HIDE DEF w, y
<1>8. CASE Over(x, w)
  BY <1>2, <1>8 DEF Over, y
<1>9. CASE /\ Close(x, w) /\ Keeps(x, w, {})
           /\ w.state = x.state /\ w.fail_count = x.fail_count
           /\ x.state # state => Watched(w)
  <2>1. Calm(w) /\ Running(w) /\ w \in Memory /\ ListsInOrder(w)
    BY <1>9, CloseCalm DEF Calm
  <2>2. Over(x, crash(w))
    BY <1>9, <2>1, Crashing, CloseOver
  <2>3. Close(w, u) /\ u.state = w.state /\ u.fail_count = w.fail_count
    BY <2>1, DisableWatchdog
  <2> HIDE DEF u
  <2>4. Close(x, u) /\ Calm(u) /\ u.state = x.state /\ u.fail_count = x.fail_count
    BY <1>9, <2>1, <2>3, CloseTrans, CloseCalm
  <2>5. CASE state = "UNKNOWN"
    BY <1>3, <2>1, <2>2, <2>5 DEF y
  <2>6. CASE state = "START_SENT"
    <3> DEFINE z == switch_to_start_sent(x)
    <3>1. \/ Over(x, z)
          \/ /\ Close(x, z) /\ Keeps(x, z, {})
             /\ z.state = "START_SENT" /\ z.fail_count = x.fail_count /\ z.ever_sent_start
             /\ x.state # "START_SENT" => Watched(z)
      BY SwitchingToStart
    <3>2. y = z
      BY <1>4, <2>1, <2>6
    <3> HIDE DEF z
    <3> QED BY <2>6, <3>1, <3>2 DEF Switched, y
  <2>7. CASE state \in {"IDENTITY_SENT", "CHALLENGE_SENT"}
    <3> DEFINE v == send(w)
               z == arrive(v, state)
    <3>1. \/ Over(w, v)
          \/ Close(w, v) /\ Keeps(w, v, {}) /\ v.fail_count = w.fail_count
      BY <2>1, Sending
    <3>2. y = IF f = "NULL" THEN crash(w) ELSE z
      BY <1>5, <2>1, <2>7
    <3> HIDE DEF v
    <3>3. \/ Over(x, v)
          \/ Close(x, v) /\ Keeps(x, v, {}) /\ (x.state # state => Watched(v))
             /\ v.fail_count = x.fail_count
      BY <1>9, <3>1, CloseTrans, CloseOver, KeepsTrans, KeepsWatch
    <3>4. \/ Over(x, z)
          \/ /\ Close(x, v) /\ Close(x, z) /\ Keeps(v, z, {}) /\ z.state = state
             /\ z.fail_count = v.fail_count
      BY <1>0, <3>3, Ending
    <3> HIDE DEF z
    <3>5. Close(x, v) => ~Over(x, v)
      BY DEF Close, Near, Over, Calm, Running
    <3>6. \/ Over(x, z)
          \/ /\ Close(x, z) /\ z.state = state /\ Keeps(x, z, {})
             /\ z.fail_count = x.fail_count /\ (x.state # state => Watched(z))
      BY <3>3, <3>4, <3>5, KeepsTrans, KeepsWatch
    <3>7. Over(x, z) \/ Switched(x, z, state)
      BY <2>7, <3>6 DEF Switched
    <3> QED BY <2>2, <3>2, <3>7 DEF y
  <2>8. CASE state = "SUCCESS"
    <3> DEFINE v == process_success(u)
               z == arrive(v, state)
    <3>1. Over(u, v) \/ (Close(u, v) /\ v.fail_count = 0)
      BY <2>4, ProcessSuccess
    <3>2. y = z
      BY <1>6, <2>1, <2>8
    <3> HIDE DEF v
    <3>3. Over(x, v) \/ (Close(x, v) /\ v.fail_count = 0)
      BY <2>4, <3>1, CloseTrans, CloseOver
    <3>4. \/ Over(x, z)
          \/ /\ Close(x, v) /\ Close(x, z) /\ z.state = state
             /\ z.fail_count = v.fail_count
      BY <1>0, <3>3, Ending
    <3> HIDE DEF z
    <3>5. Close(x, v) => ~Over(x, v)
      BY DEF Close, Near, Over, Calm, Running
    <3>6. Over(x, z) \/ (Close(x, z) /\ z.state = state /\ z.fail_count = 0)
      BY <3>3, <3>4, <3>5
    <3>7. Over(x, z) \/ Switched(x, z, state)
      BY <2>8, <3>6 DEF Switched, Waiting
    <3> QED BY <3>2, <3>7 DEF y
  <2>9. CASE state = "FAILURE"
    <3> DEFINE v == process_failure(u)
               z == arrive(v, state)
    <3>1. \/ Over(u, v)
          \/ /\ Close(u, v) /\ Restarting(v)
             /\ \/ u.state = "SUCCESS" /\ v.fail_count = u.fail_count
                \/ MaxFailures # 0 => v.fail_count = u.fail_count + 1 /\ v.fail_count # MaxFailures
      BY <2>4, ProcessFailure
    <3>2. y = z
      BY <1>7, <2>1, <2>9
    <3> HIDE DEF v
    <3>3. \/ Over(x, v)
          \/ /\ Close(x, v) /\ Restarting(v)
             /\ \/ x.state = "SUCCESS" /\ v.fail_count = x.fail_count
                \/ MaxFailures # 0 => v.fail_count = x.fail_count + 1 /\ v.fail_count # MaxFailures
      BY <2>4, <3>1, CloseTrans, CloseOver
    <3>4. \/ Over(x, z)
          \/ /\ Close(x, v) /\ Close(x, z) /\ Keeps(v, z, {}) /\ z.state = state
             /\ z.fail_count = v.fail_count
      BY <1>0, <3>3, Ending
    <3> HIDE DEF z
    <3>5. Close(x, v) => ~Over(x, v)
      BY DEF Close, Near, Over, Calm, Running
    <3>6. Close(x, v) /\ Close(x, z) /\ Keeps(v, z, {}) => Restarting(z)
      BY <3>3, <3>5, KeepsWatch
    <3>7. Over(x, z) \/ Switched(x, z, state)
      BY <2>9, <3>3, <3>4, <3>5, <3>6 DEF Switched, Waiting
    <3> QED BY <3>2, <3>7 DEF y
  <2> QED BY <1>0, <2>5, <2>6, <2>7, <2>8, <2>9 DEF Waiting
<1> QED BY <1>1, <1>8, <1>9
-----------------------------------------------------------------------------
(* The callbacks: whatever fired, the process waits with an alarm again        *)

LEMMA CloseGoes ==
    ASSUME NEW x, NEW y, Close(x, y) \/ Over(x, y)
    PROVE  Goes(x, y)
BY DEF Close, Goes

LEMMA GoesTrans ==
    ASSUME NEW x, NEW y, NEW z, Near(x, y), Goes(y, z)
    PROVE  Goes(x, z)
BY NearTrans, NearOver DEF Goes

LEMMA OverSound ==
    ASSUME NEW x, NEW y, Over(x, y)
    PROVE  \A i : Sound(y, i) /\ Needed(y, i, {})
BY DEF Over, Sound, Armed, Counted, Needed

LEMMA RestartAuth ==
    ASSUME PacketsKeep, NEW x, Calm(x)
    PROVE  LET y == restart_auth(x) IN
           \/ Over(x, y)
           \/ Close(x, y) /\ Watched(y) /\ y.state = "START_SENT" /\ y.fail_count = x.fail_count
<1> DEFINE w == Unname(x, "restart_auth")
           r == eap_state_machine_reset(w)
           count == x.fail_count
           z == [r EXCEPT !.fail_count = count, !.accepted = 0]
           y == switch_to_start_sent(z)
<1>1. restart_auth(x) = y
  BY DEF restart_auth
<1>2. /\ AlarmsOnly(x, w)
      /\ \A i, g, n : Held(x, i, g, n) /\ (g # "restart_auth" \/ n = FALSE) => Held(w, i, g, n)
  BY Unnaming DEF Calm
<1> HIDE DEF w
<1>3. Close(x, w)
  <2>1. Keeps(x, w, Own)
    BY <1>2 DEF Keeps, Own
  <2> QED BY <1>2, <2>1, AlarmsClose
<1>4. Calm(w)
  BY <1>3, CloseCalm
<1>5. Close(w, r) /\ r.state = "UNKNOWN"
  BY <1>4, Resetting
<1> HIDE DEF r
<1>6. Calm(r) /\ count \in Nat
  BY <1>4, <1>5, CloseCalm DEF Calm, Memory
<1> HIDE DEF count
<1>7. /\ z \in Memory /\ z.alarm_list = r.alarm_list /\ z.add_temp = r.add_temp
      /\ z.ringing = r.ringing /\ z.timer = r.timer /\ z.plugin = r.plugin /\ z.exit = r.exit
      /\ z.rejected = r.rejected /\ z.in_capture_callback = r.in_capture_callback
      /\ z.ever_sent_start = r.ever_sent_start
      /\ z.fail_count = count /\ z.state = r.state
  BY <1>6 DEF Memory, Calm
<1> HIDE DEF z
<1>8. Close(r, z)
  BY <1>6, <1>7, Bookkeeping
<1>9. Close(x, z) /\ Calm(z)
  BY <1>3, <1>5, <1>6, <1>8, CloseTrans, CloseCalm
<1>10. \/ Over(z, y)
       \/ /\ Close(z, y) /\ y.state = "START_SENT" /\ y.fail_count = z.fail_count
          /\ z.state # "START_SENT" => Watched(y)
  BY <1>9, SwitchingToStart
<1> HIDE DEF y
<1>11. Over(x, y) \/ (Close(x, y) /\ Watched(y) /\ y.state = "START_SENT" /\ y.fail_count = count)
  BY <1>5, <1>7, <1>9, <1>10, CloseTrans, CloseOver
<1> QED BY <1>1, <1>11 DEF count

LEMMA StateWatchdog ==
    ASSUME PacketsKeep, NEW x, Calm(x), x.state # "PREPARING"
    PROVE  LET y == state_watchdog(x) IN
           \/ Over(x, y)
           \/ /\ Close(x, y) /\ Watched(y) /\ y.state = x.state
              /\ \E z : Switched(x, z, x.state) /\ y.fail_count = z.fail_count
              /\ y.state = "FAILURE" => Restarting(y)
<1> DEFINE state == x.state
           f == x.last_recv_frame
           z == switch_to_state(x, state, f)
           y == reset_state_watchdog(z)
<1>1. state_watchdog(x) = IF Running(z) THEN y ELSE z
  BY DEF state_watchdog
<1>2. state \in States \ {"PREPARING"}
  BY DEF Calm, Memory
<1> HIDE DEF state, f
<1>3. Over(x, z) \/ Switched(x, z, state)
  BY <1>2, Switching
<1> HIDE DEF z
<1>4. CASE Over(x, z)
  BY <1>1, <1>4 DEF Over
<1>5. CASE Switched(x, z, state)
  <2>1. Close(x, z) /\ Calm(z) /\ z \in Memory /\ ListsInOrder(z)
    BY <1>5, CloseCalm DEF Switched, Calm
  <2>2. /\ Close(z, y) /\ Keeps(z, y, {}) /\ Watched(y)
        /\ y.state = z.state /\ y.fail_count = z.fail_count
    BY <2>1, ResetWatchdog
  <2> HIDE DEF y
  <2>3. y.state = state /\ (state = "FAILURE" => Restarting(y))
    BY <1>5, <2>2, KeepsWatch DEF Switched
  <2>4. Close(x, y) /\ Running(z)
    BY <2>1, <2>2, CloseTrans DEF Calm
  <2> QED BY <1>1, <1>5, <2>2, <2>3, <2>4 DEF state
<1> QED BY <1>3, <1>4, <1>5

LEMMA CloseSound ==
    ASSUME NEW x, NEW y, Close(x, y), y.state # "PREPARING", Counted(y),
           y.state \in Waiting => Watched(y),
           y.state = "FAILURE" => Restarting(y)
    PROVE  \A i : Sound(y, i)
BY DEF Close, Near, Sound, Armed, Watched, Restarting

LEMMA Callbacks ==
    ASSUME PacketsKeep, NEW x, Calm(x), x.state # "PREPARING", Counted(x),
           NEW func \in {"state_watchdog", "restart_auth"}
    PROVE  LET y == callback(x, func) IN
           (Close(x, y) \/ Over(x, y)) /\ \A i : Sound(y, i)
<1>0. x.fail_count \in Nat /\ x.rejected \in Nat /\ MaxFailures \in Nat /\ Running(x)
  BY Constants DEF Calm, Memory
<1>1. CASE func = "state_watchdog"
  <2> DEFINE y == state_watchdog(x)
  <2>1. callback(x, func) = y
    BY <1>1, Constants DEF callback
  <2>2. \/ Over(x, y)
        \/ /\ Close(x, y) /\ Watched(y) /\ y.state = x.state
           /\ \E z : Switched(x, z, x.state) /\ y.fail_count = z.fail_count
           /\ y.state = "FAILURE" => Restarting(y)
    BY StateWatchdog
  <2> HIDE DEF y
  <2>3. CASE Over(x, y)
    BY <2>1, <2>3, OverSound
  <2>4. CASE /\ Close(x, y) /\ Watched(y) /\ y.state = x.state
             /\ \E z : Switched(x, z, x.state) /\ y.fail_count = z.fail_count
             /\ y.state = "FAILURE" => Restarting(y)
    <3>1. PICK z : Switched(x, z, x.state) /\ y.fail_count = z.fail_count
      BY <2>4
    <3>2. /\ x.state \in Waiting => y.fail_count = x.fail_count
          /\ x.state = "SUCCESS" => y.fail_count = 0
          /\ x.state = "FAILURE" /\ MaxFailures # 0
               => y.fail_count = x.fail_count + 1 /\ y.fail_count # MaxFailures
      BY <3>1 DEF Switched
    <3>3. x.state \in Waiting \cup {"SUCCESS", "FAILURE"}
      <4>1. x.state # "UNKNOWN"
        BY <3>1 DEF Switched
      <4> QED BY <4>1 DEF Calm, Memory, States
    <3>4. Counted(y)
      BY <1>0, <2>4, <3>2, <3>3 DEF Counted, Close, Near, Waiting, Running
    <3> QED BY <2>1, <2>4, <3>4, CloseSound
  <2> QED BY <2>2, <2>3, <2>4
<1>2. CASE func = "restart_auth"
  <2> DEFINE y == restart_auth(x)
  <2>1. callback(x, func) = y
    BY <1>2, Constants DEF callback
  <2>2. \/ Over(x, y)
        \/ Close(x, y) /\ Watched(y) /\ y.state = "START_SENT" /\ y.fail_count = x.fail_count
    BY RestartAuth
  <2> HIDE DEF y
  <2>3. CASE Over(x, y)
    BY <2>1, <2>3, OverSound
  <2>4. CASE Close(x, y) /\ Watched(y) /\ y.state = "START_SENT" /\ y.fail_count = x.fail_count
    <3>1. Counted(y)
      BY <1>0, <2>4 DEF Counted, Close, Near, Running
    <3> QED BY <2>1, <2>4, <3>1, CloseSound
  <2> QED BY <2>2, <2>3, <2>4
<1> QED BY <1>1, <1>2

\* What holds when the turn of the event at i comes holds when the next one's comes.
LEMMA FireSingle ==
    ASSUME PacketsKeep, HooksKeep, NEW x, NEW i \in Nat \ {0}, Sound(x, i - 1),
           Needed(x, i - 1, {}),
           NEW event, Running(x) => /\ i \in DOMAIN x.alarm_list
                                    /\ x.alarm_list[i].func = event.func
                                    /\ x.alarm_list[i].remaining = event.remaining
    PROVE  LET y == fire_single(x, event) IN
           /\ Sound(y, i) /\ Needed(y, i, {})
           /\ Running(x) => Goes(x, y)
           /\ ~Running(x) => y = x
<1> DEFINE y == fire_single(x, event)
<1>1. CASE ~Running(x)
  <2>1. y = x
    BY <1>1 DEF fire_single
  <2>2. Sound(x, i) /\ Needed(x, i, {})
    BY <1>1 DEF Sound, Armed, Needed
  <2> QED BY <1>1, <2>1, <2>2
<1>2. CASE Running(x)
  <2> DEFINE e == x.alarm_list[i]
  <2>1. Calm(x) /\ x \in Memory /\ x.state # "PREPARING" /\ Counted(x) /\ Armed(x, i - 1)
    BY <1>2 DEF Sound, Calm
  <2>2. e \in Alarm /\ e.func = event.func /\ e.remaining = event.remaining
    BY <1>2, <2>1 DEF Memory
  <2>3. ASSUME NEW g, NEW n, e.remaining > 0 \/ e.func # g, Held(x, i - 1, g, n)
        PROVE  Held(x, i, g, n)
    <3>1. x.alarm_list \in Seq(Alarm)
      BY <2>1 DEF Memory
    <3>2. CASE \E k \in DOMAIN x.add_temp :
                 x.add_temp[k].func = g /\ (n => x.add_temp[k].named)
      BY <3>2 DEF Held
    <3>3. ASSUME NEW k \in DOMAIN x.alarm_list,
                 x.alarm_list[k].func = g /\ (n => x.alarm_list[k].named),
                 ~x.alarm_list[k].marked_delete,
                 x.alarm_list[k].remaining > 0 \/ k > i - 1
          PROVE  Held(x, i, g, n)
      <4>1. k \in Nat
        BY <3>1
      <4>2. x.alarm_list[k].remaining > 0 \/ k > i
        BY <2>3, <3>3, <4>1
      <4> QED BY <3>3, <4>2 DEF Held
    <3> QED BY <2>3, <3>2, <3>3 DEF Held
  <2>4. CASE e.remaining > 0
    <3>1. y = x
      BY <2>2, <2>4 DEF fire_single
    <3>2. Sound(x, i)
      BY <1>2, <2>1, <2>3, <2>4 DEF Sound, Armed, Calm
    <3>3. Needed(x, i, {})
      BY <2>3, <2>4 DEF Needed
    <3>4. Near(x, x)
      BY <2>1 DEF Near, SameNodes, Calm
    <3> QED BY <1>2, <3>1, <3>2, <3>3, <3>4 DEF Goes
  <2>5. CASE ~(e.remaining > 0)
    <3>1. y = callback(x, event.func) /\ event.func \in Funcs
      BY <1>2, <2>2, <2>5 DEF fire_single, Alarm, Funcs
    <3>2. Needed(x, i, {event.func})
      BY <2>2, <2>3 DEF Needed
    <3>3. CASE event.func \in {"state_watchdog", "restart_auth"}
      <4>1. (Close(x, y) \/ Over(x, y)) /\ Sound(y, i)
        BY <2>1, <3>1, <3>3, Callbacks
      <4>2. Needed(x, i, {})
        BY <2>1, <3>2, <3>3, Constants DEF Needed, PacketsKeep, Memory
      <4>3. Needed(y, i, {})
        BY <2>1, <4>1, <4>2, CloseNeeded, OverSound
      <4> QED BY <1>2, <4>1, <4>3, CloseGoes
    <3>4. CASE event.func \in PluginAlarms
      <4>1. y = plugin_alarm(x, event.func)
        BY <3>1, <3>4, Constants DEF callback
      <4>2. e.func # "state_watchdog" /\ e.func # "restart_auth"
        BY <2>2, <3>4, Constants
      <4>3. Sound(x, i)
        BY <1>2, <2>1, <2>3, <4>2 DEF Sound, Armed, Calm
      <4>4. Goes(x, y) /\ Sound(y, i) /\ Needed(y, i, {})
        BY <2>1, <3>2, <3>4, <4>1, <4>3 DEF HooksKeep
      <4> QED BY <1>2, <4>4
    <3> QED BY <3>1, <3>3, <3>4 DEF Funcs
  <2> QED BY <2>4, <2>5
<1> QED BY <1>1, <1>2

LEMMA Later ==
    ASSUME NEW e \in Alarm, NEW secs \in Nat
    PROVE  /\ later(e, secs) \in Alarm
           /\ later(e, secs).func = e.func /\ later(e, secs).named = e.named
           /\ later(e, secs).marked_delete = e.marked_delete
           /\ later(e, secs).remaining = e.remaining - secs
<1>1. e.remaining \in Int /\ e.remaining - secs \in Int
  BY DEF Alarm
<1>2. later(e, secs) \in Alarm
  BY <1>1 DEF later, Alarm
<1>3. /\ later(e, secs).func = e.func /\ later(e, secs).named = e.named
      /\ later(e, secs).marked_delete = e.marked_delete
      /\ later(e, secs).remaining = e.remaining - secs
  BY DEF later, Alarm
<1> QED BY <1>2, <1>3

LEMMA Due ==
    ASSUME NEW x, Sound(x, 0), Needed(x, 0, {}), Running(x), ~x.ringing
    PROVE  LET d == due(x) IN
           /\ Sound(d, 0) /\ Needed(d, 0, {}) /\ Calm(d) /\ d.ringing
           /\ DOMAIN d.alarm_list = DOMAIN x.alarm_list
           /\ d.rejected = x.rejected /\ d.in_capture_callback = x.in_capture_callback
           /\ d.ever_sent_start = x.ever_sent_start
<1> DEFINE secs == x.last_set_time
           list == [i \in DOMAIN x.alarm_list |-> later(x.alarm_list[i], secs)]
           z == [x EXCEPT !.ringing = TRUE, !.timer = 0]
           d == [z EXCEPT !.alarm_list = list]
<1>1. x \in Memory /\ ListsInOrder(x) /\ x.state # "PREPARING" /\ Armed(x, 0) /\ Counted(x)
  BY DEF Sound
<1>2. due(x) = d
  BY <1>1 DEF due, Memory
<1>3. secs \in Nat /\ x.alarm_list \in Seq(Alarm)
  BY <1>1 DEF Memory
<1> HIDE DEF secs
<1>4. ASSUME NEW k \in DOMAIN x.alarm_list
      PROVE  list[k] = later(x.alarm_list[k], secs) /\ x.alarm_list[k] \in Alarm
  BY <1>3
<1>5. /\ DOMAIN list = DOMAIN x.alarm_list /\ list = [k \in 1..Len(x.alarm_list) |-> list[k]]
      /\ Len(x.alarm_list) \in Nat /\ DOMAIN x.alarm_list = 1..Len(x.alarm_list)
  BY <1>3
<1> HIDE DEF list
<1>6. \A k \in DOMAIN x.alarm_list :
        /\ list[k] \in Alarm
        /\ list[k].func = x.alarm_list[k].func /\ list[k].named = x.alarm_list[k].named
        /\ list[k].marked_delete = x.alarm_list[k].marked_delete
        /\ list[k].remaining = x.alarm_list[k].remaining - secs
  <2> SUFFICES ASSUME NEW k \in DOMAIN x.alarm_list,
                      NEW e, e = x.alarm_list[k], NEW new, new = list[k]
               PROVE  /\ new \in Alarm /\ new.func = e.func /\ new.named = e.named
                      /\ new.marked_delete = e.marked_delete
                      /\ new.remaining = e.remaining - secs
    OBVIOUS
  <2>1. new = later(e, secs) /\ e \in Alarm
    BY <1>4
  <2>2. /\ later(e, secs) \in Alarm
        /\ later(e, secs).func = e.func /\ later(e, secs).named = e.named
        /\ later(e, secs).marked_delete = e.marked_delete
        /\ later(e, secs).remaining = e.remaining - secs
    BY <1>3, <2>1, Later
  <2> QED BY <2>1, <2>2
<1>7. list \in Seq(Alarm)
  BY <1>5, <1>6, IsList
<1>8. /\ z \in Memory /\ z.alarm_list = x.alarm_list /\ z.add_temp = x.add_temp
      /\ z.ringing /\ z.timer = 0 /\ z.exit = x.exit
      /\ z.rejected = x.rejected /\ z.in_capture_callback = x.in_capture_callback
      /\ z.ever_sent_start = x.ever_sent_start /\ z.state = x.state
      /\ z.fail_count = x.fail_count /\ z.plugin = x.plugin
  BY <1>1 DEF Memory
<1> HIDE DEF z
<1>9. /\ d \in Memory /\ d.alarm_list = list /\ d.add_temp = x.add_temp
      /\ d.ringing /\ d.timer = 0 /\ d.exit = x.exit
      /\ d.rejected = x.rejected /\ d.in_capture_callback = x.in_capture_callback
      /\ d.ever_sent_start = x.ever_sent_start /\ d.state = x.state
      /\ d.fail_count = x.fail_count /\ d.plugin = x.plugin
  BY <1>7, <1>8 DEF Memory
<1> HIDE DEF d
<1>10. \A k \in DOMAIN list : list[k].remaining < IntMax /\ k \in Nat /\ k > 0
  <2> SUFFICES ASSUME NEW k \in DOMAIN list
               PROVE  list[k].remaining < IntMax /\ k \in Nat /\ k > 0
    OBVIOUS
  <2>1. x.alarm_list[k] \in Alarm /\ x.alarm_list[k].remaining < IntMax
    BY <1>1, <1>4, <1>5 DEF ListsInOrder
  <2>2. x.alarm_list[k].remaining \in Int /\ IntMax \in Int
    BY <2>1, Constants DEF Alarm
  <2>3. list[k].remaining = x.alarm_list[k].remaining - secs
    BY <1>5, <1>6
  <2>4. k \in Nat /\ k > 0
    BY <1>5
  <2> QED BY <1>3, <2>1, <2>2, <2>3, <2>4
<1>11. ListsInOrder(d)
  <2>1. /\ d.timer <= IntMax
        /\ \A k \in DOMAIN d.alarm_list : d.alarm_list[k].remaining < IntMax
    BY <1>9, <1>10, Constants
  <2>2. \A k \in DOMAIN d.add_temp : /\ d.add_temp[k].remaining \in Seconds
                                     /\ ~d.add_temp[k].marked_delete
    BY <1>1, <1>9 DEF ListsInOrder
  <2> QED BY <1>9, <2>1, <2>2 DEF ListsInOrder
<1>12. \A g, n : Held(x, 0, g, n) => Held(d, 0, g, n)
  <2> SUFFICES ASSUME NEW g, NEW n, Held(x, 0, g, n)
               PROVE  Held(d, 0, g, n)
    OBVIOUS
  <2>1. CASE \E k \in DOMAIN x.add_temp :
               x.add_temp[k].func = g /\ (n => x.add_temp[k].named)
    BY <1>9, <2>1 DEF Held
  <2>2. ASSUME NEW k \in DOMAIN x.alarm_list,
               x.alarm_list[k].func = g, n => x.alarm_list[k].named,
               ~x.alarm_list[k].marked_delete
        PROVE  Held(d, 0, g, n)
    <3>1. k \in DOMAIN d.alarm_list /\ k > 0
      BY <1>5, <1>9, <1>10, <2>2
    <3>2. /\ d.alarm_list[k].func = g /\ (n => d.alarm_list[k].named)
          /\ ~d.alarm_list[k].marked_delete
      BY <1>6, <1>9, <2>2
    <3> QED BY <3>1, <3>2 DEF Held
  <2> QED BY <2>1, <2>2 DEF Held
<1>13. Armed(d, 0) /\ Counted(d)
  BY <1>1, <1>9, <1>12 DEF Armed, Counted, Running
<1>14. Sound(d, 0) /\ Calm(d)
  BY <1>1, <1>9, <1>11, <1>13 DEF Sound, Calm, Running
<1>15. Needed(d, 0, {})
  BY <1>9, <1>12 DEF Needed, Running
<1> QED BY <1>2, <1>5, <1>9, <1>14, <1>15

Fired(x, n, f) ==
    f = [i \in 0..n |-> IF i = 0 THEN due(x) ELSE fire_single(f[i - 1], due(x).alarm_list[i])]

FireSteps(x, n, f) ==
    /\ f = [i \in 0..n |-> f[i]]
    /\ f[0] = due(x)
    /\ \A i \in 1..n : f[i] = fire_single(f[i - 1], due(x).alarm_list[i])

LEMMA FiredSteps ==
    ASSUME NEW x, NEW n \in Nat, NEW f
    PROVE  Fired(x, n, f) <=> FireSteps(x, n, f)
<1> DEFINE e(i) == IF i = 0 THEN due(x) ELSE fire_single(f[i - 1], due(x).alarm_list[i])
<1>1. f = [i \in 0..n |-> e(i)] <=> f = [i \in 0..n |-> f[i]] /\ \A i \in 0..n : f[i] = e(i)
  <2> HIDE DEF e
  <2> QED OBVIOUS
<1>2. (\A i \in 0..n : f[i] = e(i)) <=>
        /\ f[0] = due(x)
        /\ \A i \in 1..n : f[i] = fire_single(f[i - 1], due(x).alarm_list[i])
  OBVIOUS
<1> QED BY <1>1, <1>2 DEF Fired, FireSteps

LEMMA FireStepsExist ==
    ASSUME NEW x, NEW n \in Nat
    PROVE  \E f : FireSteps(x, n, f)
<1> DEFINE K == {k \in 0..n : \E f : FireSteps(x, k, f)}
<1>1. 0 \in K
  <2> DEFINE f == [i \in 0..0 |-> due(x)]
  <2>1. FireSteps(x, 0, f)
    BY DEF FireSteps
  <2> QED BY <2>1
<1>2. ASSUME NEW k \in 1..n, k - 1 \in K PROVE k \in K
  <2>1. PICK f : FireSteps(x, k - 1, f)
    BY <1>2
  <2> DEFINE last == fire_single(f[k - 1], due(x).alarm_list[k])
             g == [i \in 0..k |-> IF i < k THEN f[i] ELSE last]
  <2>2. /\ g = [i \in 0..k |-> g[i]] /\ g[0] = due(x)
        /\ \A i \in 0..(k - 1) : g[i] = f[i]
        /\ g[k] = fire_single(f[k - 1], due(x).alarm_list[k])
    BY <2>1 DEF FireSteps
  <2> HIDE DEF g
  <2>3. ASSUME NEW i \in 1..k
        PROVE  g[i] = fire_single(g[i - 1], due(x).alarm_list[i])
    <3>1. i - 1 \in 0..(k - 1)
      OBVIOUS
    <3>2. CASE i = k
      BY <2>2, <3>1, <3>2
    <3>3. CASE i # k
      <4>1. i \in 1..(k - 1) /\ i \in 0..(k - 1)
        BY <3>3
      <4> QED BY <2>1, <2>2, <3>1, <4>1 DEF FireSteps
    <3> QED BY <3>2, <3>3
  <2>4. FireSteps(x, k, g)
    BY <2>2, <2>3 DEF FireSteps
  <2> QED BY <2>4
<1>3. K = 0..n
  <2>1. K \in SUBSET (0..n)
    OBVIOUS
  <2>2. \A i \in 1..n : i - 1 \in K => i \in K
    BY <1>2
  <2> HIDE DEF K
  <2> QED BY <1>1, <2>1, <2>2, Induct
<1>4. n \in K
  <2>1. n \in 0..n
    OBVIOUS
  <2> HIDE DEF K
  <2> QED BY <1>3, <2>1
<1> QED BY <1>4

LEMMA FiringSteps ==
    ASSUME NEW x, Len(x.alarm_list) \in Nat
    PROVE  FireSteps(x, Len(x.alarm_list), firing(x))
<1> DEFINE n == Len(x.alarm_list)
           f == CHOOSE f : Fired(x, n, f)
<1>1. Fired(x, n, f)
  <2>1. \E g : Fired(x, n, g)
    BY FireStepsExist, FiredSteps
  <2> QED BY <2>1
<1>2. firing(x) = f
  BY Zenon DEF firing, Fired
<1> HIDE DEF n, f
<1>3. FireSteps(x, n, f)
  BY <1>1, FiredSteps DEF n
<1> QED BY <1>2, <1>3 DEF n

\* A ring up to the moment all that was due has fired.
LEMMA AllFired ==
    ASSUME PacketsKeep, HooksKeep, NEW x, Sound(x, 0), Needed(x, 0, {}), Running(x), ~x.ringing
    PROVE  LET n == Len(x.alarm_list)
               y == firing(x)[n]
           IN  n \in Nat /\ Sound(y, n) /\ Needed(y, n, {}) /\ Goes(due(x), y)
<1> DEFINE n == Len(x.alarm_list)
           d == due(x)
           f == firing(x)
           Upto(i) == Sound(f[i], i) /\ Needed(f[i], i, {}) /\ Goes(d, f[i])
           K == {i \in 0..n : Upto(i)}
<1>0. n \in Nat /\ DOMAIN x.alarm_list = 1..n
  BY DEF Sound, Memory
<1>1. /\ Sound(d, 0) /\ Needed(d, 0, {}) /\ Calm(d) /\ d.ringing
      /\ DOMAIN d.alarm_list = DOMAIN x.alarm_list
  BY Due
<1>2. f[0] = d /\ \A i \in 1..n : f[i] = fire_single(f[i - 1], d.alarm_list[i])
  BY <1>0, FiringSteps DEF FireSteps
<1> HIDE DEF f, d, n
<1>3. Upto(0)
  BY <1>1, <1>2 DEF Goes, Near, SameNodes, Calm
<1>4. ASSUME NEW i \in 1..n, Upto(i - 1) PROVE Upto(i)
  <2> DEFINE v == f[i - 1]
             event == d.alarm_list[i]
             y == fire_single(v, event)
  <2>1. /\ f[i] = y /\ Sound(v, i - 1) /\ Needed(v, i - 1, {}) /\ Goes(d, v)
        /\ i \in Nat \ {0} /\ i \in DOMAIN d.alarm_list
    BY <1>0, <1>1, <1>2, <1>4
  <2> HIDE DEF v
  <2>2. Running(v) => Near(d, v)
    BY <2>1 DEF Goes, Over
  <2>3. Running(v) => /\ i \in DOMAIN v.alarm_list
                      /\ v.alarm_list[i].func = event.func
                      /\ v.alarm_list[i].remaining = event.remaining
    BY <1>1, <2>1, <2>2 DEF Near, SameNodes
  <2> HIDE DEF event
  <2>4. Sound(y, i) /\ Needed(y, i, {}) /\ (Running(v) => Goes(v, y)) /\ (~Running(v) => y = v)
    BY <2>1, <2>3, FireSingle
  <2> HIDE DEF y
  <2>5. Goes(d, y)
    BY <2>1, <2>2, <2>4, GoesTrans
  <2> QED BY <2>1, <2>4, <2>5
<1>5. K = 0..n
  <2>1. K \in SUBSET (0..n) /\ 0 \in K
    BY <1>0, <1>3
  <2>2. \A i \in 1..n : i - 1 \in K => i \in K
    BY <1>0, <1>4
  <2> HIDE DEF K
  <2> QED BY <1>0, <2>1, <2>2, Induct
<1>6. Upto(n)
  BY <1>0, <1>5
<1> QED BY <1>0, <1>6 DEF f, d, n

LEMMA MinRemaining ==
    ASSUME NEW list \in Seq(Alarm), \A k \in DOMAIN list : list[k].remaining \in Seconds
    PROVE  /\ find_min_remaining(list) \in Nat /\ find_min_remaining(list) <= IntMax
           /\ list # <<>> => find_min_remaining(list) \in Seconds
<1> DEFINE S == {IntMax} \cup {e.remaining : e \in {x \in Range(list) : x.remaining # 0}}
<1>1. find_min_remaining(list) = Min(S)
  BY DEF find_min_remaining
<1>2. \A v \in S : v = IntMax \/ v \in Seconds
  BY DEF Range
<1>3. \A k \in DOMAIN list : list[k].remaining \in S
  <2> SUFFICES ASSUME NEW k \in DOMAIN list PROVE list[k].remaining \in S
    OBVIOUS
  <2>1. list[k].remaining \in Seconds /\ list[k].remaining # 0
    BY DEF Seconds
  <2>2. list[k] \in Range(list)
    BY DEF Range
  <2> QED BY <2>1, <2>2
<1>4. IntMax \in S
  OBVIOUS
<1> HIDE DEF S
<1>5. S \in SUBSET Nat /\ S # {}
  BY <1>2, <1>4, Constants
<1>6. Min(S) \in S /\ \A v \in S : Min(S) <= v
  <2>1. \E v \in S : \A w \in S : v <= w
    BY <1>5, Least
  <2> QED BY <2>1 DEF Min
<1>7. list # <<>> => find_min_remaining(list) \in Seconds
  <2> SUFFICES ASSUME list # <<>> PROVE find_min_remaining(list) \in Seconds
    OBVIOUS
  <2>1. 1 \in DOMAIN list
    OBVIOUS
  <2>2. Min(S) <= list[1].remaining /\ list[1].remaining \in Seconds
    BY <1>3, <1>6, <2>1
  <2>3. Min(S) # IntMax
    BY <2>2, Constants DEF Seconds
  <2> QED BY <1>1, <1>2, <1>6, <2>3
<1> QED BY <1>1, <1>4, <1>5, <1>6, <1>7

\* What is left of the lists after a ring: alarms that are to come, and no other.
LEMMA LeftAlarms ==
    ASSUME NEW y \in Memory, ListsInOrder(y), NEW n \in Nat, DOMAIN y.alarm_list = 1..n
    PROVE  LET S == {e \in Range(y.alarm_list) : alarm_valid(e)}
               left == filter(y.alarm_list, S) \o y.add_temp
           IN  /\ left \in Seq(Alarm)
               /\ \A k \in DOMAIN left : left[k].remaining \in Seconds /\ ~left[k].marked_delete
               /\ \A g, named : Held(y, n, g, named) =>
                    \E k \in DOMAIN left : left[k].func = g /\ (named => left[k].named)
<1> DEFINE S == {e \in Range(y.alarm_list) : alarm_valid(e)}
           kept == filter(y.alarm_list, S)
           temp == y.add_temp
           left == kept \o temp
<1>1. y.alarm_list \in Seq(Alarm) /\ temp \in Seq(Alarm)
  BY DEF Memory
<1>2. \A k \in DOMAIN y.alarm_list : alarm_valid(y.alarm_list[k]) => y.alarm_list[k] \in S
  BY DEF Range
<1>3. \A e \in S : alarm_valid(e)
  OBVIOUS
<1> HIDE DEF S
<1>4. /\ kept \in Seq(Alarm)
      /\ \A k \in DOMAIN kept : kept[k] \in S /\ \E j \in DOMAIN y.alarm_list : kept[k] = y.alarm_list[j]
      /\ \A j \in DOMAIN y.alarm_list : y.alarm_list[j] \in S =>
           \E k \in DOMAIN kept : kept[k] = y.alarm_list[j]
  <2> DEFINE list == y.alarm_list
  <2> HIDE DEF list
  <2>1. list \in Seq(Alarm)
    BY <1>1 DEF list
  <2>2. /\ filter(list, S) \in Seq(Alarm)
        /\ \A k \in DOMAIN filter(list, S) :
             filter(list, S)[k] \in S /\ \E j \in DOMAIN list : filter(list, S)[k] = list[j]
        /\ \A j \in DOMAIN list : list[j] \in S =>
             \E k \in DOMAIN filter(list, S) : filter(list, S)[k] = list[j]
    BY <2>1, FilterKeeps
  <2> QED BY <2>2 DEF list
<1>5. \A k \in DOMAIN temp : temp[k].remaining \in Seconds /\ ~temp[k].marked_delete
  BY DEF ListsInOrder
<1>6. \A k \in DOMAIN kept : kept[k].remaining \in Seconds /\ ~kept[k].marked_delete
  <2> SUFFICES ASSUME NEW k \in DOMAIN kept
               PROVE  kept[k].remaining \in Seconds /\ ~kept[k].marked_delete
    OBVIOUS
  <2>1. alarm_valid(kept[k]) /\ kept[k] \in Alarm
    BY <1>3, <1>4
  <2>2. kept[k].remaining < IntMax
    BY <1>4 DEF ListsInOrder
  <2>3. kept[k].remaining \in Int /\ kept[k].remaining > 0 /\ ~kept[k].marked_delete
    BY <2>1 DEF alarm_valid, Alarm
  <2> QED BY <2>2, <2>3, Constants DEF Seconds
<1> HIDE DEF kept, temp
<1>7. /\ left \in Seq(Alarm) /\ DOMAIN left = 1..(Len(kept) + Len(temp))
      /\ Len(kept) \in Nat /\ Len(temp) \in Nat
      /\ DOMAIN kept = 1..Len(kept) /\ DOMAIN temp = 1..Len(temp)
      /\ \A k \in 1..Len(kept) : left[k] = kept[k]
      /\ \A k \in 1..Len(temp) : left[Len(kept) + k] = temp[k]
  BY <1>1, <1>4
<1> HIDE DEF left
<1>8. \A k \in DOMAIN left : left[k].remaining \in Seconds /\ ~left[k].marked_delete
  <2> SUFFICES ASSUME NEW k \in DOMAIN left
               PROVE  left[k].remaining \in Seconds /\ ~left[k].marked_delete
    OBVIOUS
  <2>1. CASE k \in 1..Len(kept)
    BY <1>6, <1>7, <2>1
  <2>2. CASE k \notin 1..Len(kept)
    <3> DEFINE j == k - Len(kept)
    <3>1. j \in 1..Len(temp) /\ k = Len(kept) + j
      BY <1>7, <2>2
    <3> HIDE DEF j
    <3>2. left[k] = temp[j]
      BY <1>7, <3>1
    <3> QED BY <1>5, <1>7, <3>1, <3>2
  <2> QED BY <2>1, <2>2
<1>9. ASSUME NEW g, NEW named, Held(y, n, g, named)
      PROVE  \E k \in DOMAIN left : left[k].func = g /\ (named => left[k].named)
  <2>1. ASSUME NEW k \in DOMAIN temp, temp[k].func = g, named => temp[k].named
        PROVE  \E j \in DOMAIN left : left[j].func = g /\ (named => left[j].named)
    <3>1. Len(kept) + k \in DOMAIN left /\ left[Len(kept) + k] = temp[k]
      BY <1>7
    <3> QED BY <2>1, <3>1
  <2>2. ASSUME NEW k \in DOMAIN y.alarm_list, y.alarm_list[k].func = g,
               named => y.alarm_list[k].named, ~y.alarm_list[k].marked_delete,
               y.alarm_list[k].remaining > 0 \/ k > n
        PROVE  \E j \in DOMAIN left : left[j].func = g /\ (named => left[j].named)
    <3>1. y.alarm_list[k].remaining > 0
      BY <2>2
    <3>2. y.alarm_list[k] \in S
      BY <1>2, <2>2, <3>1 DEF alarm_valid
    <3>3. PICK j \in DOMAIN kept : kept[j] = y.alarm_list[k]
      BY <1>4, <3>2
    <3>4. j \in DOMAIN left /\ left[j] = kept[j]
      BY <1>7
    <3> QED BY <2>2, <3>3, <3>4
  <2> QED BY <1>9, <2>1, <2>2 DEF Held, temp
<1> QED BY <1>7, <1>8, <1>9 DEF left, kept, S, temp

LEMMA Ringing ==
    ASSUME PacketsKeep, HooksKeep, NEW x, Sound(x, 0), Needed(x, 0, {}), Running(x), ~x.ringing
    PROVE  LET y == ring(x) IN
           /\ Sound(y, 0) /\ Needed(y, 0, {}) /\ ~y.ringing
           /\ y.rejected = x.rejected /\ y.exit # "stopped"
           /\ Running(y) => /\ y.in_capture_callback = x.in_capture_callback
                            /\ x.ever_sent_start => y.ever_sent_start
<1> DEFINE n == Len(x.alarm_list)
           d == due(x)
           f == firing(x)[n]
           S == {e \in Range(f.alarm_list) : alarm_valid(e)}
           left == filter(f.alarm_list, S) \o f.add_temp
           t == find_min_remaining(left)
           z1 == [f EXCEPT !.alarm_list = left, !.add_temp = <<>>]
           z2 == [z1 EXCEPT !.ringing = FALSE]
           y == set_alarm(z2, t)
<1>1. ring(x) = IF ~Running(f) THEN f
                ELSE set_alarm([f EXCEPT !.alarm_list = left, !.add_temp = <<>>, !.ringing = FALSE], t)
  BY DEF ring
<1>2. n \in Nat /\ Sound(f, n) /\ Needed(f, n, {}) /\ Goes(d, f)
  BY AllFired
<1>3. /\ Calm(d) /\ d.ringing /\ DOMAIN d.alarm_list = DOMAIN x.alarm_list
      /\ d.rejected = x.rejected /\ d.in_capture_callback = x.in_capture_callback
      /\ d.ever_sent_start = x.ever_sent_start
  BY Due
<1>4. DOMAIN x.alarm_list = 1..n
  BY DEF Sound, Memory
<1> HIDE DEF d, f, n
<1>5. CASE ~Running(f)
  <2>1. Over(d, f)
    BY <1>2, <1>3, <1>5 DEF Goes, Near, Calm, Running
  <2>2. Sound(f, 0) /\ Needed(f, 0, {})
    BY <2>1, OverSound
  <2> QED BY <1>1, <1>3, <1>5, <2>1, <2>2 DEF Over
<1>6. CASE Running(f)
  <2>1. Near(d, f) /\ f \in Memory /\ ListsInOrder(f) /\ Armed(f, n) /\ Counted(f)
        /\ f.state # "PREPARING"
    BY <1>2, <1>6 DEF Goes, Over, Sound
  <2>2. DOMAIN f.alarm_list = 1..n
    BY <1>3, <1>4, <2>1 DEF Near, SameNodes
  <2>3. /\ left \in Seq(Alarm)
        /\ \A k \in DOMAIN left : left[k].remaining \in Seconds /\ ~left[k].marked_delete
        /\ \A g, named : Held(f, n, g, named) =>
             \E k \in DOMAIN left : left[k].func = g /\ (named => left[k].named)
    BY <1>2, <2>1, <2>2, LeftAlarms
  <2> HIDE DEF left
  <2>4. t \in Nat /\ t <= IntMax /\ (left # <<>> => t \in Seconds)
    BY <2>3, MinRemaining
  <2> HIDE DEF t
  <2>5. z2 = [f EXCEPT !.alarm_list = left, !.add_temp = <<>>, !.ringing = FALSE]
    BY <2>1 DEF Memory
  <2>6. /\ z1 \in Memory /\ z1.alarm_list = left /\ z1.add_temp = <<>>
        /\ z1.exit = f.exit /\ z1.rejected = f.rejected
        /\ z1.in_capture_callback = f.in_capture_callback
        /\ z1.ever_sent_start = f.ever_sent_start /\ z1.state = f.state
        /\ z1.fail_count = f.fail_count /\ z1.plugin = f.plugin
    BY <2>1, <2>3, Empty DEF Memory
  <2> HIDE DEF z1
  <2>7. /\ z2 \in Memory /\ z2.alarm_list = left /\ z2.add_temp = <<>> /\ ~z2.ringing
        /\ z2.exit = f.exit /\ z2.rejected = f.rejected
        /\ z2.in_capture_callback = f.in_capture_callback
        /\ z2.ever_sent_start = f.ever_sent_start /\ z2.state = f.state
        /\ z2.fail_count = f.fail_count /\ z2.plugin = f.plugin
    BY <2>6 DEF Memory
  <2>8. ring(x) = y
    BY <1>1, <1>6, <2>5
  <2> HIDE DEF z2
  <2>9. /\ y \in Memory /\ SameMachine(z2, y)
        /\ y.alarm_list = left /\ y.add_temp = <<>> /\ y.timer = t
    BY <2>4, <2>7, SettingTimer
  <2> HIDE DEF y
  <2>10. /\ ~y.ringing
         /\ y.exit = f.exit /\ y.rejected = f.rejected
         /\ y.in_capture_callback = f.in_capture_callback
         /\ y.ever_sent_start = f.ever_sent_start /\ y.state = f.state
         /\ y.fail_count = f.fail_count /\ y.plugin = f.plugin
    BY <2>7, <2>9 DEF SameMachine
  <2>11. \A k \in DOMAIN left : /\ left[k].remaining < IntMax /\ left[k].remaining > 0 /\ k > 0
                               /\ ~left[k].marked_delete
    <3>1. \A k \in DOMAIN left : k > 0
      BY <2>3
    <3>2. \A s \in Seconds : s > 0 /\ s < IntMax
      BY Constants DEF Seconds
    <3> QED BY <2>3, <3>1, <3>2
  <2>12. ListsInOrder(y)
    BY <2>4, <2>9, <2>10, <2>11 DEF ListsInOrder
  <2>13. \A g, named : Held(f, n, g, named) => Held(y, 0, g, named)
    <3> SUFFICES ASSUME NEW g, NEW named, Held(f, n, g, named) PROVE Held(y, 0, g, named)
      OBVIOUS
    <3>1. PICK k \in DOMAIN left : left[k].func = g /\ (named => left[k].named)
      BY <2>3
    <3>2. ~left[k].marked_delete /\ k > 0
      BY <2>11
    <3> QED BY <2>9, <3>1, <3>2 DEF Held
  <2>14. Armed(y, 0) /\ Counted(y)
    BY <2>1, <2>10, <2>13 DEF Armed, Counted, Running
  <2>15. Sound(y, 0)
    BY <2>1, <2>9, <2>10, <2>12, <2>14 DEF Sound
  <2>16. Needed(y, 0, {})
    BY <1>2, <2>10, <2>13 DEF Needed, Running
  <2> QED BY <1>3, <1>6, <2>1, <2>8, <2>10, <2>15, <2>16 DEF Near, Running
<1> QED BY <1>5, <1>6
-----------------------------------------------------------------------------
(* The frames *)

\* As Bookkeeping, for what the invariant says.
LEMMA StillSound ==
    ASSUME NEW x, Sound(x, 0), Running(x), NEW y \in Memory,
           y.alarm_list = x.alarm_list, y.add_temp = x.add_temp, y.ringing = x.ringing,
           y.timer = x.timer, y.exit = x.exit, y.rejected = x.rejected,
           y.state = x.state, y.fail_count = x.fail_count
    PROVE  Sound(y, 0)
<1>1. ListsInOrder(y)
  BY DEF ListsInOrder, Sound
<1>2. Armed(y, 0)
  BY DEF Armed, Sound, Held, Running
<1> QED BY <1>1, <1>2 DEF Sound, Counted, Running

LEMMA StillNeeded ==
    ASSUME NEW x, NEW y, NEW i, NEW S, Needed(x, i, S),
           y.alarm_list = x.alarm_list, y.add_temp = x.add_temp, y.plugin = x.plugin,
           y.exit = x.exit
    PROVE  Needed(y, i, S)
BY DEF Needed, Held, Running

\* A frame has been handled, by a process that goes on in the same place or ends.
Handled(x, y) ==
    /\ Sound(y, 0) /\ Needed(y, 0, {}) /\ y.exit # "stopped" /\ (~x.ringing => ~y.ringing)
    /\ Running(y) => /\ y.in_capture_callback = x.in_capture_callback
                     /\ x.ever_sent_start => y.ever_sent_start
    /\ MaxFailures # 0 => /\ y.rejected <= MaxFailures + 1
                          /\ Running(y) => y.rejected <= MaxFailures

LEMMA HandleResponse ==
    ASSUME PacketsKeep, NEW x, Sound(x, 0), Needed(x, 0, {}), Running(x),
           MaxFailures # 0 => x.rejected <= MaxFailures,
           NEW state \in {"IDENTITY_SENT", "CHALLENGE_SENT"}, NEW f
    PROVE  Handled(x, switch_to_state(x, state, f))
<1> DEFINE y == switch_to_state(x, state, f)
<1>1. Calm(x) /\ x \in Memory /\ Armed(x, 0) /\ Counted(x)
  BY DEF Sound, Calm
<1>2. state \in States \ {"PREPARING"} /\ state \in Waiting
  BY DEF States, Waiting
<1>3. Over(x, y) \/ Switched(x, y, state)
  BY <1>1, <1>2, Switching
<1>4. x.rejected \in Nat /\ MaxFailures \in Nat /\ x.fail_count \in Nat
  BY <1>1, Constants DEF Memory
<1> SUFFICES Handled(x, y)
  OBVIOUS
<1> HIDE DEF y
<1>5. CASE Over(x, y)
  <2>1. MaxFailures # 0 => x.rejected <= MaxFailures + 1
    BY <1>4
  <2>2. ~Running(y) /\ y.exit # "stopped" /\ ~y.ringing /\ y.rejected = x.rejected
    BY <1>5 DEF Over
  <2>3. Sound(y, 0) /\ Needed(y, 0, {})
    BY <1>5, OverSound
  <2> QED BY <2>1, <2>2, <2>3 DEF Handled
<1>6. CASE Switched(x, y, state)
  <2>1. /\ Close(x, y) /\ y.state = state /\ Keeps(x, y, {}) /\ y.fail_count = x.fail_count
        /\ x.state # state => Watched(y)
    BY <1>2, <1>6 DEF Switched
  <2>2. Held(y, 0, "state_watchdog", TRUE)
    BY <1>1, <1>2, <2>1 DEF Watched, Keeps, Armed, Calm
  <2>3. state # "FAILURE" /\ state # "SUCCESS" /\ state # "PREPARING"
    BY <1>2
  <2>4. Armed(y, 0) /\ Counted(y)
    BY <1>1, <2>1, <2>2, <2>3 DEF Armed, Counted, Close, Near, Running
  <2>5. Sound(y, 0)
    BY <2>1, <2>3, <2>4 DEF Sound, Close, Near
  <2>6. MaxFailures # 0 => y.rejected <= MaxFailures + 1 /\ y.rejected <= MaxFailures
    BY <1>4, <2>1 DEF Close, Near
  <2>7. y.exit # "stopped"
    BY <2>1 DEF Close, Near, Running
  <2>8. Needed(y, 0, {})
    BY <1>1, <2>1, CloseNeeded
  <2> QED BY <2>1, <2>5, <2>6, <2>7, <2>8 DEF Handled, Close, Near
<1> QED BY <1>3, <1>5, <1>6

LEMMA HandleSuccess ==
    ASSUME PacketsKeep, NEW x, Sound(x, 0), Needed(x, 0, {}), Running(x), NEW f
    PROVE  Handled(x, switch_to_state(
             [x EXCEPT !.accepted = Capped(@, AuthRound), !.rejected = 0], "SUCCESS", f))
<1> DEFINE accepted == Capped(x.accepted, AuthRound)
           z == [x EXCEPT !.accepted = accepted, !.rejected = 0]
           y == switch_to_state(z, "SUCCESS", f)
<1>1. Calm(x) /\ x \in Memory
  BY DEF Sound, Calm
<1>2. accepted \in Nat
  BY <1>1, Constants DEF Memory, Capped
<1>3. [x EXCEPT !.accepted = Capped(@, AuthRound), !.rejected = 0] = z
  BY <1>1 DEF Memory
<1> SUFFICES Handled(x, y)
  BY <1>3
<1> HIDE DEF accepted
<1>4. /\ z \in Memory /\ z.alarm_list = x.alarm_list /\ z.add_temp = x.add_temp
      /\ z.ringing = x.ringing /\ z.timer = x.timer /\ z.plugin = x.plugin /\ z.exit = x.exit
      /\ z.rejected = 0 /\ z.in_capture_callback = x.in_capture_callback
      /\ z.ever_sent_start = x.ever_sent_start
  BY <1>1, <1>2 DEF Memory
<1> HIDE DEF z
<1>5. Calm(z)
  BY <1>1, <1>4 DEF Calm, ListsInOrder, Running
<1>6. "SUCCESS" \in States \ {"PREPARING"}
  BY DEF States
<1>7. Over(z, y) \/ Switched(z, y, "SUCCESS")
  BY <1>5, <1>6, Switching
<1> HIDE DEF y
<1>10. 0 <= MaxFailures + 1 /\ 0 <= MaxFailures
  BY Constants
<1>8. CASE Over(z, y)
  <2>1. ~Running(y) /\ y.exit # "stopped" /\ ~y.ringing /\ y.rejected = 0
    BY <1>4, <1>8 DEF Over
  <2>2. Sound(y, 0) /\ Needed(y, 0, {})
    BY <1>8, OverSound
  <2> QED BY <1>10, <2>1, <2>2 DEF Handled
<1>9. CASE Switched(z, y, "SUCCESS")
  <2>1. Close(z, y) /\ y.state = "SUCCESS" /\ y.fail_count = 0 /\ y.rejected = 0
    BY <1>4, <1>9 DEF Switched, Close, Near
  <2>2. Counted(y)
    BY <2>1, Constants DEF Counted
  <2>3. Sound(y, 0)
    BY <2>1, <2>2, CloseSound DEF Waiting
  <2>4. y.exit # "stopped"
    BY <1>5, <2>1 DEF Close, Near, Calm, Running
  <2>5. /\ y.in_capture_callback = x.in_capture_callback /\ y.ringing = x.ringing
        /\ x.ever_sent_start => y.ever_sent_start
    BY <1>4, <2>1 DEF Close, Near
  <2>6. Needed(y, 0, {})
    BY <1>4, <2>1, StillNeeded, CloseNeeded
  <2> QED BY <1>10, <2>1, <2>3, <2>4, <2>5, <2>6 DEF Handled
<1> QED BY <1>7, <1>8, <1>9

LEMMA HandleFailure ==
    ASSUME PacketsKeep, NEW x, Sound(x, 0), Needed(x, 0, {}), Running(x),
           MaxFailures # 0 => x.rejected <= MaxFailures,
           NEW f
    PROVE  Handled(x, switch_to_state(
             [x EXCEPT !.accepted = 0, !.rejected = Capped(@, MaxFailures + 2)], "FAILURE", f))
<1> DEFINE rejected == Capped(x.rejected, MaxFailures + 2)
           z == [x EXCEPT !.accepted = 0, !.rejected = rejected]
           y == switch_to_state(z, "FAILURE", f)
<1>1. Calm(x) /\ x \in Memory /\ Counted(x)
  BY DEF Sound, Calm
<1>2. x.rejected \in Nat /\ MaxFailures \in Nat /\ x.fail_count \in Nat
  BY <1>1, Constants DEF Memory
<1>3. rejected \in Nat /\ rejected <= x.rejected + 1
  BY <1>2 DEF Capped
<1>4. [x EXCEPT !.accepted = 0, !.rejected = Capped(@, MaxFailures + 2)] = z
  BY <1>1 DEF Memory
<1> SUFFICES Handled(x, y)
  BY <1>4
<1> HIDE DEF rejected
<1>5. /\ z \in Memory /\ z.alarm_list = x.alarm_list /\ z.add_temp = x.add_temp
      /\ z.ringing = x.ringing /\ z.timer = x.timer /\ z.plugin = x.plugin /\ z.exit = x.exit
      /\ z.rejected = rejected /\ z.in_capture_callback = x.in_capture_callback
      /\ z.ever_sent_start = x.ever_sent_start
      /\ z.state = x.state /\ z.fail_count = x.fail_count
  BY <1>1, <1>3 DEF Memory
<1> HIDE DEF z
<1>6. Calm(z)
  BY <1>1, <1>5 DEF Calm, ListsInOrder, Running
<1>7. "FAILURE" \in States \ {"PREPARING"}
  BY DEF States
<1>8. Over(z, y) \/ Switched(z, y, "FAILURE")
  BY <1>6, <1>7, Switching
<1> HIDE DEF y
<1>9. MaxFailures # 0 => rejected <= MaxFailures + 1
  BY <1>2, <1>3
<1>10. CASE Over(z, y)
  <2>1. ~Running(y) /\ y.exit # "stopped" /\ ~y.ringing /\ y.rejected = rejected
    BY <1>5, <1>10 DEF Over
  <2>2. Sound(y, 0) /\ Needed(y, 0, {})
    BY <1>10, OverSound
  <2> QED BY <1>9, <2>1, <2>2 DEF Handled
<1>11. CASE Switched(z, y, "FAILURE")
  <2>1. /\ Close(z, y) /\ y.state = "FAILURE" /\ Restarting(y) /\ y.rejected = rejected
        /\ \/ x.state = "SUCCESS" /\ y.fail_count = x.fail_count
           \/ MaxFailures # 0 => y.fail_count = x.fail_count + 1 /\ y.fail_count # MaxFailures
    BY <1>5, <1>11 DEF Switched, Close, Near
  <2>2. Counted(y) /\ (MaxFailures # 0 => y.rejected <= MaxFailures)
    <3>1. CASE MaxFailures = 0
      BY <3>1 DEF Counted
    <3>2. CASE MaxFailures # 0
      <4>1. /\ x.fail_count < MaxFailures /\ x.rejected <= x.fail_count + 1
            /\ x.state = "SUCCESS" => x.rejected = 0
        BY <1>1, <3>2 DEF Counted, Calm
      <4>2. y.fail_count < MaxFailures /\ y.rejected <= y.fail_count + 1
        BY <1>2, <1>3, <2>1, <3>2, <4>1
      <4>3. y.fail_count \in Nat
        BY <1>2, <2>1, <3>2
      <4> QED BY <1>2, <1>3, <2>1, <4>2, <4>3 DEF Counted
    <3> QED BY <3>1, <3>2
  <2>3. Sound(y, 0)
    BY <2>1, <2>2, CloseSound DEF Waiting
  <2>4. y.exit # "stopped"
    BY <1>6, <2>1 DEF Close, Near, Calm, Running
  <2>5. /\ y.in_capture_callback = x.in_capture_callback /\ y.ringing = x.ringing
        /\ x.ever_sent_start => y.ever_sent_start
    BY <1>5, <2>1 DEF Close, Near
  <2>6. Needed(y, 0, {})
    BY <1>5, <2>1, StillNeeded, CloseNeeded
  <2> QED BY <1>9, <2>1, <2>2, <2>3, <2>4, <2>5, <2>6 DEF Handled
<1> QED BY <1>8, <1>10, <1>11

LEMMA Handling ==
    ASSUME PacketsKeep, NEW x, Sound(x, 0), Needed(x, 0, {}), Running(x),
           MaxFailures # 0 => x.rejected <= MaxFailures,
           NEW f \in Frames
    PROVE  Handled(x, handle(x, f))
<1>1. f \in {"identity", "challenge", "success", "success_key", "failure", "other"}
  BY ConfigAssumption
<1>2. CASE f = "identity"
  <2>1. handle(x, f) = switch_to_state(x, "IDENTITY_SENT", f)
    BY <1>2 DEF handle
  <2> QED BY <2>1, HandleResponse
<1>3. CASE f = "challenge"
  <2>1. handle(x, f) = switch_to_state(x, "CHALLENGE_SENT", f)
    BY <1>3 DEF handle
  <2> QED BY <2>1, HandleResponse
<1>4. CASE f \in {"success", "success_key"}
  <2>1. handle(x, f) = switch_to_state(
            [x EXCEPT !.accepted = Capped(@, AuthRound), !.rejected = 0], "SUCCESS", f)
    BY <1>4 DEF handle
  <2> QED BY <2>1, HandleSuccess
<1>5. CASE f = "failure"
  <2>1. handle(x, f) = switch_to_state(
            [x EXCEPT !.accepted = 0, !.rejected = Capped(@, MaxFailures + 2)], "FAILURE", f)
    BY <1>5 DEF handle
  <2> QED BY <2>1, HandleFailure
<1>6. CASE f = "other"
  <2>1. handle(x, f) = x
    BY <1>6 DEF handle
  <2>2. x.rejected \in Nat /\ MaxFailures \in Nat
    BY Constants DEF Sound, Memory
  <2> QED BY <2>1, <2>2 DEF Handled, Running
<1> QED BY <1>1, <1>2, <1>3, <1>4, <1>5, <1>6
-----------------------------------------------------------------------------
(* The steps of the process *)

Places == {"main", "preparing", "capture", "copying", "received"}

WholeInv == MachineInv /\ Needed(m, 0, {})

\* WholeInv of memory x, with the thread at place and the argument f.
InvAt(x, place, f, n) ==
    /\ place \in Places /\ f \in Frames \cup {"NULL"} /\ n \in 0..2
    /\ Sound(x, 0) /\ Needed(x, 0, {}) /\ ~x.ringing
    /\ MaxFailures # 0 => /\ x.rejected <= MaxFailures + 1
                          /\ Running(x) => x.rejected <= MaxFailures
    /\ Running(x) => /\ place \in {"capture", "copying", "received"} => x.ever_sent_start
                     /\ x.in_capture_callback <=> place \in {"copying", "received"}
    /\ place \in {"copying", "received"} => f \in Frames
    /\ x.exit = "stopped" => x.logoff

LEMMA InvIs == WholeInv <=> InvAt(m, pc, frame, naps)
BY DEF WholeInv, MachineInv, InvAt, TypeOK, GivesUp, ThreadInPlace, Sound, Places

LEMMA InvIsAfter == WholeInv' <=> InvAt(m', pc', frame', naps')
BY DEF WholeInv, MachineInv, InvAt, TypeOK, GivesUp, ThreadInPlace, Sound, Places, Memory, Running,
       Armed, Held, Counted, ListsInOrder, Needed

\* A call that goes on or ends the process leaves the rest of the invariant alone.
LEMMA CallKeeps ==
    ASSUME NEW x, NEW y, NEW p, NEW f, NEW n, InvAt(x, p, f, n), Running(x),
           Goes(x, y), Sound(y, 0), Needed(y, 0, {}),
           NEW p2 \in Places, NEW f2 \in Frames \cup {"NULL"}, NEW n2 \in 0..2,
           Running(y) => /\ p2 \in {"capture", "copying", "received"} => y.ever_sent_start
                         /\ p2 \in {"copying", "received"} <=> p \in {"copying", "received"},
           p2 \in {"copying", "received"} => f2 \in Frames
    PROVE  InvAt(y, p2, f2, n2)
<1>1. ~y.ringing /\ y.rejected = x.rejected /\ y.exit # "stopped"
  BY DEF Goes, Near, Over, InvAt, Running
<1>2. Running(y) => y.in_capture_callback = x.in_capture_callback
  BY DEF Goes, Near, Over
<1>3. MaxFailures # 0 => /\ x.rejected <= MaxFailures + 1
                         /\ x.rejected <= MaxFailures
  BY DEF InvAt
<1>4. x.in_capture_callback <=> p \in {"copying", "received"}
  BY DEF InvAt
<1> QED BY <1>1, <1>2, <1>3, <1>4 DEF InvAt

LEMMA PrepareKeeps ==
    ASSUME PacketsKeep, WholeInv, Prepare
    PROVE  WholeInv'
<1>1. /\ InvAt(m, pc, frame, naps) /\ Running(m) /\ Calm(m) /\ m.state # "PREPARING"
      /\ Counted(m) /\ Needed(m, 0, {}) /\ m \in Memory /\ pc = "main"
  BY InvIs DEF InvAt, Sound, Calm, Prepare
<1>2. m' = enter_state(m, "PREPARING") /\ pc' = "preparing" /\ frame' = frame /\ naps' \in 0..2
  BY DEF Prepare
<1>3. "PREPARING" \in States
  BY DEF States
<1>4. \/ Over(m, m')
      \/ Close(m, m') /\ m'.state = m.state /\ m'.fail_count = m.fail_count /\ Watched(m')
         /\ Keeps(m, m', {})
  BY <1>1, <1>2, <1>3, Entering
<1>5. Goes(m, m') /\ Sound(m', 0) /\ Needed(m', 0, {})
  <2>1. CASE Over(m, m')
    BY <2>1, OverSound DEF Goes
  <2>2. CASE Close(m, m') /\ m'.state = m.state /\ m'.fail_count = m.fail_count /\ Watched(m')
             /\ Keeps(m, m', {})
    <3>1. Counted(m')
      BY <1>1, <2>2 DEF Counted, Close, Near, Running
    <3>2. Armed(m', 0)
      BY <1>1, <2>2 DEF Armed, Watched, Keeps, InvAt, Sound
    <3> QED BY <1>1, <2>2, <3>1, <3>2, CloseNeeded DEF Goes, Sound, Close, Near
  <2> QED BY <1>4, <2>1, <2>2
<1>6. frame \in Frames \cup {"NULL"} /\ "preparing" \in Places
  BY <1>1 DEF InvAt, Places
<1> QED BY <1>1, <1>2, <1>5, <1>6, CallKeeps, InvIsAfter

LEMMA StartCaptureKeeps ==
    ASSUME PacketsKeep, WholeInv, StartCapture
    PROVE  WholeInv'
<1>1. /\ InvAt(m, pc, frame, naps) /\ Running(m) /\ Calm(m) /\ m.state # "PREPARING"
      /\ Counted(m) /\ Needed(m, 0, {}) /\ m \in Memory /\ Armed(m, 0) /\ pc = "preparing"
  BY InvIs DEF InvAt, Sound, Calm, StartCapture
<1>2. /\ m' = switch_to_start_sent(m) /\ pc' = IF Running(m') THEN "capture" ELSE "main"
      /\ frame' = frame /\ naps' = naps
  BY DEF StartCapture
<1>3. \/ Over(m, m')
      \/ /\ Close(m, m') /\ Keeps(m, m', {})
         /\ m'.state = "START_SENT" /\ m'.fail_count = m.fail_count /\ m'.ever_sent_start
         /\ m.state # "START_SENT" => Watched(m')
  BY <1>1, <1>2, SwitchingToStart
<1>4. Goes(m, m') /\ Sound(m', 0) /\ Needed(m', 0, {}) /\ (Running(m') => m'.ever_sent_start)
  <2>1. CASE Over(m, m')
    BY <2>1, OverSound DEF Goes, Over
  <2>2. CASE /\ Close(m, m') /\ Keeps(m, m', {})
             /\ m'.state = "START_SENT" /\ m'.fail_count = m.fail_count /\ m'.ever_sent_start
             /\ m.state # "START_SENT" => Watched(m')
    <3>1. Counted(m')
      BY <1>1, <2>2 DEF Counted, Close, Near, Running
    <3>2. Held(m', 0, "state_watchdog", TRUE)
      BY <1>1, <2>2 DEF Armed, Watched, Keeps, Waiting
    <3>3. Armed(m', 0)
      BY <2>2, <3>2 DEF Armed
    <3> QED BY <1>1, <2>2, <3>1, <3>3, CloseNeeded DEF Goes, Sound, Close, Near
  <2> QED BY <1>3, <2>1, <2>2
<1>5. frame \in Frames \cup {"NULL"} /\ pc' \in Places /\ pc' \in {"capture", "main"}
      /\ naps \in 0..2
  BY <1>1, <1>2 DEF InvAt, Places
<1> QED BY <1>1, <1>2, <1>4, <1>5, CallKeeps, InvIsAfter

\* The capture is over, so that the exit is not inside of it, and a Start was sent.
LEMMA CaptureReturnsKeeps ==
    ASSUME PacketsKeep, WholeInv, CaptureReturns
    PROVE  WholeInv'
<1> DEFINE w == arrive(m, "PREPARING")
<1>1. /\ InvAt(m, pc, frame, naps) /\ Running(m) /\ Calm(m) /\ pc = "capture"
      /\ m.ever_sent_start /\ ~m.in_capture_callback
  BY InvIs DEF InvAt, Sound, Calm, CaptureReturns
<1>2. m' = exit(w, "stopped") /\ pc' = "main" /\ frame' = frame /\ naps' = naps
  BY DEF CaptureReturns
<1>3. "PREPARING" \in States /\ "stopped" \in Exits
  BY DEF States, Exits
<1>4. Close(m, w) /\ w.ever_sent_start = m.ever_sent_start
  BY <1>1, <1>3, Arriving
<1>5. w \in Memory /\ ListsInOrder(w) /\ w.ever_sent_start /\ ~w.in_capture_callback
      /\ w.rejected = m.rejected
  BY <1>1, <1>4 DEF Close, Near
<1> HIDE DEF w
<1>6. /\ m' \in Memory /\ ListsInOrder(m') /\ m'.exit = "stopped" /\ ~m'.ringing
      /\ m'.rejected = w.rejected /\ m'.logoff
  BY <1>2, <1>3, <1>5, Exiting
<1>7. ~Running(m')
  BY <1>6 DEF Running
<1>8. Sound(m', 0) /\ Needed(m', 0, {})
  BY <1>6, <1>7 DEF Sound, Armed, Counted, Needed
<1>9. /\ frame \in Frames \cup {"NULL"} /\ naps \in 0..2 /\ "main" \in Places
      /\ MaxFailures # 0 => m'.rejected <= MaxFailures + 1
  BY <1>1, <1>5, <1>6 DEF InvAt, Places
<1>10. InvAt(m', "main", frame, naps)
  BY <1>6, <1>7, <1>8, <1>9 DEF InvAt
<1> QED BY <1>2, <1>10, InvIsAfter

LEMMA ReceiveFrameKeeps ==
    ASSUME WholeInv, ReceiveFrame
    PROVE  WholeInv'
<1>1. /\ InvAt(m, pc, frame, naps) /\ Running(m) /\ Sound(m, 0) /\ m \in Memory /\ pc = "capture"
      /\ m.ever_sent_start /\ ~m.ringing /\ Needed(m, 0, {})
  BY InvIs DEF InvAt, Sound, ReceiveFrame
<1>2. /\ m' = [m EXCEPT !.in_capture_callback = TRUE, !.last_recv_frame = "NULL"]
      /\ pc' = "copying" /\ frame' \in Frames /\ naps' = naps
  BY DEF ReceiveFrame
<1>3. /\ m' \in Memory
      /\ m'.alarm_list = m.alarm_list /\ m'.add_temp = m.add_temp /\ m'.ringing = m.ringing
      /\ m'.timer = m.timer /\ m'.exit = m.exit /\ m'.rejected = m.rejected
      /\ m'.state = m.state /\ m'.fail_count = m.fail_count
      /\ m'.in_capture_callback /\ m'.ever_sent_start = m.ever_sent_start
      /\ m'.logoff = m.logoff /\ m'.plugin = m.plugin
  BY <1>1, <1>2 DEF Memory
<1>4. Sound(m', 0) /\ Needed(m', 0, {})
  BY <1>1, <1>3, StillSound, StillNeeded
<1>5. InvAt(m', "copying", frame', naps)
  BY <1>1, <1>2, <1>3, <1>4 DEF InvAt, Places, Running
<1> QED BY <1>2, <1>5, InvIsAfter

LEMMA CopyFrameKeeps ==
    ASSUME PacketsKeep, HooksKeep, WholeInv, CopyFrame
    PROVE  WholeInv'
<1> DEFINE f == frame
           w == [m EXCEPT !.last_recv_frame = f]
<1>1. /\ InvAt(m, pc, frame, naps) /\ Running(m) /\ Calm(m) /\ Sound(m, 0) /\ m \in Memory
      /\ pc = "copying" /\ frame \in Frames /\ m.ever_sent_start /\ naps \in 0..2
      /\ Needed(m, 0, {})
  BY InvIs DEF InvAt, Sound, Calm, CopyFrame
<1>2. m' = on_frame_received(w, f) /\ pc' = "received" /\ frame' = frame /\ naps' = naps
  BY DEF CopyFrame
<1>3. f \in Frames
  BY <1>1
<1> HIDE DEF f
<1>4. /\ w \in Memory
      /\ w.alarm_list = m.alarm_list /\ w.add_temp = m.add_temp /\ w.ringing = m.ringing
      /\ w.timer = m.timer /\ w.exit = m.exit /\ w.rejected = m.rejected
      /\ w.state = m.state /\ w.fail_count = m.fail_count
      /\ w.in_capture_callback = m.in_capture_callback
      /\ w.ever_sent_start = m.ever_sent_start /\ w.plugin = m.plugin
  BY <1>1, <1>3 DEF Memory
<1> HIDE DEF w
<1>5. Sound(w, 0) /\ Needed(w, 0, {}) /\ Close(m, w) /\ Near(m, w) /\ Calm(w)
  BY <1>1, <1>4, StillSound, StillNeeded, Bookkeeping, CloseCalm DEF Close
<1>6. Goes(w, m') /\ Sound(m', 0) /\ Needed(m', 0, {})
  BY <1>2, <1>3, <1>4, <1>5 DEF HooksKeep
<1>7. Goes(m, m')
  BY <1>5, <1>6, GoesTrans
<1>8. Running(m') => m'.ever_sent_start
  BY <1>1, <1>7 DEF Goes, Near, Over
<1>9. "received" \in Places /\ frame \in Frames \cup {"NULL"}
  BY <1>1 DEF Places
<1> QED BY <1>1, <1>2, <1>6, <1>7, <1>8, <1>9, CallKeeps, InvIsAfter

LEMMA HandleFrameKeeps ==
    ASSUME PacketsKeep, WholeInv, HandleFrame
    PROVE  WholeInv'
<1> DEFINE y == handle(m, frame)
           z == [y EXCEPT !.in_capture_callback = FALSE]
<1>1. /\ InvAt(m, pc, frame, naps) /\ Running(m) /\ Sound(m, 0) /\ frame \in Frames
      /\ m.ever_sent_start /\ ~m.ringing /\ naps \in 0..2 /\ Needed(m, 0, {})
      /\ MaxFailures # 0 => m.rejected <= MaxFailures
  BY InvIs DEF InvAt, HandleFrame
<1>2. /\ m' = IF Running(y) THEN z ELSE y
      /\ pc' = "capture" /\ frame' = "NULL" /\ naps' = naps
  BY DEF HandleFrame
<1>3. Handled(m, y)
  BY <1>1, Handling
<1> HIDE DEF y
<1>4. CASE ~Running(y)
  <2>1. InvAt(y, "capture", "NULL", naps)
    BY <1>1, <1>3, <1>4 DEF Handled, InvAt, Places
  <2> QED BY <1>2, <1>4, <2>1, InvIsAfter
<1>5. CASE Running(y)
  <2>1. y \in Memory /\ Sound(y, 0) /\ Needed(y, 0, {})
    BY <1>3 DEF Handled, Sound
  <2>2. /\ z \in Memory
        /\ z.alarm_list = y.alarm_list /\ z.add_temp = y.add_temp /\ z.ringing = y.ringing
        /\ z.timer = y.timer /\ z.exit = y.exit /\ z.rejected = y.rejected
        /\ z.state = y.state /\ z.fail_count = y.fail_count
        /\ z.in_capture_callback = FALSE /\ z.ever_sent_start = y.ever_sent_start
        /\ z.plugin = y.plugin
    BY <2>1 DEF Memory
  <2> HIDE DEF z
  <2>3. Sound(z, 0) /\ Needed(z, 0, {})
    BY <1>5, <2>1, <2>2, StillSound, StillNeeded
  <2>4. InvAt(z, "capture", "NULL", naps)
    BY <1>1, <1>3, <1>5, <2>2, <2>3 DEF Handled, InvAt, Places, Running
  <2> QED BY <1>2, <1>5, <2>4, InvIsAfter
<1> QED BY <1>4, <1>5

LEMMA TickKeeps ==
    ASSUME PacketsKeep, HooksKeep, WholeInv, Tick
    PROVE  WholeInv'
<1>1. /\ InvAt(m, pc, frame, naps) /\ Running(m) /\ Sound(m, 0) /\ m \in Memory /\ ~m.ringing
      /\ ListsInOrder(m) /\ m.timer \in Seconds /\ naps \in 0..2 /\ Needed(m, 0, {})
  BY InvIs DEF InvAt, Sound, Tick, ClockRuns, Seconds
<1>2. pc' = pc /\ frame' = frame
  BY DEF Tick
<1>3. CASE m.timer = 1
  <2>1. m' = ring(m) /\ naps' = 0
    BY <1>3 DEF Tick
  <2>2. /\ Sound(m', 0) /\ Needed(m', 0, {}) /\ ~m'.ringing
        /\ m'.rejected = m.rejected /\ m'.exit # "stopped"
        /\ Running(m') => /\ m'.in_capture_callback = m.in_capture_callback
                          /\ m.ever_sent_start => m'.ever_sent_start
    BY <1>1, <2>1, Ringing
  <2>3. InvAt(m', pc, frame, 0)
    BY <1>1, <2>2 DEF InvAt
  <2> QED BY <1>2, <2>1, <2>3, InvIsAfter
<1>4. CASE m.timer # 1
  <2> DEFINE t == m.timer - 1
  <2>1. /\ m' = [m EXCEPT !.timer = t]
        /\ naps' = IF naps = 0 THEN 0 ELSE naps - 1
    BY <1>4 DEF Tick
  <2>2. naps' \in 0..2 /\ t \in Seconds /\ t \in Nat /\ t <= IntMax
    BY <1>1, <1>4, <2>1, Constants DEF Seconds
  <2> HIDE DEF t
  <2>3. /\ m' \in Memory /\ m'.timer = t
        /\ m'.alarm_list = m.alarm_list /\ m'.add_temp = m.add_temp /\ m'.ringing = m.ringing
        /\ m'.exit = m.exit /\ m'.rejected = m.rejected
        /\ m'.state = m.state /\ m'.fail_count = m.fail_count /\ m'.logoff = m.logoff
        /\ m'.in_capture_callback = m.in_capture_callback
        /\ m'.ever_sent_start = m.ever_sent_start /\ m'.plugin = m.plugin
    BY <1>1, <2>1, <2>2 DEF Memory
  <2>4. ListsInOrder(m')
    BY <1>1, <2>2, <2>3 DEF ListsInOrder
  <2>5. Armed(m', 0) /\ Counted(m')
    BY <1>1, <2>3 DEF Armed, Counted, Sound, Held, Running
  <2>6. Sound(m', 0) /\ Needed(m', 0, {})
    BY <1>1, <2>3, <2>4, <2>5, StillNeeded DEF Sound, Running
  <2>7. InvAt(m', pc, frame, naps')
    BY <1>1, <2>2, <2>3, <2>6 DEF InvAt, Running
  <2> QED BY <1>2, <2>7, InvIsAfter
<1> QED BY <1>3, <1>4

LEMMA SignalsKeep ==
    ASSUME WholeInv, Terminate \/ LinkChanges
    PROVE  WholeInv'
<1>1. /\ InvAt(m, pc, frame, naps) /\ Running(m) /\ Sound(m, 0) /\ m \in Memory /\ naps \in 0..2
      /\ Needed(m, 0, {})
  BY InvIs DEF InvAt, Sound, Terminate, LinkChanges
<1>2. pc' = pc /\ frame' = frame /\ naps' \in 0..2
  BY <1>1 DEF Terminate, LinkChanges
<1>3. /\ m' \in Memory /\ m'.timer = m.timer
      /\ m'.alarm_list = m.alarm_list /\ m'.add_temp = m.add_temp /\ m'.ringing = m.ringing
      /\ m'.exit = m.exit /\ m'.rejected = m.rejected
      /\ m'.state = m.state /\ m'.fail_count = m.fail_count /\ m'.logoff = m.logoff
      /\ m'.in_capture_callback = m.in_capture_callback
      /\ m'.ever_sent_start = m.ever_sent_start /\ m'.plugin = m.plugin
  <2>1. CASE Terminate
    BY <1>1, <2>1 DEF Memory, Terminate
  <2>2. CASE LinkChanges
    <3> DEFINE link == ~m.link
    <3>1. link \in BOOLEAN /\ m' = [m EXCEPT !.link = link]
      BY <1>1, <2>2 DEF Memory, LinkChanges
    <3> HIDE DEF link
    <3> QED BY <1>1, <3>1 DEF Memory
  <2> QED BY <2>1, <2>2
<1>4. Sound(m', 0) /\ Needed(m', 0, {})
  BY <1>1, <1>3, StillSound, StillNeeded
<1>5. InvAt(m', pc, frame, naps')
  BY <1>1, <1>2, <1>3, <1>4 DEF InvAt, Running
<1> QED BY <1>2, <1>5, InvIsAfter

LEMMA InitKeeps ==
    ASSUME PacketsKeep, Init
    PROVE  WholeInv
<1>1. PICK plugin \in PluginInits :
       m = [state |-> "UNKNOWN", state_last_count |-> 0, auth_round |-> 1,
            fail_count |-> 0, last_recv_frame |-> "NULL",
            ever_sent_start |-> FALSE, in_capture_callback |-> FALSE,
            alarm_list |-> <<>>, add_temp |-> <<>>, ringing |-> FALSE,
            last_set_time |-> 0, timer |-> 0,
            link |-> TRUE, breakloop |-> FALSE, online |-> FALSE,
            exit |-> "no", logoff |-> FALSE, plugin |-> plugin,
            accepted |-> 0, rejected |-> 0]
  BY DEF Init
<1>2. plugin \in PluginStates /\ "UNKNOWN" \in States /\ "no" \in Exits
  BY ConfigAssumption DEF States, Exits
<1>3. m \in Memory
  BY <1>1, <1>2, Empty DEF Memory
<1>4. /\ m.state = "UNKNOWN" /\ m.fail_count = 0 /\ m.ever_sent_start = FALSE
      /\ m.in_capture_callback = FALSE /\ m.alarm_list = <<>> /\ m.add_temp = <<>>
      /\ m.ringing = FALSE /\ m.timer = 0 /\ m.exit = "no" /\ m.rejected = 0
      /\ m.plugin = plugin
  BY <1>1
<1>5. ListsInOrder(m)
  BY <1>4, Constants DEF ListsInOrder
<1>6. Armed(m, 0)
  BY <1>4 DEF Armed, Waiting
<1>7. Counted(m)
  BY <1>4, Constants DEF Counted
<1>8. Sound(m, 0) /\ Needed(m, 0, {})
  BY <1>3, <1>4, <1>5, <1>6, <1>7 DEF Sound, Needed, PacketsKeep
<1>9. MaxFailures # 0 => m.rejected <= MaxFailures + 1 /\ m.rejected <= MaxFailures
  BY <1>4, Constants
<1>10. pc = "main" /\ frame = "NULL" /\ naps \in 0..2
  BY DEF Init
<1>11. InvAt(m, pc, frame, naps)
  BY <1>4, <1>8, <1>9, <1>10 DEF InvAt, Places
<1> QED BY <1>11, InvIs

LEMMA StepKeeps ==
    ASSUME PacketsKeep, HooksKeep, WholeInv, [Next]_vars
    PROVE  WholeInv'
<1>1. CASE Next
  BY <1>1, PrepareKeeps, StartCaptureKeeps, CaptureReturnsKeeps, ReceiveFrameKeeps,
     CopyFrameKeeps, HandleFrameKeeps, TickKeeps, SignalsKeep DEF Next
<1>2. CASE UNCHANGED vars
  <2>1. m' = m /\ pc' = pc /\ frame' = frame /\ naps' = naps
    BY <1>2 DEF vars
  <2> QED BY <2>1, InvIs, InvIsAfter
<1> QED BY <1>1, <1>2
-----------------------------------------------------------------------------
(* The theorems *)

\* Whatever the server, the clock, the link and the plugins do, the alarms, the
\* counts and the place of the thread fit the state of the authentication.
THEOREM MachineInvariant == PluginsKeep => (Spec => []MachineInv)
<1> SUFFICES ASSUME PluginsKeep PROVE Spec => []MachineInv
  OBVIOUS
<1> USE DEF PluginsKeep
<1>1. Init => WholeInv
  BY InitKeeps
<1>2. WholeInv /\ [Next]_vars => WholeInv'
  BY StepKeeps
<1>3. WholeInv => MachineInv
  BY DEF WholeInv
<1> QED BY <1>1, <1>2, <1>3, PTL DEF Spec

THEOREM MachineTypes == PluginsKeep => (Spec => []TypeOK)
BY MachineInvariant, PTL DEF MachineInv

\* A process that waits for the server has a watchdog it can still cancel, one that
\* waits after a failure has a restart to come, and the kernel timer runs for them.
THEOREM ProcessWakes == PluginsKeep => (Spec => []NeverStuck)
<1>1. MachineInv => NeverStuck
  <2> SUFFICES ASSUME MachineInv, Running(m) PROVE NeverStuck
    BY DEF NeverStuck
  <2>1. m \in Memory /\ ListsInOrder(m) /\ Armed(m, 0) /\ ~m.ringing
    BY DEF MachineInv, Sound
  <2>2. m.add_temp = <<>> /\ (m.alarm_list # <<>> => m.timer \in 1..(IntMax - 1))
    BY <2>1 DEF ListsInOrder, Seconds
  <2>3. ASSUME NEW func, NEW named, Held(m, 0, func, named)
        PROVE  \E e \in Pending(func) : named => e.named
    <3>1. PICK k \in DOMAIN m.alarm_list :
            m.alarm_list[k].func = func /\ (named => m.alarm_list[k].named)
      BY <2>2, <2>3 DEF Held
    <3>2. m.alarm_list[k] \in Pending(func)
      BY <3>1 DEF Pending, Range
    <3> QED BY <3>1, <3>2
  <2>4. m.state \in Waiting => \E e \in Pending("state_watchdog") : e.named
    BY <2>1, <2>3 DEF Armed
  <2>5. m.state = "FAILURE" => Pending("restart_auth") # {}
    BY <2>1, <2>3 DEF Armed
  <2> QED BY <2>2, <2>4, <2>5 DEF NeverStuck
<1> QED BY <1>1, MachineInvariant, PTL

\* However retries, timeouts and frames mix, no process runs on after the failure that
\* max_failures allows.
THEOREM FailuresEnd == PluginsKeep => (Spec => []GivesUp)
BY MachineInvariant, PTL DEF MachineInv

\* Whatever moment a signal comes at, the exit it leads to logs off from the server.
THEOREM StopsLogOff == PluginsKeep => (Spec => []StopLogsOff)
<1>1. MachineInv => StopLogsOff
  BY DEF MachineInv, ThreadInPlace, StopLogsOff
<1> QED BY <1>1, MachineInvariant, PTL

\* What is asked of the plugins can be had: a process without a plugin has it.
THEOREM NoPlugins ==
    ASSUME PluginAlarms = {}, \A p : PluginNeeds(p) = {},
           \A x \in Memory : prepare_frame(x) = x,
           \A x \in Memory, f \in Frames : on_frame_received(x, f) = x
    PROVE  PluginsKeep
<1>1. ASSUME NEW x \in Memory
      PROVE  /\ prepare_frame(x) = [x EXCEPT !.plugin = prepare_frame(x).plugin]
             /\ prepare_frame(x).plugin \in PluginStates
  <2>1. x = [x EXCEPT !.plugin = x.plugin] /\ x.plugin \in PluginStates
    BY DEF Memory
  <2> QED BY <2>1
<1>2. ASSUME NEW x \in Memory, NEW f \in Frames, Calm(x)
      PROVE  /\ Goes(x, on_frame_received(x, f))
             /\ \A i \in Nat : Sound(x, i) => Sound(on_frame_received(x, f), i)
             /\ \A i \in Nat : Needed(x, i, {}) => Needed(on_frame_received(x, f), i, {})
  BY <1>2 DEF Goes, Near, SameNodes, Calm
<1> QED BY <1>1, <1>2 DEF PluginsKeep, PacketsKeep, HooksKeep
=============================================================================
