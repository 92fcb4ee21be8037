----------------------------- MODULE Rjv3Proofs -----------------------------
(* rjv3 and the printer keep to what EapProofs asks of plugins, in any order    *)
(* and number of them, so that its theorems hold with them, and the heartbeats  *)
(* go on for every configuration.                                              *)
EXTENDS Rjv3, EapProofs

KeepAlive == "rjv3_send_keepalive_timed"

\* The constants for plugins are rjv3's, and what it needs is the next heartbeat
\* while it holds an echo key.
RjPlugins ==
    /\ PluginStates = Rjv3Priv /\ PluginInits \subseteq Rjv3New /\ PluginAlarms = Rjv3Alarms
    /\ \A x \in Memory : prepare_frame(x) = packet_plugin_prepare_frame(x)
    /\ \A x \in Memory, f \in Frames :
         on_frame_received(x, f) = packet_plugin_on_frame_received(x, f)
    /\ \A x \in Memory, func \in Rjv3Alarms : plugin_alarm(x, func) = rjv3_alarm(x, func)
    /\ \A p \in Rjv3Priv : PluginNeeds(p) = IF p.echokey THEN {KeepAlive} ELSE {}

LEMMA RjConstants ==
    ASSUME RjPlugins
    PROVE  /\ Heartbeat \in Seconds /\ DhcpWait \in Seconds
           /\ KeepAlive \in Funcs /\ "rjv3_start_secondary_auth" \in Funcs
           /\ KeepAlive \notin Own /\ "rjv3_start_secondary_auth" # KeepAlive
           /\ \A x \in Memory : x.plugin \in Rjv3Priv
BY RjAssumption DEF RjPlugins, Seconds, Funcs, Rjv3Alarms, KeepAlive, Own, Memory
-----------------------------------------------------------------------------
(* What the plugin does to the memory of a process that runs                   *)

\* A call that leaves the authentication as it was, and all alarms but those of S.
Mild(x, y, S) ==
    Near(x, y) /\ y.state = x.state /\ y.fail_count = x.fail_count /\ Keeps(x, y, S)

LEMMA MildTrans ==
    ASSUME NEW x, NEW y, NEW z, NEW S, NEW R, Mild(x, y, R), Mild(y, z, S), R \subseteq S
    PROVE  Mild(x, z, S)
BY NearTrans DEF Mild, Keeps

LEMMA MildCalm ==
    ASSUME NEW x, NEW y, NEW S, Calm(x), Mild(x, y, S)
    PROVE  Calm(y) /\ y \in Memory
BY DEF Mild, Near, Calm, Running

LEMMA MildSound ==
    ASSUME NEW x, NEW y, NEW S, Mild(x, y, S), S \cap Own = {}, NEW i, Sound(x, i)
    PROVE  Sound(y, i)
<1>1. Armed(y, i)
  BY DEF Armed, Sound, Mild, Near, Keeps, Own, Running
<1>2. Counted(y)
  BY DEF Counted, Sound, Mild, Near, Running
<1> QED BY <1>1, <1>2 DEF Sound, Mild, Near, Running

LEMMA PluginChanges ==
    ASSUME RjPlugins, NEW x, Calm(x), NEW p \in Rjv3Priv
    PROVE  LET y == [x EXCEPT !.plugin = p] IN
           /\ Mild(x, y, {}) /\ y.plugin = p
           /\ y.alarm_list = x.alarm_list /\ y.add_temp = x.add_temp
<1> DEFINE y == [x EXCEPT !.plugin = p]
<1>1. /\ y \in Memory /\ y.exit = x.exit /\ y.ringing = x.ringing /\ y.timer = x.timer
      /\ y.in_capture_callback = x.in_capture_callback
      /\ y.ever_sent_start = x.ever_sent_start
      /\ y.rejected = x.rejected
      /\ y.state = x.state /\ y.fail_count = x.fail_count /\ y.plugin = p
      /\ y.alarm_list = x.alarm_list /\ y.add_temp = x.add_temp
  BY DEF Memory, Calm, RjPlugins
<1> HIDE DEF y
<1>2. ListsInOrder(y) /\ SameNodes(x, y) /\ Keeps(x, y, {})
  BY <1>1 DEF ListsInOrder, SameNodes, Keeps, Held, Calm
<1> QED BY <1>1, <1>2 DEF Mild, Near, y

\* The plugin's two flags.
LEMMA Marks ==
    ASSUME RjPlugins, NEW x \in Memory
    PROVE  LET y == rjv3_prepare_frame(x) IN
           /\ y \in Memory /\ y = [x EXCEPT !.plugin = y.plugin]
           /\ y.plugin \in Rjv3Priv /\ y.plugin.echokey = x.plugin.echokey
<1> DEFINE stale == x.plugin.stale \/ (x.plugin.last_recv_packet /\ x.last_recv_frame = "NULL")
           bare  == x.plugin.bare \/ (DoubleAuth(x.plugin) /\ x.plugin.succ_count = 1
                                      /\ ~should_fill_dhcp_prop(x.plugin))
           p == [x.plugin EXCEPT !.stale = stale, !.bare = bare]
           y == [x EXCEPT !.plugin = p]
<1>1. x.plugin \in Rjv3Priv
  BY RjConstants
<1>2. stale \in BOOLEAN /\ bare \in BOOLEAN
  BY <1>1 DEF Rjv3Priv, DoubleAuth
<1>3. rjv3_prepare_frame(x) = y
  BY <1>1 DEF rjv3_prepare_frame, Memory, Rjv3Priv
<1> HIDE DEF stale, bare
<1>4. p \in Rjv3Priv /\ p.echokey = x.plugin.echokey
  BY <1>1, <1>2 DEF Rjv3Priv
<1> HIDE DEF p
<1>5. y \in Memory /\ y.plugin = p
  BY <1>4 DEF Memory, RjPlugins
<1> QED BY <1>3, <1>4, <1>5
-----------------------------------------------------------------------------
(* Its alarms                                                                  *)

\* A heartbeat is to come, whatever of a ring has been dealt with.
Beating(x) == \A i : Held(x, i, KeepAlive, FALSE)

LEMMA AlarmsMild ==
    ASSUME NEW x, NEW y, NEW S, AlarmsOnly(x, y), Keeps(x, y, S)
    PROVE  Mild(x, y, S) /\ y.plugin = x.plugin
BY DEF AlarmsOnly, SameMachine, Near, Mild

LEMMA RjSchedules ==
    ASSUME RjPlugins, NEW x, Calm(x), NEW secs \in Seconds, NEW func \in Funcs,
           NEW named \in BOOLEAN
    PROVE  LET y == schedule_alarm(x, secs, func, named) IN
           /\ Mild(x, y, {}) /\ y.plugin = x.plugin
           /\ func = KeepAlive => Beating(y)
<1> DEFINE y == schedule_alarm(x, secs, func, named)
<1>1. /\ AlarmsOnly(x, y)
      /\ \A i, n : (n => named) => Held(y, i, func, n)
      /\ \A i, g, n : Held(x, i, g, n) => Held(y, i, g, n)
  BY Scheduling DEF Calm
<1> HIDE DEF y
<1>2. Keeps(x, y, {})
  BY <1>1 DEF Keeps
<1>3. func = KeepAlive => Beating(y)
  BY <1>1 DEF Beating
<1> QED BY <1>1, <1>2, <1>3, AlarmsMild DEF y

\* The next heartbeat is asked for by the one that fires.
LEMMA Heartbeats ==
    ASSUME RjPlugins, NEW x, Calm(x)
    PROVE  LET y == rjv3_send_keepalive_timed(x) IN
           Mild(x, y, {KeepAlive}) /\ y.plugin = x.plugin /\ Beating(y)
<1> DEFINE w == Unname(x, KeepAlive)
           y == schedule_alarm(w, Heartbeat, KeepAlive, TRUE)
<1>1. rjv3_send_keepalive_timed(x) = y
  BY DEF rjv3_send_keepalive_timed, KeepAlive
<1>2. /\ AlarmsOnly(x, w)
      /\ \A i, g, n : Held(x, i, g, n) /\ (g # KeepAlive \/ n = FALSE) => Held(w, i, g, n)
  BY Unnaming DEF Calm
<1> HIDE DEF w
<1>3. Keeps(x, w, {KeepAlive})
  BY <1>2 DEF Keeps
<1>4. Mild(x, w, {KeepAlive}) /\ w.plugin = x.plugin /\ Calm(w)
  BY <1>2, <1>3, AlarmsMild, MildCalm
<1>5. Heartbeat \in Seconds /\ KeepAlive \in Funcs /\ TRUE \in BOOLEAN
  BY RjConstants
<1>6. Mild(w, y, {}) /\ y.plugin = w.plugin /\ Beating(y)
  BY <1>4, <1>5, RjSchedules
<1> HIDE DEF y
<1>7. Keeps(x, y, {KeepAlive})
  BY <1>4, <1>6, KeepsTrans DEF Mild
<1>8. Mild(x, y, {KeepAlive})
  BY <1>4, <1>6, <1>7, NearTrans DEF Mild
<1> QED BY <1>1, <1>4, <1>6, <1>8

LEMMA KeepAliveResets ==
    ASSUME RjPlugins, NEW x, Calm(x)
    PROVE  LET y == rjv3_keepalive_reset(x) IN
           /\ Mild(x, y, {KeepAlive}) /\ ~y.plugin.echokey
           /\ y.plugin.dhcp_type = x.plugin.dhcp_type
<1> DEFINE w == unschedule_alarm(x, KeepAlive)
           p == [w.plugin EXCEPT !.echokey = FALSE]
           y == [w EXCEPT !.plugin = p]
<1>1. rjv3_keepalive_reset(x) = [w EXCEPT !.plugin.echokey = FALSE]
  BY DEF rjv3_keepalive_reset, KeepAlive
<1>2. /\ AlarmsOnly(x, w)
      /\ \A i, g, n : Held(x, i, g, n) /\ g # KeepAlive => Held(w, i, g, n)
  BY Unscheduling DEF Calm
<1> HIDE DEF w
<1>3. Keeps(x, w, {KeepAlive})
  BY <1>2 DEF Keeps
<1>4. Mild(x, w, {KeepAlive}) /\ w.plugin = x.plugin /\ Calm(w)
  BY <1>2, <1>3, AlarmsMild, MildCalm
<1>5. w \in Memory /\ w.plugin \in Rjv3Priv
  BY <1>4, RjConstants DEF Calm
<1>6. rjv3_keepalive_reset(x) = y
  BY <1>1, <1>5 DEF Memory, Rjv3Priv
<1>7. p \in Rjv3Priv /\ p.echokey = FALSE /\ p.dhcp_type = x.plugin.dhcp_type
  BY <1>4, <1>5 DEF Rjv3Priv
<1> HIDE DEF p
<1>8. Mild(w, y, {}) /\ y.plugin = p
  BY <1>4, <1>7, PluginChanges
<1> HIDE DEF y
<1>9. Keeps(x, y, {KeepAlive})
  BY <1>4, <1>8, KeepsTrans DEF Mild
<1>10. Mild(x, y, {KeepAlive})
  BY <1>4, <1>8, <1>9, NearTrans DEF Mild
<1> QED BY <1>6, <1>7, <1>8, <1>10

LEMMA StartsKeepAlive ==
    ASSUME RjPlugins, NEW x, Calm(x)
    PROVE  LET y == start_keepalive(x) IN
           Mild(x, y, {}) /\ y.plugin = x.plugin /\ Beating(y)
<1>1. 1 \in Seconds /\ KeepAlive \in Funcs /\ FALSE \in BOOLEAN
  BY RjConstants, Constants
<1> QED BY <1>1, RjSchedules DEF start_keepalive, KeepAlive
-----------------------------------------------------------------------------
(* What a hook keeps                                                           *)

\* A hook that found x left y.
Fine(x, y) ==
    /\ Goes(x, y)
    /\ \A i \in Nat : Sound(x, i) => Sound(y, i)
    /\ \A i \in Nat : Needed(x, i, {}) => Needed(y, i, {})

LEMMA FineTrans ==
    ASSUME NEW x, NEW y, NEW z, Fine(x, y), Running(y), Fine(y, z)
    PROVE  Fine(x, z)
BY GoesTrans DEF Fine, Goes, Over

LEMMA FineSelf ==
    ASSUME NEW x, Calm(x)
    PROVE  Fine(x, x)
BY DEF Fine, Goes, Near, SameNodes, Calm

LEMMA OverFine ==
    ASSUME NEW x, NEW y, Over(x, y)
    PROVE  Fine(x, y)
BY OverSound DEF Fine, Goes

\* A call after which a heartbeat is to come or is not needed.
LEMMA BeatingFine ==
    ASSUME RjPlugins, NEW x, NEW y, Mild(x, y, {KeepAlive}), y.plugin.echokey => Beating(y)
    PROVE  /\ Fine(x, y)
           /\ \A i \in Nat : Needed(y, i, {})
<1>1. {KeepAlive} \cap Own = {}
  BY RjConstants
<1>2. y \in Memory /\ y.plugin \in Rjv3Priv
  BY RjConstants DEF Mild, Near
<1>3. PluginNeeds(y.plugin) = IF y.plugin.echokey THEN {KeepAlive} ELSE {}
  BY <1>2 DEF RjPlugins
<1>4. ASSUME NEW i \in Nat PROVE Needed(y, i, {})
  BY <1>3 DEF Needed, Beating
<1> QED BY <1>1, <1>4, MildSound DEF Fine, Mild, Goes

\* A call that takes no alarm away, and brings no echo key.
LEMMA MildFine ==
    ASSUME RjPlugins, NEW x, NEW y, Calm(x), Mild(x, y, {}),
           y.plugin.echokey => x.plugin.echokey
    PROVE  Fine(x, y)
<1>1. y \in Memory /\ y.plugin \in Rjv3Priv /\ x.plugin \in Rjv3Priv
  BY RjConstants DEF Mild, Near, Calm
<1>2. PluginNeeds(y.plugin) \subseteq PluginNeeds(x.plugin)
  BY <1>1 DEF RjPlugins
<1>3. ASSUME NEW i \in Nat, Needed(x, i, {}) PROVE Needed(y, i, {})
  BY <1>2, <1>3 DEF Needed, Mild, Near, Keeps, Running
<1> QED BY <1>3, MildSound DEF Fine, Mild, Goes
-----------------------------------------------------------------------------
(* A packet is shown to every plugin                                           *)

\* A function over 0..n that starts with a, each value made of the last by F.
Iterated(n, T, a, F, g) ==
    g \in [0..n -> T] /\ g[0] = a /\ \A i \in 1..n : g[i] = F[i][g[i - 1]]

LEMMA Iterates ==
    ASSUME NEW n \in Nat, NEW T, NEW a \in T, NEW F \in [1..n -> [T -> T]]
    PROVE  \E g : Iterated(n, T, a, F, g)
<1> DEFINE Upto(k, g) == g \in [0..k -> T] /\ g[0] = a /\ \A i \in 1..k : g[i] = F[i][g[i - 1]]
           K == {k \in 0..n : \E g : Upto(k, g)}
<1>1. 0 \in K
  <2> DEFINE g == [i \in 0..0 |-> a]
  <2>1. 0 \in 0..0 /\ \A i \in 1..0 : FALSE
    OBVIOUS
  <2>2. g \in [0..0 -> T] /\ g[0] = a
    BY <2>1
  <2> HIDE DEF g
  <2>3. Upto(0, g)
    BY <2>1, <2>2
  <2>4. 0 \in 0..n
    OBVIOUS
  <2> QED BY <2>3, <2>4
<1>2. ASSUME NEW k \in 1..n, k - 1 \in K PROVE k \in K
  <2>1. PICK f : Upto(k - 1, f)
    BY <1>2
  <2> DEFINE g == [i \in 0..k |-> IF i < k THEN f[i] ELSE F[k][f[k - 1]]]
  <2>2. f[k - 1] \in T /\ k \in Nat /\ k - 1 \in 0..(k - 1)
    BY <2>1
  <2>3. F[k][f[k - 1]] \in T
    BY <2>2
  <2>4. g \in [0..k -> T] /\ g[k] = F[k][f[k - 1]] /\ \A i \in 0..(k - 1) : g[i] = f[i]
    BY <2>1, <2>2, <2>3
  <2> HIDE DEF g
  <2>5. ASSUME NEW i \in 1..k PROVE g[i] = F[i][g[i - 1]]
    <3>1. i - 1 \in 0..(k - 1)
      OBVIOUS
    <3>2. CASE i = k
      BY <2>4, <3>1, <3>2
    <3>3. CASE i # k
      <4>1. i \in 1..(k - 1) /\ i \in 0..(k - 1)
        BY <3>3
      <4> QED BY <2>1, <2>4, <3>1, <4>1
    <3> QED BY <3>2, <3>3
  <2>6. g[0] = a
    BY <2>1, <2>2, <2>4
  <2> QED BY <2>4, <2>5, <2>6
<1>3. K = 0..n
  <2>1. K \in SUBSET (0..n)
    OBVIOUS
  <2>2. \A i \in 1..n : i - 1 \in K => i \in K
    BY <1>2
  <2> HIDE DEF K
  <2> QED BY <1>1, <2>1, <2>2, Induct
<1>4. \E g : Upto(n, g)
  <2>1. n \in 0..n
    OBVIOUS
  <2> QED BY <1>3, <2>1
<1> QED BY <1>4 DEF Iterated

\* What one plugin makes of the memory of a packet.
shows(y, name) == IF name = "rjv3" THEN rjv3_prepare_frame(y) ELSE printer_prepare_frame(y)

Shown(x, n, g) ==
    g = [i \in 0..n |-> IF i = 0 THEN x
                        ELSE IF ActivePlugins[i] = "rjv3" THEN rjv3_prepare_frame(g[i - 1])
                        ELSE printer_prepare_frame(g[i - 1])]

LEMMA ShowsSteps ==
    ASSUME NEW x, NEW n \in Nat, NEW g
    PROVE  Shown(x, n, g) <=>
             /\ g = [i \in 0..n |-> g[i]] /\ g[0] = x
             /\ \A i \in 1..n : g[i] = shows(g[i - 1], ActivePlugins[i])
<1> DEFINE e(i) == IF i = 0 THEN x
                   ELSE IF ActivePlugins[i] = "rjv3" THEN rjv3_prepare_frame(g[i - 1])
                   ELSE printer_prepare_frame(g[i - 1])
<1>1. g = [i \in 0..n |-> e(i)] <=> g = [i \in 0..n |-> g[i]] /\ \A i \in 0..n : g[i] = e(i)
  <2> HIDE DEF e
  <2> QED OBVIOUS
<1>2. (\A i \in 0..n : g[i] = e(i)) <=>
        g[0] = x /\ \A i \in 1..n : g[i] = shows(g[i - 1], ActivePlugins[i])
  BY DEF shows
<1> QED BY <1>1, <1>2 DEF Shown

\* A packet changes no more than the two flags, whichever plugins it is shown to.
LEMMA PacketsShown ==
    ASSUME RjPlugins, NEW x \in Memory
    PROVE  LET y == packet_plugin_prepare_frame(x) IN
           /\ y \in Memory /\ y = [x EXCEPT !.plugin = y.plugin]
           /\ y.plugin \in Rjv3Priv /\ y.plugin.echokey = x.plugin.echokey
<1> DEFINE n == Len(ActivePlugins)
           T == {y \in Memory : /\ y = [x EXCEPT !.plugin = y.plugin]
                                /\ y.plugin \in Rjv3Priv /\ y.plugin.echokey = x.plugin.echokey}
           F == [i \in 1..n |-> [y \in T |-> shows(y, ActivePlugins[i])]]
           f == CHOOSE g : Shown(x, n, g)
<1>1. n \in Nat /\ DOMAIN ActivePlugins = 1..n
  BY RjAssumption
<1>2. x \in T
  <2>1. x = [x EXCEPT !.plugin = x.plugin] /\ x.plugin \in Rjv3Priv
    BY RjConstants DEF Memory
  <2> QED BY <2>1
<1>3. \A y \in T : \A name : shows(y, name) \in T
  <2> SUFFICES ASSUME NEW y \in T, NEW name PROVE shows(y, name) \in T
    OBVIOUS
  <2>1. CASE name = "rjv3"
    <3> DEFINE z == rjv3_prepare_frame(y)
    <3>1. /\ z \in Memory /\ z = [y EXCEPT !.plugin = z.plugin]
          /\ z.plugin \in Rjv3Priv /\ z.plugin.echokey = y.plugin.echokey
      BY Marks
    <3>2. shows(y, name) = z
      BY <2>1 DEF shows
    <3> HIDE DEF z
    <3> DEFINE p == y.plugin
               q == z.plugin
    <3>3. y = [x EXCEPT !.plugin = p] /\ z = [y EXCEPT !.plugin = q]
      BY <3>1
    <3> HIDE DEF p, q
    <3>4. z = [x EXCEPT !.plugin = q]
      BY <3>3 DEF Memory
    <3> QED BY <3>1, <3>2, <3>4 DEF q
  <2>2. CASE name # "rjv3"
    BY <2>2 DEF shows, printer_prepare_frame
  <2> QED BY <2>1, <2>2
<1> HIDE DEF T, n
<1>4. /\ F \in [1..n -> [T -> T]]
      /\ \A y \in T, i \in 1..n : F[i][y] = shows(y, ActivePlugins[i])
  BY <1>3
<1> HIDE DEF F, f
<1>5. \E g : Shown(x, n, g)
  <2>0. PICK g : Iterated(n, T, x, F, g)
    BY <1>1, <1>2, <1>4, Iterates
  <2>1. g \in [0..n -> T] /\ g[0] = x /\ \A i \in 1..n : g[i] = F[i][g[i - 1]]
    BY <2>0 DEF Iterated
  <2>2. ASSUME NEW i \in 1..n PROVE g[i] = shows(g[i - 1], ActivePlugins[i])
    <3>1. i - 1 \in 0..n /\ g[i - 1] \in T
      BY <1>1, <2>1
    <3> QED BY <1>4, <2>1, <3>1
  <2>3. Shown(x, n, g)
    BY <1>1, <2>1, <2>2, ShowsSteps
  <2> QED BY <2>3
<1>6. packet_plugin_prepare_frame(x) = f[n]
  BY Zenon DEF packet_plugin_prepare_frame, Shown, n, f
<1>7. Shown(x, n, f)
  BY <1>5 DEF f
<1>8. f[0] = x /\ \A i \in 1..n : f[i] = shows(f[i - 1], ActivePlugins[i])
  BY <1>1, <1>7, ShowsSteps
<1> DEFINE K == {i \in 0..n : f[i] \in T}
<1>9. K = 0..n
  <2>1. K \in SUBSET (0..n) /\ 0 \in K
    BY <1>1, <1>2, <1>8
  <2>2. \A i \in 1..n : i - 1 \in K => i \in K
    BY <1>1, <1>3, <1>8
  <2> HIDE DEF K
  <2> QED BY <1>1, <2>1, <2>2, Induct
<1>10. f[n] \in T
  BY <1>1, <1>9
<1> QED BY <1>6, <1>10 DEF T

LEMMA RjPacketsKeep ==
    ASSUME RjPlugins
    PROVE  PacketsKeep
<1>1. ASSUME NEW p \in PluginStates
      PROVE  PluginNeeds(p) \subseteq PluginAlarms /\ (p \in Rjv3New => PluginNeeds(p) = {})
  BY DEF RjPlugins, Rjv3Alarms, KeepAlive, Rjv3New
<1>2. ASSUME NEW x \in Memory
      PROVE  /\ prepare_frame(x) = [x EXCEPT !.plugin = prepare_frame(x).plugin]
             /\ prepare_frame(x).plugin \in PluginStates
             /\ PluginNeeds(prepare_frame(x).plugin) \subseteq PluginNeeds(x.plugin)
  <2> DEFINE y == prepare_frame(x)
  <2>1. /\ y \in Memory /\ y = [x EXCEPT !.plugin = y.plugin]
        /\ y.plugin \in Rjv3Priv /\ y.plugin.echokey = x.plugin.echokey
    BY PacketsShown DEF RjPlugins
  <2> HIDE DEF y
  <2>2. x.plugin \in Rjv3Priv
    BY RjConstants
  <2>3. PluginNeeds(y.plugin) = PluginNeeds(x.plugin) /\ y.plugin \in PluginStates
    BY <2>1, <2>2 DEF RjPlugins
  <2> QED BY <2>1, <2>3 DEF y
<1>3. \A p \in PluginInits : p \in PluginStates /\ p \in Rjv3New
  BY ConfigAssumption DEF RjPlugins
<1> QED BY <1>1, <1>2, <1>3 DEF PacketsKeep
-----------------------------------------------------------------------------
(* The second authentication                                                   *)

\* A new authentication keeps its watchdog and the heartbeats to come.
LEMMA StartsFine ==
    ASSUME RjPlugins, NEW x, Calm(x)
    PROVE  Fine(x, switch_to_start_sent(x))
<1> DEFINE y == switch_to_start_sent(x)
<1>1. PacketsKeep
  BY RjPacketsKeep
<1>2. \/ Over(x, y)
      \/ /\ Close(x, y) /\ Keeps(x, y, {})
         /\ y.state = "START_SENT" /\ y.fail_count = x.fail_count
         /\ x.state # "START_SENT" => Watched(y)
  BY <1>1, SwitchingToStart
<1> HIDE DEF y
<1>3. CASE Over(x, y)
  BY <1>3, OverFine DEF y
<1>4. CASE /\ Close(x, y) /\ Keeps(x, y, {})
           /\ y.state = "START_SENT" /\ y.fail_count = x.fail_count
           /\ x.state # "START_SENT" => Watched(y)
  <2>1. ASSUME NEW i \in Nat, Sound(x, i) PROVE Sound(y, i)
    <3>1. Held(y, i, "state_watchdog", TRUE)
      BY <1>4, <2>1 DEF Sound, Armed, Calm, Watched, Keeps, Waiting
    <3>2. Armed(y, i)
      BY <1>4, <3>1 DEF Armed
    <3>3. Counted(y)
      BY <1>4, <2>1 DEF Counted, Sound, Close, Near, Running
    <3> QED BY <1>4, <3>2, <3>3 DEF Sound, Close, Near
  <2>2. ASSUME NEW i \in Nat, Needed(x, i, {}) PROVE Needed(y, i, {})
    BY <1>1, <1>4, <2>2, CloseNeeded DEF Calm
  <2>3. Goes(x, y)
    BY <1>4 DEF Close, Goes
  <2> QED BY <2>1, <2>2, <2>3 DEF Fine, y
<1> QED BY <1>2, <1>3, <1>4

\* What the plugin takes from a Success.
LEMMA ResultProp ==
    ASSUME RjPlugins, NEW x, Calm(x), NEW f
    PROVE  LET y == process_result_prop(x, f) IN
           Mild(x, y, {}) /\ (y.plugin.echokey => x.plugin.echokey \/ f = "success_key")
<1> DEFINE p == [x.plugin EXCEPT !.echokey = TRUE]
           y == [x EXCEPT !.plugin = p]
<1>1. x.plugin \in Rjv3Priv /\ x \in Memory
  BY RjConstants DEF Calm
<1>2. CASE f = "success_key"
  <2>1. process_result_prop(x, f) = y
    BY <1>1, <1>2 DEF process_result_prop, Memory, Rjv3Priv
  <2>2. p \in Rjv3Priv
    BY <1>1 DEF Rjv3Priv
  <2> HIDE DEF p
  <2>3. Mild(x, y, {})
    BY <2>2, PluginChanges
  <2> QED BY <1>2, <2>1, <2>3
<1>3. CASE f # "success_key"
  <2>1. process_result_prop(x, f) = x
    BY <1>3 DEF process_result_prop
  <2>2. Mild(x, x, {})
    BY DEF Mild, Near, SameNodes, Keeps, Calm
  <2> QED BY <2>1, <2>2
<1> QED BY <1>2, <1>3

LEMMA Waits ==
    ASSUME RjPlugins, NEW x, Calm(x)
    PROVE  Fine(x, rjv3_start_secondary_auth(x))
<1> DEFINE count == Capped(x.plugin.dhcp_count, MaxDhcpCount + 1)
           p == [x.plugin EXCEPT !.dhcp_count = count]
           y == [x EXCEPT !.plugin = p]
           q == [x.plugin EXCEPT !.duplicated_packet = "NULL"]
           z == [x EXCEPT !.plugin = q]
           f == x.plugin.duplicated_packet
           u == process_result_prop(y, f)
           r == [u.plugin EXCEPT !.duplicated_packet = "NULL"]
           v == [u EXCEPT !.plugin = r]
<1>1. x.plugin \in Rjv3Priv /\ x \in Memory
  BY RjConstants DEF Calm
<1>2. count \in 0..(MaxDhcpCount + 1)
  BY <1>1, RjAssumption DEF Rjv3Priv, Capped
<1>3. /\ [x EXCEPT !.plugin.dhcp_count = Capped(@, MaxDhcpCount + 1)] = y
      /\ [x EXCEPT !.plugin.duplicated_packet = "NULL"] = z
  BY <1>1 DEF Memory, Rjv3Priv
<1> HIDE DEF count
<1>4. /\ p \in Rjv3Priv /\ p.echokey = x.plugin.echokey
      /\ q \in Rjv3Priv /\ q.echokey = x.plugin.echokey
  BY <1>1, <1>2 DEF Rjv3Priv
<1> HIDE DEF p, q
<1>5. /\ Mild(x, y, {}) /\ y.plugin = p
      /\ Mild(x, z, {}) /\ z.plugin = q
  BY <1>4, PluginChanges
<1> HIDE DEF y, z
<1>6. Calm(y) /\ Calm(z) /\ Fine(x, y) /\ Fine(x, z) /\ Running(y) /\ Running(z)
  BY <1>4, <1>5, MildCalm, MildFine DEF Calm
<1>7. Fine(x, switch_to_start_sent(z))
  BY <1>6, StartsFine, FineTrans
<1>8. Fine(x, schedule_alarm(y, DhcpWait, "rjv3_start_secondary_auth", FALSE))
  <2> DEFINE w == schedule_alarm(y, DhcpWait, "rjv3_start_secondary_auth", FALSE)
  <2>1. DhcpWait \in Seconds /\ "rjv3_start_secondary_auth" \in Funcs /\ FALSE \in BOOLEAN
    BY RjConstants
  <2>2. Mild(y, w, {}) /\ w.plugin = y.plugin
    BY <1>6, <2>1, RjSchedules
  <2> HIDE DEF w
  <2>3. Fine(y, w)
    BY <1>6, <2>2, MildFine
  <2>4. Fine(x, w)
    BY <1>6, <2>3, FineTrans
  <2> QED BY <2>4 DEF w
<1>9. Fine(x, crash(y))
  <2>1. Over(y, crash(y))
    BY <1>6, Crashing DEF Calm
  <2> QED BY <1>6, <2>1, OverFine, FineTrans
<1>10. Fine(x, start_keepalive(v)) /\ v = [u EXCEPT !.plugin.duplicated_packet = "NULL"]
  <2>1. Mild(y, u, {})
    BY <1>6, ResultProp
  <2> HIDE DEF u
  <2>2. Calm(u) /\ u.plugin \in Rjv3Priv /\ u \in Memory
    BY <1>6, <2>1, MildCalm, RjConstants
  <2>3. v = [u EXCEPT !.plugin.duplicated_packet = "NULL"]
    BY <2>2 DEF Memory, Rjv3Priv
  <2>4. r \in Rjv3Priv
    BY <2>2 DEF Rjv3Priv
  <2> HIDE DEF r
  <2>5. Mild(u, v, {})
    BY <2>2, <2>4, PluginChanges
  <2> HIDE DEF v
  <2>6. Calm(v)
    BY <2>2, <2>5, MildCalm
  <2> DEFINE w == start_keepalive(v)
  <2>7. Mild(v, w, {}) /\ Beating(w)
    BY <2>6, StartsKeepAlive
  <2> HIDE DEF w
  <2>8. Mild(y, v, {})
    BY <2>1, <2>5, MildTrans
  <2>9. Mild(y, w, {KeepAlive})
    BY <2>7, <2>8, MildTrans DEF Mild, Keeps
  <2>10. Fine(y, w)
    BY <2>7, <2>9, BeatingFine
  <2>11. Fine(x, w)
    BY <1>6, <2>10, FineTrans
  <2> QED BY <2>3, <2>11 DEF w
<1> QED BY <1>3, <1>7, <1>8, <1>9, <1>10 DEF rjv3_start_secondary_auth
-----------------------------------------------------------------------------
(* A frame is shown to the plugins                                             *)

\* After it no heartbeat is needed.
LEMMA ResetsState ==
    ASSUME RjPlugins, NEW x, Calm(x)
    PROVE  LET y == rjv3_reset_state(x) IN
           Mild(x, y, {KeepAlive}) /\ ~y.plugin.echokey
<1> DEFINE p == [x.plugin EXCEPT !.dhcp_count = 0, !.succ_count = 0, !.last_recv_packet = FALSE]
           z == [x EXCEPT !.plugin = p]
           y == rjv3_keepalive_reset(z)
<1>1. x.plugin \in Rjv3Priv /\ x \in Memory
  BY RjConstants DEF Calm
<1>2. p \in Rjv3Priv
  <2> DEFINE q == [x.plugin EXCEPT !.dhcp_count = 0, !.succ_count = 0]
  <2>1. 0 \in 0..2 /\ 0 \in 0..(MaxDhcpCount + 1)
    BY RjAssumption
  <2>2. q \in Rjv3Priv
    BY <1>1, <2>1 DEF Rjv3Priv
  <2>3. p = [q EXCEPT !.last_recv_packet = FALSE]
    BY <1>1 DEF Rjv3Priv
  <2> HIDE DEF q
  <2> QED BY <2>2, <2>3 DEF Rjv3Priv
<1>3. rjv3_reset_state(x) = y
  BY <1>1 DEF rjv3_reset_state, Memory, Rjv3Priv
<1> HIDE DEF p
<1>4. Mild(x, z, {})
  BY <1>2, PluginChanges
<1> HIDE DEF z
<1>5. Calm(z)
  BY <1>4, MildCalm
<1>6. Mild(z, y, {KeepAlive}) /\ ~y.plugin.echokey
  BY <1>5, KeepAliveResets
<1> HIDE DEF y
<1>7. Mild(x, y, {KeepAlive})
  BY <1>4, <1>6, MildTrans
<1> QED BY <1>3, <1>6, <1>7

LEMMA SessionStarts ==
    ASSUME RjPlugins, NEW x, Calm(x), NEW f \in Frames
    PROVE  Fine(x, session_starts(x, f))
<1> DEFINE y == process_result_prop(x, f)
           z == start_keepalive(y)
<1>1. session_starts(x, f) = IF f = "success_key" THEN z ELSE y
  BY DEF session_starts
<1>2. Mild(x, y, {}) /\ (y.plugin.echokey => x.plugin.echokey \/ f = "success_key")
  BY ResultProp
<1> HIDE DEF y
<1>3. CASE f = "success_key"
  <2>1. Calm(y)
    BY <1>2, MildCalm
  <2>2. Mild(y, z, {}) /\ Beating(z)
    BY <2>1, StartsKeepAlive
  <2> HIDE DEF z
  <2>3. Mild(x, z, {KeepAlive})
    BY <1>2, <2>2, MildTrans DEF Mild, Keeps
  <2>4. Fine(x, z)
    BY <2>2, <2>3, BeatingFine
  <2> QED BY <1>1, <1>3, <2>4
<1>4. CASE f # "success_key"
  BY <1>1, <1>2, <1>4, MildFine
<1> QED BY <1>3, <1>4

LEMMA RjSuccess ==
    ASSUME RjPlugins, NEW x, Calm(x), NEW f \in Frames \cap {"success", "success_key"}
    PROVE  Fine(x, rjv3_process_success(x, f))
<1> DEFINE count == Capped(x.plugin.succ_count, 2)
           p == [x.plugin EXCEPT !.succ_count = count]
           y == [x EXCEPT !.plugin = p]
           q == [y.plugin EXCEPT !.duplicated_packet = f]
           z == [y EXCEPT !.plugin = q]
           r == rjv3_reset_state(y)
<1>1. x.plugin \in Rjv3Priv /\ x \in Memory
  BY RjConstants DEF Calm
<1>2. count \in 0..2
  BY <1>1 DEF Rjv3Priv, Capped
<1>3. [x EXCEPT !.plugin.succ_count = Capped(@, 2)] = y
  BY <1>1 DEF Memory, Rjv3Priv
<1> HIDE DEF count
<1>4. p \in Rjv3Priv /\ p.echokey = x.plugin.echokey
  BY <1>1, <1>2 DEF Rjv3Priv
<1> HIDE DEF p
<1>5. Mild(x, y, {}) /\ y.plugin = p
  BY <1>4, PluginChanges
<1> HIDE DEF y
<1>6. Calm(y) /\ Running(y) /\ Fine(x, y) /\ y \in Memory
  BY <1>4, <1>5, MildCalm, MildFine DEF Calm
<1>7. Fine(x, session_starts(y, f))
  BY <1>6, SessionStarts, FineTrans
<1>8. [y EXCEPT !.plugin.duplicated_packet = f] = z
  BY <1>4, <1>5, <1>6 DEF Memory, Rjv3Priv
<1>9. Fine(x, rjv3_start_secondary_auth(z))
  <2>1. q \in Rjv3Priv /\ q.echokey = y.plugin.echokey
    BY <1>4, <1>5 DEF Rjv3Priv
  <2> HIDE DEF q
  <2>2. Mild(y, z, {}) /\ z.plugin = q
    BY <1>6, <2>1, PluginChanges
  <2> HIDE DEF z
  <2>3. Calm(z) /\ Running(z) /\ Fine(y, z)
    BY <1>6, <2>1, <2>2, MildCalm, MildFine DEF Calm
  <2>4. Fine(y, rjv3_start_secondary_auth(z))
    BY <2>3, Waits, FineTrans
  <2> QED BY <1>6, <2>4, FineTrans
<1>10. Fine(x, session_starts(r, f))
  <2>1. Mild(y, r, {KeepAlive}) /\ ~r.plugin.echokey
    BY <1>6, ResetsState
  <2> HIDE DEF r
  <2>2. Calm(r) /\ Running(r) /\ Fine(y, r)
    BY <1>6, <2>1, MildCalm, BeatingFine DEF Calm
  <2>3. Fine(y, session_starts(r, f))
    BY <2>2, SessionStarts, FineTrans
  <2> QED BY <1>6, <2>3, FineTrans
<1> QED BY <1>3, <1>7, <1>8, <1>9, <1>10 DEF rjv3_process_success

LEMMA RjFrame ==
    ASSUME RjPlugins, NEW x, Calm(x), NEW f \in Frames
    PROVE  Fine(x, rjv3_on_frame_received(x, f))
<1> DEFINE p == [x.plugin EXCEPT !.last_recv_packet = TRUE]
           y == [x EXCEPT !.plugin = p]
<1>1. x.plugin \in Rjv3Priv /\ x \in Memory
  BY RjConstants DEF Calm
<1>2. [x EXCEPT !.plugin.last_recv_packet = TRUE] = y
  BY <1>1 DEF Memory, Rjv3Priv
<1>3. p \in Rjv3Priv /\ p.echokey = x.plugin.echokey
  BY <1>1 DEF Rjv3Priv
<1> HIDE DEF p
<1>4. Mild(x, y, {}) /\ y.plugin = p
  BY <1>3, PluginChanges
<1> HIDE DEF y
<1>5. Calm(y) /\ Running(y) /\ Fine(x, y)
  BY <1>3, <1>4, MildCalm, MildFine DEF Calm
<1>6. f \in {"success", "success_key"} \cup {"failure"} \cup {"identity", "challenge", "other"}
  BY ConfigAssumption
<1>7. CASE f \in {"success", "success_key"}
  <2>1. rjv3_on_frame_received(x, f) = rjv3_process_success(y, f)
    BY <1>2, <1>7 DEF rjv3_on_frame_received
  <2>2. Fine(y, rjv3_process_success(y, f))
    BY <1>5, <1>7, RjSuccess
  <2> QED BY <1>5, <2>1, <2>2, FineTrans
<1>8. CASE f = "failure"
  <2> DEFINE r == rjv3_reset_state(y)
  <2>1. rjv3_on_frame_received(x, f) = r
    BY <1>2, <1>8 DEF rjv3_on_frame_received, rjv3_process_failure
  <2>2. Mild(y, r, {KeepAlive}) /\ ~r.plugin.echokey
    BY <1>5, ResetsState
  <2> HIDE DEF r
  <2>3. Fine(y, r)
    BY <2>2, BeatingFine
  <2> QED BY <1>5, <2>1, <2>3, FineTrans
<1>9. CASE f \in {"identity", "challenge", "other"}
  BY <1>2, <1>5, <1>9 DEF rjv3_on_frame_received
<1> QED BY <1>6, <1>7, <1>8, <1>9

\* What has been made of the memory when some plugins have been called.
Called(x) == {r \in [x : Memory, goes_on : BOOLEAN] : Fine(x, r.x)}

LEMMA Calling ==
    ASSUME RjPlugins, NEW x, Calm(x), NEW f \in Frames, NEW r \in Called(x), NEW name
    PROVE  call(r, name, f) \in Called(x)
<1> DEFINE y == rjv3_on_frame_received(r.x, f)
           s == [x |-> y, goes_on |-> ~rjv3_refuses(r.x, f)]
<1>1. r.x \in Memory /\ r.goes_on \in BOOLEAN /\ Fine(x, r.x)
  BY DEF Called
<1>2. CASE ~r.goes_on \/ ~Running(r.x)
  BY <1>2 DEF call
<1>3. CASE r.goes_on /\ Running(r.x) /\ name = "rjv3"
  <2>1. call(r, name, f) = s
    BY <1>3 DEF call
  <2>2. Calm(r.x)
    BY <1>1, <1>3 DEF Fine, Goes, Near, Over, Calm
  <2>3. Fine(r.x, y)
    BY <2>2, RjFrame
  <2> HIDE DEF y
  <2>4. Fine(x, y)
    BY <1>1, <1>3, <2>3, FineTrans
  <2>5. y \in Memory /\ rjv3_refuses(r.x, f) \in BOOLEAN
    BY <2>3 DEF Fine, Goes, Near, Over, rjv3_refuses
  <2> QED BY <2>1, <2>4, <2>5 DEF Called
<1>4. CASE r.goes_on /\ Running(r.x) /\ name # "rjv3"
  BY <1>1, <1>4 DEF call, printer_on_frame_received, Called
<1> QED BY <1>1, <1>2, <1>3, <1>4

CalledInTurn(x, f, n, g) ==
    g = [i \in 0..n |-> IF i = 0 THEN [x |-> x, goes_on |-> TRUE]
                        ELSE call(g[i - 1], ActivePlugins[i], f)]

LEMMA CallSteps ==
    ASSUME NEW x, NEW f, NEW n \in Nat, NEW g, NEW a, a = [x |-> x, goes_on |-> TRUE]
    PROVE  CalledInTurn(x, f, n, g) <=>
             /\ g = [i \in 0..n |-> g[i]] /\ g[0] = a
             /\ \A i \in 1..n : g[i] = call(g[i - 1], ActivePlugins[i], f)
<1> DEFINE e(i) == IF i = 0 THEN a ELSE call(g[i - 1], ActivePlugins[i], f)
<1>1. g = [i \in 0..n |-> e(i)] <=> g = [i \in 0..n |-> g[i]] /\ \A i \in 0..n : g[i] = e(i)
  <2> HIDE DEF e
  <2> QED OBVIOUS
<1>2. (\A i \in 0..n : g[i] = e(i)) <=>
        g[0] = a /\ \A i \in 1..n : g[i] = call(g[i - 1], ActivePlugins[i], f)
  OBVIOUS
<1> QED BY <1>1, <1>2 DEF CalledInTurn

LEMMA FramesShown ==
    ASSUME RjPlugins, NEW x, Calm(x), NEW f \in Frames
    PROVE  Fine(x, packet_plugin_on_frame_received(x, f))
<1> DEFINE n == Len(ActivePlugins)
           a == [x |-> x, goes_on |-> TRUE]
           T == Called(x)
           F == [i \in 1..n |-> [r \in T |-> call(r, ActivePlugins[i], f)]]
           h == CHOOSE g : CalledInTurn(x, f, n, g)
<1>1. n \in Nat /\ DOMAIN ActivePlugins = 1..n
  BY RjAssumption
<1>2. a \in T
  BY FineSelf DEF Called, Calm
<1>3. \A r \in T : \A name : call(r, name, f) \in T
  BY Calling
<1>4. packet_plugin_on_frame_received(x, f) = h[n].x
  BY Zenon DEF packet_plugin_on_frame_received, CalledInTurn
<1> HIDE DEF T, n, h
<1>5. /\ F \in [1..n -> [T -> T]]
      /\ \A r \in T, i \in 1..n : F[i][r] = call(r, ActivePlugins[i], f)
  BY <1>3
<1> HIDE DEF F
<1>6. \E g : CalledInTurn(x, f, n, g)
  <2> HIDE DEF a
  <2>0. PICK g : Iterated(n, T, a, F, g)
    BY <1>1, <1>2, <1>5, Iterates
  <2>1. g \in [0..n -> T] /\ g[0] = a /\ \A i \in 1..n : g[i] = F[i][g[i - 1]]
    BY <2>0 DEF Iterated
  <2>2. ASSUME NEW i \in 1..n PROVE g[i] = call(g[i - 1], ActivePlugins[i], f)
    <3>1. i - 1 \in 0..n /\ g[i - 1] \in T
      BY <1>1, <2>1
    <3> QED BY <1>5, <2>1, <3>1
  <2>3. CalledInTurn(x, f, n, g)
    BY <1>1, <2>1, <2>2, CallSteps DEF a
  <2> QED BY <2>3
<1>7. CalledInTurn(x, f, n, h)
  BY <1>6 DEF h
<1>8. h[0] = a /\ \A i \in 1..n : h[i] = call(h[i - 1], ActivePlugins[i], f)
  <2> DEFINE e(i) == IF i = 0 THEN a ELSE call(h[i - 1], ActivePlugins[i], f)
  <2>1. h = [i \in 0..n |-> e(i)]
    BY <1>7 DEF CalledInTurn
  <2>2. 0 \in 0..n /\ \A i \in 1..n : i \in 0..n /\ i # 0
    BY <1>1
  <2>3. \A i \in 0..n : h[i] = e(i)
    <3> HIDE DEF e
    <3> QED BY <2>1
  <2> HIDE DEF a
  <2> QED BY <2>2, <2>3
<1> DEFINE K == {i \in 0..n : h[i] \in T}
<1>9. K = 0..n
  <2> HIDE DEF a
  <2>1. K \in SUBSET (0..n) /\ 0 \in K
    BY <1>1, <1>2, <1>8
  <2>2. \A i \in 1..n : i - 1 \in K => i \in K
    BY <1>1, <1>3, <1>8
  <2> HIDE DEF K
  <2> QED BY <1>1, <2>1, <2>2, Induct
<1>10. h[n] \in T
  BY <1>1, <1>9
<1> QED BY <1>4, <1>10 DEF T, Called, n, h

LEMMA RjAlarms ==
    ASSUME RjPlugins, NEW x, Calm(x), NEW func \in Rjv3Alarms
    PROVE  LET y == rjv3_alarm(x, func) IN
           /\ Goes(x, y)
           /\ \A i \in Nat : Sound(x, i) => Sound(y, i)
           /\ \A i \in Nat : Needed(x, i, {func}) => Needed(y, i, {})
<1>1. CASE func = KeepAlive
  <2> DEFINE y == rjv3_send_keepalive_timed(x)
  <2>1. rjv3_alarm(x, func) = y
    BY <1>1 DEF rjv3_alarm, KeepAlive
  <2>2. Mild(x, y, {KeepAlive}) /\ Beating(y)
    BY Heartbeats
  <2> HIDE DEF y
  <2>3. Fine(x, y) /\ \A i \in Nat : Needed(y, i, {})
    BY <2>2, BeatingFine
  <2> QED BY <2>1, <2>3 DEF Fine
<1>2. CASE func # KeepAlive
  <2> DEFINE y == rjv3_start_secondary_auth(x)
  <2>1. rjv3_alarm(x, func) = y
    BY <1>2 DEF rjv3_alarm, KeepAlive
  <2>2. Fine(x, y)
    BY Waits
  <2> HIDE DEF y
  <2>3. x.plugin \in Rjv3Priv
    BY RjConstants DEF Calm
  <2>4. func \notin PluginNeeds(x.plugin)
    BY <1>2, <2>3 DEF RjPlugins
  <2>5. ASSUME NEW i \in Nat, Needed(x, i, {func}) PROVE Needed(x, i, {})
    BY <2>4, <2>5 DEF Needed
  <2> QED BY <2>1, <2>2, <2>5 DEF Fine
<1> QED BY <1>1, <1>2

LEMMA RjHooksKeep ==
    ASSUME RjPlugins
    PROVE  HooksKeep
<1>1. ASSUME NEW x \in Memory, NEW f \in Frames, Calm(x)
      PROVE  on_frame_received(x, f) = packet_plugin_on_frame_received(x, f)
             /\ Fine(x, packet_plugin_on_frame_received(x, f))
  BY <1>1, FramesShown DEF RjPlugins
<1>2. ASSUME NEW x \in Memory, NEW func \in PluginAlarms, Calm(x)
      PROVE  /\ Goes(x, plugin_alarm(x, func))
             /\ \A i \in Nat : Sound(x, i) => Sound(plugin_alarm(x, func), i)
             /\ \A i \in Nat : Needed(x, i, {func}) => Needed(plugin_alarm(x, func), i, {})
  <2>1. func \in Rjv3Alarms /\ plugin_alarm(x, func) = rjv3_alarm(x, func)
    BY DEF RjPlugins
  <2> QED BY <1>2, <2>1, RjAlarms
<1> QED BY <1>1, <1>2 DEF HooksKeep, Fine
-----------------------------------------------------------------------------
(* The theorems *)

\* rjv3 and the printer, in any order, keep the contract the state machine has with
\* its plugins: what is proved of it holds of the client with them.
THEOREM RjKeepsContract == RjPlugins => PluginsKeep
BY RjPacketsKeep, RjHooksKeep DEF PluginsKeep

LEMMA AddressKeeps ==
    ASSUME RjPlugins, WholeInv, AddressChanges
    PROVE  WholeInv'
<1> DEFINE address == ~m.plugin.address
           p == [m.plugin EXCEPT !.address = address]
<1>1. /\ InvAt(m, pc, frame, naps) /\ Running(m) /\ Sound(m, 0) /\ Needed(m, 0, {})
      /\ m \in Memory /\ Calm(m)
  BY InvIs DEF InvAt, Sound, Calm, AddressChanges
<1>2. m.plugin \in Rjv3Priv
  BY <1>1, RjConstants
<1>3. m' = [m EXCEPT !.plugin = p] /\ pc' = pc /\ frame' = frame /\ naps' = naps
  BY <1>1, <1>2 DEF AddressChanges, Memory, Rjv3Priv
<1>4. p \in Rjv3Priv /\ p.echokey = m.plugin.echokey
  BY <1>2 DEF Rjv3Priv
<1> HIDE DEF p
<1>5. Mild(m, m', {}) /\ m'.plugin = p
  BY <1>1, <1>3, <1>4, PluginChanges
<1>6. Fine(m, m')
  BY <1>1, <1>4, <1>5, MildFine
<1>7. Sound(m', 0) /\ Needed(m', 0, {})
  BY <1>1, <1>6 DEF Fine
<1>8. m'.logoff = m.logoff
  BY <1>1, <1>3 DEF Memory
<1>9. InvAt(m', pc, frame, naps)
  BY <1>1, <1>5, <1>7, <1>8 DEF InvAt, Mild, Near, Running
<1> QED BY <1>3, <1>9, InvIsAfter

\* The machine's invariant, and a heartbeat to come for an echo key, hold through
\* lost links, leases that come and go, failures and second authentications.
THEOREM RjInvariant == RjPlugins => (RjSpec => []WholeInv)
<1> SUFFICES ASSUME RjPlugins PROVE RjSpec => []WholeInv
  OBVIOUS
<1>0. PacketsKeep /\ HooksKeep
  BY RjPacketsKeep, RjHooksKeep
<1>1. Init => WholeInv
  BY <1>0, InitKeeps
<1>2. WholeInv /\ [RjNext]_vars => WholeInv'
  <2>1. WholeInv /\ [Next]_vars => WholeInv'
    BY <1>0, StepKeeps
  <2> QED BY <2>1, AddressKeeps DEF RjNext
<1> QED BY <1>1, <1>2, PTL DEF RjSpec

\* Once the server has given an echo key there is always a next heartbeat, until it
\* takes the session away or the process ends.
THEOREM HeartbeatsGoOn == RjPlugins => (RjSpec => []KeepAliveGoesOn)
<1> SUFFICES ASSUME RjPlugins PROVE RjSpec => []KeepAliveGoesOn
  OBVIOUS
<1>1. WholeInv => KeepAliveGoesOn
  <2> SUFFICES ASSUME WholeInv, Running(m), m.plugin.echokey
               PROVE  Pending(KeepAlive) # {}
    BY DEF KeepAliveGoesOn, KeepAlive
  <2>1. InvAt(m, pc, frame, naps)
    BY InvIs
  <2>2. Needed(m, 0, {}) /\ m \in Memory /\ m.add_temp = <<>>
    BY <2>1 DEF InvAt, Sound, ListsInOrder
  <2>3. m.plugin \in Rjv3Priv
    BY <2>2, RjConstants
  <2>4. KeepAlive \in PluginNeeds(m.plugin)
    BY <2>3 DEF RjPlugins
  <2>5. Held(m, 0, KeepAlive, FALSE)
    BY <2>2, <2>4 DEF Needed
  <2>6. PICK k \in DOMAIN m.alarm_list : m.alarm_list[k].func = KeepAlive
    BY <2>2, <2>5 DEF Held
  <2>7. m.alarm_list[k] \in Pending(KeepAlive)
    BY <2>6 DEF Pending, Range
  <2> QED BY <2>7
<1> QED BY <1>1, RjInvariant, PTL
=============================================================================
