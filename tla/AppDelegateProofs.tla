------------------------- MODULE AppDelegateProofs -------------------------
(* The safety of AppDelegate, for any number of failed probes that make a      *)
(* verdict.                                                                    *)
EXTENDS AppDelegate, TLAPS

-----------------------------------------------------------------------------
(* Verified and repaired: what a session may claim                             *)

Sound(s) == Wellformed(s) /\ SessionTracked(s)

LEMMA TrackingIsSound ==
    ASSUME NEW s, NEW view, Sound(s)
    PROVE  /\ Sound(resetConnectivityTracking(s))
           /\ Sound(markNetworkUnverified(s))
           /\ Sound(trackConnectivityOnline(s, view))
<1>1. Sound(resetConnectivityTracking(s))
  BY DEF resetConnectivityTracking, Sound, SessionTracked, Wellformed, Fields
<1>2. ASSUME NEW t, Sound(t) PROVE Sound(markNetworkUnverified(t))
  BY <1>2 DEF markNetworkUnverified, Sound, SessionTracked, Wellformed, Fields
<1>3. ASSUME NEW t, Sound(t) PROVE Sound(autoRepairIfStuck(t))
  BY <1>3 DEF autoRepairIfStuck, Sound, SessionTracked, Wellformed, Fields
<1>4. ASSUME NEW t, Sound(t)
      PROVE  /\ Sound([t EXCEPT !.since = "fresh"])
             /\ Sound([t EXCEPT !.inFlight = TRUE,
                         !.probes = @ \cup {[generation |-> "same", session |-> "this"]}])
  BY <1>4 DEF Sound, SessionTracked, Wellformed, Fields
<1>5. Sound(trackConnectivityOnline(s, view))
  BY <1>1, <1>2, <1>3, <1>4 DEF trackConnectivityOnline
<1> QED BY <1>1, <1>2, <1>5

LEMMA UpdatingIsSound ==
    ASSUME NEW s, NEW view, Sound(s)
    PROVE  Sound(updateStatus(s, view))
<1>1. Sound(handlePossibleUnexpectedExit(s, view.running))
  BY DEF handlePossibleUnexpectedExit, scheduleWakeReconnect, Sound, SessionTracked,
         Wellformed, Fields
<1>2. ASSUME NEW t, Sound(t), NEW a
      PROVE  Sound([t EXCEPT !.wasRunning = a])
  BY <1>2 DEF Sound, SessionTracked, Wellformed, Fields
<1> QED BY <1>1, <1>2, TrackingIsSound DEF updateStatus

\* An answer that still counts belongs to the session that is being tracked.
LEMMA AnswersAreSound ==
    ASSUME NEW s, NEW probe, NEW reachable, NEW view, Sound(s), probe.session = "this"
    PROVE  Sound(handleProbeResult(s, probe, reachable, view))
<1>1. Sound([s EXCEPT !.verified = TRUE, !.failures = 0, !.repairUsed = FALSE, !.repairs = 0,
                      !.proved = s.proved \/ probe.session = "this"])
  <2> DEFINE p == s.proved \/ probe.session = "this"
  <2>1. p
    OBVIOUS
  <2> HIDE DEF p
  <2>2. Sound([s EXCEPT !.verified = TRUE, !.failures = 0, !.repairUsed = FALSE,
                        !.repairs = 0, !.proved = p])
    BY <2>1 DEF Sound, SessionTracked, Wellformed, Fields
  <2> QED BY <2>2 DEF p
<1>2. Sound([s EXCEPT !.failures = @ + 1])
  BY DEF Sound, SessionTracked, Wellformed, Fields
<1> QED BY <1>1, <1>2, TrackingIsSound, UpdatingIsSound DEF handleProbeResult

LEMMA JobsAreSound ==
    ASSUME NEW s, NEW view, Sound(s), NEW a, NEW b
    PROVE  /\ Sound(startAuthWithNetworkRepair(s, a, b, view))
           /\ Sound(stopAuthThenQuit(s, a, b, view))
           /\ Sound(applicationShouldTerminate(s, view))
           /\ Sound(startDone(s, view))
           /\ Sound(stopDone(s, view))
<1>1. ASSUME NEW t, Sound(t)
      PROVE  Sound(startAuthWithNetworkRepair(t, a, b, view))
  <2> DEFINE w == [t EXCEPT !.wants = TRUE, !.overlapped = @ \/ t.stopping]
             j == [w EXCEPT !.start = Job(FALSE), !.password = TRUE, !.owed = FALSE]
  <2>1. Sound(w) /\ Sound([w EXCEPT !.owed = FALSE]) /\ Sound(j) /\ Sound([j EXCEPT !.starting = TRUE])
    BY <1>1 DEF Sound, SessionTracked, Wellformed, Fields, Job, JobFields
  <2> HIDE DEF w, j
  <2>2. Sound(markStarting(j, view))
    BY <2>1, TrackingIsSound, UpdatingIsSound DEF markStarting
  <2> QED BY <1>1, <2>1, <2>2, UpdatingIsSound DEF startAuthWithNetworkRepair, w, j
<1>2. ASSUME NEW t, Sound(t), NEW c, NEW d
      PROVE  Sound(stopAuthThenQuit(t, c, d, view))
  <2>1. /\ Sound([t EXCEPT !.wants = FALSE])
        /\ Sound([t EXCEPT !.stopRequested = TRUE, !.terminating = @ \/ c])
    BY <1>2 DEF Sound, SessionTracked, Wellformed, Fields
  <2>2. ASSUME NEW u, Sound(u)
        PROVE  /\ Sound([u EXCEPT !.terminating = TRUE, !.alive = FALSE])
               /\ Sound([u EXCEPT !.stopping = TRUE, !.stop = Job(c)])
    BY <2>2 DEF Sound, SessionTracked, Wellformed, Fields, Job, JobFields
  <2> QED BY <1>2, <2>1, <2>2, UpdatingIsSound DEF stopAuthThenQuit
<1>3. ASSUME NEW t, Sound(t)
      PROVE  Sound(applicationShouldTerminate(t, view))
  <2>1. Sound([t EXCEPT !.alive = FALSE])
    BY <1>3 DEF Sound, SessionTracked, Wellformed, Fields
  <2> QED BY <1>2, <1>3, <2>1 DEF applicationShouldTerminate
<1>4. Sound(startDone(s, view))
  <2>1. Sound([s EXCEPT !.starting = FALSE, !.wasRunning = s.start.seen, !.start = Idle,
                        !.stopRequested = FALSE])
    BY DEF Sound, SessionTracked, Wellformed, Fields, Idle, JobFields
  <2>2. ASSUME NEW t, Sound(t) PROVE Sound([t EXCEPT !.wants = FALSE])
    BY <2>2 DEF Sound, SessionTracked, Wellformed, Fields
  <2> QED BY <1>2, <2>1, <2>2, UpdatingIsSound DEF startDone
<1>5. Sound(stopDone(s, view))
  <2>1. Sound([s EXCEPT !.stopping = FALSE, !.stop = Idle])
    BY DEF Sound, SessionTracked, Wellformed, Fields, Idle, JobFields
  <2>2. ASSUME NEW t, Sound(t), NEW c, NEW d
        PROVE  Sound([t EXCEPT !.terminating = c, !.quit = d]) /\ Sound([t EXCEPT !.quit = d])
    BY <2>2 DEF Sound, SessionTracked, Wellformed, Fields
  <2> QED BY <1>3, <2>1, <2>2, UpdatingIsSound DEF stopDone
<1> QED BY <1>1, <1>2, <1>3, <1>4, <1>5

\* A step that is not about a session changes none of the fields of one.
LEMMA OthersAreSound ==
    ASSUME NEW s, Sound(s), NEW v
    PROVE  /\ Sound([s EXCEPT !.wants = v])     /\ Sound([s EXCEPT !.asleep = v])
           /\ Sound([s EXCEPT !.justWoke = v])  /\ Sound([s EXCEPT !.poweringOff = v])
           /\ Sound([s EXCEPT !.owed = v])      /\ Sound([s EXCEPT !.inFlight = v])
           /\ Sound([s EXCEPT !.pending = v])   /\ Sound([s EXCEPT !.since = v])
           /\ Sound([s EXCEPT !.quit = v])      /\ Sound([s EXCEPT !.reconnectOnWake = v])
           /\ Sound(scheduleWakeReconnect(s))
           /\ \A probe : Sound([s EXCEPT !.probes = @ \ {probe}])
BY DEF Sound, SessionTracked, Wellformed, Fields, scheduleWakeReconnect

LEMMA SoundStep ==
    ASSUME Sound(app), [Next]_vars
    PROVE  Sound(app')
<1>1. Sound(Now)
  BY DEF Now, Sound, SessionTracked, Wellformed, Fields
<1>2. \A name : Sound(Taken(name))
  BY <1>1, OthersAreSound DEF Taken
<1> DEFINE asked == [Now EXCEPT !.repairUsed = FALSE, !.repairs = 0, !.quit = "no", !.owed = FALSE]
           unasked == [Now EXCEPT !.owed = FALSE]
           quitting == [Now EXCEPT !.quit = IF app.stopping THEN "late" ELSE "asked", !.owed = FALSE]
           off == [Now EXCEPT !.poweringOff = TRUE]
           awake == [Now EXCEPT !.asleep = FALSE, !.justWoke = TRUE]
<1>3. Sound(asked) /\ Sound(unasked) /\ Sound(quitting) /\ Sound(off) /\ Sound(awake)
  BY <1>1 DEF Sound, SessionTracked, Wellformed, Fields
<1>4. CASE Tick
  BY <1>4, <1>1, UpdatingIsSound DEF Tick, Handled
<1>5. CASE ProbeAnswers
  <2> DEFINE left(probe) == [Now EXCEPT !.probes = @ \ {probe}]
  <2>1. PICK probe \in app.probes, reachable \in BOOLEAN, view \in Views :
          app' = IF probe.generation = "old" THEN left(probe)
                 ELSE handleProbeResult([left(probe) EXCEPT !.inFlight = FALSE],
                                        probe, reachable, view)
    BY <1>5 DEF ProbeAnswers, Handled
  <2>2. Sound(left(probe)) /\ Sound([left(probe) EXCEPT !.inFlight = FALSE])
    BY <1>1 DEF Sound, SessionTracked, Wellformed, Fields
  <2>3. probe.generation = "old" \/ probe.session = "this"
    BY DEF Sound, SessionTracked
  <2> HIDE DEF left
  <2>4. CASE probe.generation = "old"
    BY <2>1, <2>2, <2>4
  <2>5. CASE probe.generation # "old"
    BY <2>1, <2>2, <2>3, <2>5, AnswersAreSound
  <2> QED BY <2>4, <2>5
<1>6. CASE User
  <2>1. PICK a, b, view \in BOOLEAN \cup Views :
           \/ app' = startAuthWithNetworkRepair(asked, a, b, view)
           \/ app' = stopAuthThenQuit(unasked, a, b, view)
           \/ app' = stopAuthThenQuit(quitting, a, b, view)
    BY <1>6 DEF User, startAuth, stopAuth, repairAndReconnect, quit, Handled
  <2> HIDE DEF asked, unasked, quitting
  <2>2. ASSUME NEW s, Sound(s)
        PROVE  /\ Sound(startAuthWithNetworkRepair(s, a, b, view))
               /\ Sound(stopAuthThenQuit(s, a, b, view))
    BY <2>2, JobsAreSound
  <2> QED BY <1>3, <2>1, <2>2
<1>7. CASE System
  <2>1. CASE systemWillPowerOff
    <3>1. \E view : app' = applicationShouldTerminate(off, view)
      BY <2>1 DEF systemWillPowerOff, Handled
    <3> HIDE DEF off
    <3> QED BY <1>3, <3>1, JobsAreSound
  <2>2. CASE systemDidWake
    <3>1. PICK view : \/ app' = updateStatus(awake, view)
                      \/ app' = scheduleWakeReconnect(
                                   [updateStatus(awake, view) EXCEPT !.reconnectOnWake = FALSE])
      BY <2>2 DEF systemDidWake, Handled
    <3> HIDE DEF awake
    <3>2. Sound(updateStatus(awake, view))
      BY <1>3, UpdatingIsSound
    <3>3. ASSUME NEW s, Sound(s)
          PROVE  Sound(scheduleWakeReconnect([s EXCEPT !.reconnectOnWake = FALSE]))
      BY <3>3 DEF Sound, SessionTracked, Wellformed, Fields, scheduleWakeReconnect
    <3> QED BY <3>1, <3>2, <3>3
  <2>3. CASE systemWillSleep \/ GracePasses \/ MinutePasses
    BY <2>3, <1>1 DEF systemWillSleep, GracePasses, MinutePasses, Handled,
         Sound, SessionTracked, Wellformed, Fields
  <2> QED BY <1>7, <2>1, <2>2, <2>3 DEF System
<1>8. CASE Blocks
  <2>1. CASE autoStartIfNeeded
    <3> DEFINE s == [Taken("autostart") EXCEPT !.wants = TRUE]
    <3>1. Sound(s)
      BY <1>2, OthersAreSound
    <3> HIDE DEF s
    <3>2. Sound([s EXCEPT !.pending = @ \cup {"retry"}])
      BY <3>1, OthersAreSound
    <3> QED BY <2>1, <3>1, <3>2, UpdatingIsSound DEF autoStartIfNeeded, Handled, s
  <2>2. CASE autoStartWhenLinkReady \/ autoRepair \/ wakeReconnect
    BY <2>2, <1>1, <1>2, JobsAreSound DEF autoStartWhenLinkReady, autoRepair, wakeReconnect, Handled
  <2> QED BY <1>8, <2>1, <2>2 DEF Blocks
<1>9. CASE Starting
  <2>1. CASE StartRefused \/ StartKillsOld \/ StartLaunches \/ waitForMiniEAPRunning
    <3>1. CASE StartRefused
      BY <3>1, <1>1 DEF StartRefused, Handled, Sound, SessionTracked, Wellformed, Fields, JobFields
    <3>2. CASE StartKillsOld
      BY <3>2, <1>1 DEF StartKillsOld, Sound, SessionTracked, Wellformed, Fields, JobFields
    <3>3. CASE StartLaunches
      BY <3>3, <1>1 DEF StartLaunches, Sound, SessionTracked, Wellformed, Fields, JobFields
    <3>4. CASE waitForMiniEAPRunning
      BY <3>4, <1>1 DEF waitForMiniEAPRunning, Handled, Sound, SessionTracked, Wellformed, Fields,
                        JobFields
    <3> QED BY <2>1, <3>1, <3>2, <3>3, <3>4
  <2>2. CASE StartDone
    BY <2>2, <1>1, JobsAreSound DEF StartDone, Handled
  <2> QED BY <1>9, <2>1, <2>2 DEF Starting
<1>10. CASE Stopping
  <2>1. CASE StopRefused \/ StopKills \/ waitForMiniEAPStopped
    <3>1. CASE StopRefused
      BY <3>1, <1>1 DEF StopRefused, Handled, Sound, SessionTracked, Wellformed, Fields
    <3>2. CASE StopKills
      BY <3>2, <1>1 DEF StopKills, Handled, Sound, SessionTracked, Wellformed, Fields
    <3>3. CASE waitForMiniEAPStopped
      BY <3>3, <1>1 DEF waitForMiniEAPStopped, Handled, Sound, SessionTracked, Wellformed, Fields
    <3> QED BY <2>1, <3>1, <3>2, <3>3
  <2>2. CASE StopDone
    BY <2>2, <1>1, JobsAreSound DEF StopDone, Handled
  <2> QED BY <1>10, <2>1, <2>2 DEF Stopping
<1>11. CASE Minieap
  BY <1>11, <1>1 DEF Minieap, GoesOnline, GoesOffline, ExitsByItself, Sound, SessionTracked,
       Wellformed, Fields
<1>12. CASE UNCHANGED vars
  BY <1>12 DEF vars
<1> QED
  BY <1>4, <1>5, <1>6, <1>7, <1>8, <1>9, <1>10, <1>11, <1>12 DEF Next

\* The network is verified only by the session's own probes, and one repair is made
\* until the network works or the user asks.
THEOREM SessionsAreSound == Spec => [](Wellformed(app) /\ SessionTracked(app))
<1>1. Init => Sound(app)
  BY DEF Init, Sound, Wellformed, SessionTracked, Fields, JobFields, Idle
<1>2. Sound(app) /\ [Next]_vars => Sound(app)'
  BY SoundStep
<1> QED BY <1>1, <1>2, PTL DEF Spec, Sound

\* For any number of failures that make a verdict: no second automatic repair before
\* the network has worked or the user has asked for a connection.
THEOREM OneRepair == Spec => []RepairedOnce
<1>1. Wellformed(app) /\ SessionTracked(app) => RepairedOnce
  BY DEF Wellformed, SessionTracked, RepairedOnce
<1> QED BY <1>1, SessionsAreSound, PTL

\* An answer that comes too late never verifies the next session.
THEOREM VerifiedByOwnProbe == Spec => []VerifiedThisSession
<1>1. SessionTracked(app) => VerifiedThisSession
  BY DEF SessionTracked, VerifiedThisSession
<1> QED BY <1>1, SessionsAreSound, PTL
-----------------------------------------------------------------------------
(* The alarm: what the handlers make of an exit                                *)

Explained(s, running, by) ==
    Wellformed(s) /\ JobsFlagged(s) /\ ExitsExplained(s, running, by)

\* What holds of the state a handler gives to updateStatus: the end of a job may have
\* just been recorded, and the process not yet looked at.
Unseen(s, running, by) ==
    /\ Wellformed(s) /\ JobsFlagged(s) /\ s.alive
    /\ s.told => by = "itself" \/ s.overlapped
    /\ s.wasRunning /\ ~running /\ s.wants /\ ~s.starting /\ ~s.stopping
         => by = "itself" \/ s.overlapped
    /\ s.start.phase = "done" /\ s.start.seen /\ ~running => by = "itself" \/ s.overlapped

\* What a handler sees says rightly whether minieap runs.
LEMMA ViewsAreTrue ==
    ASSUME NEW view \in Views
    PROVE  view.running = (proc # "none")
<1>1. Offline.running = (proc # "none")
  BY DEF Offline
<1>2. /\ [Offline EXCEPT !.online = TRUE].running = (proc # "none")
      /\ [Offline EXCEPT !.online = TRUE, !.address = TRUE].running = (proc # "none")
      /\ [Offline EXCEPT !.online = TRUE, !.address = TRUE, !.due = TRUE].running = (proc # "none")
  BY DEF Offline
<1> QED BY <1>1, <1>2 DEF Views

LEMMA TrackingExplains ==
    ASSUME NEW s, NEW view, NEW r, NEW by, Explained(s, r, by)
    PROVE  /\ Explained(resetConnectivityTracking(s), r, by)
           /\ Explained(trackConnectivityOnline(s, view), r, by)
           /\ trackConnectivityOnline(s, view).pending \subseteq s.pending \cup {"repair"}
           /\ \A t \in {resetConnectivityTracking(s), markNetworkUnverified(s),
                        trackConnectivityOnline(s, view)} : t.alive = s.alive
<1> DEFINE Same(t, u) == /\ Explained(t, r, by) /\ t.alive = u.alive
                         /\ t.pending \subseteq u.pending \cup {"repair"}
<1>1. ASSUME NEW t, Explained(t, r, by) PROVE Same(resetConnectivityTracking(t), t)
  BY <1>1 DEF resetConnectivityTracking, Explained, ExitsExplained, JobsFlagged, Wellformed, Fields
<1>2. ASSUME NEW t, Explained(t, r, by) PROVE Same(markNetworkUnverified(t), t)
  BY <1>2 DEF markNetworkUnverified, Explained, ExitsExplained, JobsFlagged, Wellformed, Fields
<1>3. ASSUME NEW t, Explained(t, r, by) PROVE Same(autoRepairIfStuck(t), t)
  BY <1>3 DEF autoRepairIfStuck, Explained, ExitsExplained, JobsFlagged, Wellformed, Fields
<1>4. ASSUME NEW t, Explained(t, r, by)
      PROVE  /\ Same([t EXCEPT !.since = "fresh"], t)
             /\ Same([t EXCEPT !.inFlight = TRUE,
                         !.probes = @ \cup {[generation |-> "same", session |-> "this"]}], t)
  BY <1>4 DEF Explained, ExitsExplained, JobsFlagged, Wellformed, Fields
<1> HIDE DEF Same
<1>5. /\ \A t, u : Same(t, u) => Explained(t, r, by)
      /\ \A t, u, w : Same(t, u) /\ Same(u, w) => Same(t, w)
      /\ Same(s, s)
  BY DEF Same
<1>6. Same(trackConnectivityOnline(s, view), s)
  <2> DEFINE opened == IF s.since = "none" THEN [s EXCEPT !.since = "fresh"] ELSE s
             probing == [opened EXCEPT !.inFlight = TRUE,
                           !.probes = @ \cup {[generation |-> "same", session |-> "this"]}]
             probed == IF ~view.address THEN markNetworkUnverified(opened)
                       ELSE IF ~s.inFlight /\ (~s.verified \/ view.due) THEN probing ELSE opened
  <2>1. Same(opened, s)
    BY <1>4, <1>5
  <2>2. Same(probing, opened) /\ Same(markNetworkUnverified(opened), opened)
    <3> HIDE DEF opened
    <3> QED BY <1>2, <1>4, <1>5, <2>1
  <2>3. Same(probed, s)
    <3> HIDE DEF opened, probing
    <3> QED BY <1>5, <2>1, <2>2
  <2>4. Same(autoRepairIfStuck(probed), s)
    <3> HIDE DEF probed
    <3> QED BY <1>3, <1>5, <2>3
  <2>5. trackConnectivityOnline(s, view) =
          IF view.online THEN autoRepairIfStuck(probed)
          ELSE IF s.since = "none" THEN s ELSE resetConnectivityTracking(s)
    BY DEF trackConnectivityOnline
  <2> HIDE DEF probed
  <2> QED BY <1>1, <1>5, <2>4, <2>5
<1> QED BY <1>1, <1>2, <1>6 DEF Same

\* A look at the process leaves nothing unexplained: an alert is raised only when minieap
\* went away with no job under way and a connection wanted.
LEMMA UpdatingExplains ==
    ASSUME NEW s, NEW view, NEW by, Unseen(s, view.running, by)
    PROVE  /\ Explained(updateStatus(s, view), view.running, by)
           /\ updateStatus(s, view).alive
           /\ updateStatus(s, view).pending \subseteq s.pending \cup {"repair", "wake"}
<1> DEFINE r == view.running
           h == handlePossibleUnexpectedExit(s, r)
           t == [h EXCEPT !.wasRunning = r]
<1>1. /\ Wellformed(h) /\ JobsFlagged(h) /\ h.alive
      /\ h.pending \subseteq s.pending \cup {"wake"}
      /\ h.told => by = "itself" \/ h.overlapped
      /\ h.start.phase = "done" /\ h.start.seen /\ ~r => by = "itself" \/ h.overlapped
  BY DEF handlePossibleUnexpectedExit, scheduleWakeReconnect, Unseen, JobsFlagged, Wellformed, Fields
<1> HIDE DEF h, r
<1>2. Explained(t, r, by) /\ t.alive /\ t.pending \subseteq s.pending \cup {"wake"}
  BY <1>1 DEF Explained, ExitsExplained, JobsFlagged, Wellformed, Fields
<1>3. t = [handlePossibleUnexpectedExit(s, view.running) EXCEPT !.wasRunning = view.running]
  BY DEF h, r
<1> HIDE DEF t
<1>4. /\ Explained(trackConnectivityOnline(t, view), r, by)
      /\ trackConnectivityOnline(t, view).alive
      /\ trackConnectivityOnline(t, view).pending \subseteq s.pending \cup {"repair", "wake"}
  BY <1>2, TrackingExplains
<1> DEFINE u == IF t.starting \/ t.stopping THEN t ELSE trackConnectivityOnline(t, view)
<1>5. Explained(u, r, by) /\ u.alive /\ u.pending \subseteq s.pending \cup {"repair", "wake"}
  BY <1>2, <1>4
<1>6. updateStatus(s, view) = u
  BY <1>3 DEF updateStatus
<1> HIDE DEF u
<1> QED BY <1>5, <1>6 DEF r

LEMMA Looking ==
    ASSUME NEW s, NEW view, NEW by, Explained(s, view.running, by), s.alive
    PROVE  /\ Unseen(s, view.running, by)
           /\ Explained(updateStatus(s, view), view.running, by)
           /\ updateStatus(s, view).pending \subseteq s.pending \cup {"repair", "wake"}
<1>1. Unseen(s, view.running, by)
  BY DEF Unseen, Explained, ExitsExplained
<1> QED BY <1>1, UpdatingExplains

LEMMA StartingExplains ==
    ASSUME NEW s, NEW repairNetwork, NEW ready, NEW view, NEW by,
           Explained(s, view.running, by), s.alive, "autostart" \notin s.pending
    PROVE  Explained(startAuthWithNetworkRepair(s, repairNetwork, ready, view), view.running, by)
<1> DEFINE t == [s EXCEPT !.wants = TRUE, !.overlapped = @ \/ s.stopping]
           j == [t EXCEPT !.start = Job(FALSE), !.password = TRUE, !.owed = FALSE]
           m == [j EXCEPT !.starting = TRUE]
           Fine(u) == Explained(u, view.running, by) /\ u.alive
<1>1. Fine(t) /\ Fine([t EXCEPT !.owed = FALSE])
  BY DEF Explained, ExitsExplained, JobsFlagged, Wellformed, Fields
<1>2. ~s.starting => Fine(m)
  BY DEF Explained, ExitsExplained, JobsFlagged, Wellformed, Fields, Job, JobFields
<1>3. markStarting(j, view) = updateStatus(resetConnectivityTracking(m), view)
  BY DEF markStarting
<1>4. startAuthWithNetworkRepair(s, repairNetwork, ready, view) =
        IF s.starting THEN s
        ELSE IF ~repairNetwork /\ view.running THEN updateStatus(t, view)
        ELSE IF ~ready THEN [t EXCEPT !.owed = FALSE]
        ELSE markStarting(j, view)
  BY DEF startAuthWithNetworkRepair
<1> HIDE DEF t, j, m
<1>5. ~s.starting => Explained(markStarting(j, view), view.running, by)
  <2> DEFINE q == resetConnectivityTracking(m)
  <2>1. ~s.starting => Explained(q, view.running, by)
    BY <1>2, TrackingExplains
  <2>2. ~s.starting => q.alive
    BY <1>2 DEF resetConnectivityTracking, Explained, Wellformed, Fields
  <2> HIDE DEF q
  <2>3. ~s.starting => Explained(updateStatus(q, view), view.running, by)
    BY <2>1, <2>2, Looking
  <2> QED BY <1>3, <2>3 DEF q
<1>6. Explained(updateStatus(t, view), view.running, by)
  BY <1>1, Looking
<1> QED BY <1>1, <1>4, <1>5, <1>6

LEMMA StoppingExplains ==
    ASSUME NEW s, NEW quitAfterStop, NEW force, NEW view, NEW by,
           Unseen(s, view.running, by), "autostart" \notin s.pending
    PROVE  Explained(stopAuthThenQuit(s, quitAfterStop, force, view), view.running, by)
<1> DEFINE unwanted == [s EXCEPT !.wants = FALSE]
           r == view.running
           a == [s EXCEPT !.stopRequested = TRUE, !.terminating = @ \/ quitAfterStop]
           b == [unwanted EXCEPT !.terminating = TRUE, !.alive = FALSE]
           c == [unwanted EXCEPT !.stopping = TRUE, !.stop = Job(quitAfterStop)]
<1>1. s.stopping => Explained(s, r, by)
  BY DEF Unseen, Explained, ExitsExplained
<1>2. Unseen(a, r, by) /\ Unseen(unwanted, r, by)
  BY DEF Unseen, JobsFlagged, Wellformed, Fields
<1>3. Explained(b, r, by)
  BY DEF Unseen, Explained, ExitsExplained, JobsFlagged, Wellformed, Fields
<1>4. ~s.starting => Unseen(c, r, by)
  BY DEF Unseen, JobsFlagged, Wellformed, Fields, Job, JobFields
<1>5. stopAuthThenQuit(s, quitAfterStop, force, view) =
        IF s.stopping THEN s
        ELSE IF s.starting THEN updateStatus(a, view)
        ELSE IF ~force /\ ~view.running
        THEN IF quitAfterStop THEN b ELSE updateStatus(unwanted, view)
        ELSE updateStatus(c, view)
  BY DEF stopAuthThenQuit
<1> HIDE DEF unwanted, a, b, c
<1>6. Explained(updateStatus(a, view), r, by) /\ Explained(updateStatus(unwanted, view), r, by)
  BY <1>2, UpdatingExplains
<1>7. ~s.starting => Explained(updateStatus(c, view), r, by)
  BY <1>4, UpdatingExplains
<1> QED BY <1>1, <1>3, <1>5, <1>6, <1>7

LEMMA TerminatingExplains ==
    ASSUME NEW s, NEW view, NEW by,
           Unseen(s, view.running, by), "autostart" \notin s.pending \/ s.poweringOff
    PROVE  Explained(applicationShouldTerminate(s, view), view.running, by)
<1>1. Explained([s EXCEPT !.alive = FALSE], view.running, by)
  BY DEF Unseen, Explained, ExitsExplained, JobsFlagged, Wellformed, Fields
<1> QED BY <1>1, StoppingExplains DEF applicationShouldTerminate

\* The block of a start knows whether the process was seen, the one of a stop that
\* nothing is wanted unless a start has overlapped with it.
LEMMA BlocksExplain ==
    ASSUME NEW s, NEW view, NEW by, Explained(s, view.running, by), s.alive
    PROVE  /\ s.start.phase = "done" => Explained(startDone(s, view), view.running, by)
           /\ s.stop.phase = "done" => Explained(stopDone(s, view), view.running, by)
<1> DEFINE r == view.running
<1>1. ASSUME s.start.phase = "done"
      PROVE  Explained(startDone(s, view), r, by)
  <2> DEFINE t == [s EXCEPT !.starting = FALSE, !.wasRunning = s.start.seen, !.start = Idle,
                            !.stopRequested = FALSE]
             w == [t EXCEPT !.wants = FALSE]
  <2>1. Unseen(t, r, by) /\ "autostart" \notin t.pending
    BY <1>1 DEF Unseen, Explained, ExitsExplained, JobsFlagged, Wellformed, Fields, Idle, JobFields
  <2>2. Unseen(w, r, by)
    <3> HIDE DEF t
    <3> QED BY <2>1 DEF Unseen, JobsFlagged, Wellformed, Fields
  <2>3. startDone(s, view) = IF s.stopRequested THEN stopAuthThenQuit(t, s.terminating, TRUE, view)
                             ELSE IF s.start.seen THEN updateStatus(t, view)
                             ELSE updateStatus(w, view)
    BY DEF startDone
  <2> HIDE DEF t, w
  <2>4. Explained(stopAuthThenQuit(t, s.terminating, TRUE, view), r, by)
    BY <2>1, StoppingExplains
  <2> QED BY <2>1, <2>2, <2>3, <2>4, UpdatingExplains
<1>2. ASSUME s.stop.phase = "done"
      PROVE  Explained(stopDone(s, view), r, by)
  <2> DEFINE t == [s EXCEPT !.stopping = FALSE, !.stop = Idle]
             a == [t EXCEPT !.terminating = FALSE, !.quit = "no"]
             b == [t EXCEPT !.terminating = TRUE, !.quit = IF @ = "late" THEN "asked" ELSE @]
             c == [t EXCEPT !.quit = IF @ = "late" THEN "dropped" ELSE @]
  <2>1. Unseen(t, r, by) /\ "autostart" \notin t.pending
    BY <1>2 DEF Unseen, Explained, ExitsExplained, JobsFlagged, Wellformed, Fields, Idle, JobFields
  <2>2. /\ Unseen(a, r, by) /\ Unseen(c, r, by)
        /\ Unseen(b, r, by) /\ "autostart" \notin b.pending
    <3> HIDE DEF t
    <3> QED BY <2>1 DEF Unseen, JobsFlagged, Wellformed, Fields
  <2>3. stopDone(s, view) = IF ~s.stop.seen \/ ~s.stop.ok THEN updateStatus(a, view)
                            ELSE IF s.stop.quit THEN applicationShouldTerminate(b, view)
                            ELSE updateStatus(c, view)
    BY DEF stopDone
  <2> HIDE DEF a, b, c
  <2> QED BY <2>2, <2>3, TerminatingExplains, UpdatingExplains
<1> QED BY <1>1, <1>2

\* The handlers as the main thread runs them: minieap is what they see, and does not
\* change meanwhile.
Fine(s) == Explained(s, proc # "none", ended) /\ s.alive

LEMMA HandlersExplain ==
    ASSUME NEW view \in Views, NEW s, Fine(s), NEW a, NEW b
    PROVE  /\ Explained(updateStatus(s, view), proc # "none", ended)
           /\ updateStatus(s, view).pending \subseteq s.pending \cup {"repair", "wake"}
           /\ "autostart" \notin s.pending =>
                /\ Explained(startAuthWithNetworkRepair(s, a, b, view), proc # "none", ended)
                /\ Explained(stopAuthThenQuit(s, a, b, view), proc # "none", ended)
           /\ s.poweringOff =>
                Explained(applicationShouldTerminate(s, view), proc # "none", ended)
           /\ s.start.phase = "done" => Explained(startDone(s, view), proc # "none", ended)
           /\ s.stop.phase = "done" => Explained(stopDone(s, view), proc # "none", ended)
<1>1. view.running = (proc # "none")
  BY ViewsAreTrue
<1>2. Explained(s, view.running, ended) /\ s.alive
  BY <1>1 DEF Fine
<1>3. Unseen(s, view.running, ended)
  BY <1>2, Looking
<1>4. /\ Explained(updateStatus(s, view), view.running, ended)
      /\ updateStatus(s, view).pending \subseteq s.pending \cup {"repair", "wake"}
  BY <1>2, Looking
<1>5. "autostart" \notin s.pending =>
        /\ Explained(startAuthWithNetworkRepair(s, a, b, view), view.running, ended)
        /\ Explained(stopAuthThenQuit(s, a, b, view), view.running, ended)
  BY <1>2, <1>3, StartingExplains, StoppingExplains
<1>6. s.poweringOff => Explained(applicationShouldTerminate(s, view), view.running, ended)
  BY <1>3, TerminatingExplains
<1>7. /\ s.start.phase = "done" => Explained(startDone(s, view), view.running, ended)
      /\ s.stop.phase = "done" => Explained(stopDone(s, view), view.running, ended)
  BY <1>2, BlocksExplain
<1> QED BY <1>1, <1>4, <1>5, <1>6, <1>7

LEMMA ExplainedStep ==
    ASSUME Explained(app, proc # "none", ended), [Next]_vars
    PROVE  Explained(app', proc' # "none", ended')
<1> DEFINE Ok == Explained(app', proc' # "none", ended')
           OkNow(s) == Explained(s, proc # "none", ended)
<1>1. /\ OkNow(Now) /\ Now.alive = app.alive /\ Now.pending = app.pending
      /\ Now.asleep = app.asleep /\ Now.start = app.start /\ Now.stop = app.stop
      /\ Now.starting = app.starting /\ Now.stopping = app.stopping /\ Now.told = FALSE
  BY DEF Now, Explained, ExitsExplained, JobsFlagged, Wellformed, Fields
<1>2. ASSUME NEW s, OkNow(s), Handled(s) PROVE Ok
  BY <1>2 DEF Handled
<1>3. ASSUME NEW name, name \in app.pending, Runs
      PROVE  Fine(Taken(name)) /\ Taken(name).pending = app.pending \ {name}
  BY <1>1, <1>3 DEF Taken, Runs, Fine, Explained, ExitsExplained, JobsFlagged, Wellformed, Fields
<1>4. CASE Tick
  BY <1>4, <1>1, <1>2, HandlersExplain DEF Tick, Runs, Fine
<1>5. CASE ProbeAnswers
  <2>1. PICK probe \in app.probes, reachable \in BOOLEAN, view \in Views :
          LET left == [Now EXCEPT !.probes = @ \ {probe}]
          IN  Handled(IF probe.generation = "old" THEN left
                      ELSE handleProbeResult([left EXCEPT !.inFlight = FALSE],
                                             probe, reachable, view))
    BY <1>5 DEF ProbeAnswers
  <2> DEFINE left == [Now EXCEPT !.probes = @ \ {probe}]
             s == [left EXCEPT !.inFlight = FALSE]
             good == [s EXCEPT !.verified = TRUE, !.failures = 0, !.repairUsed = FALSE,
                               !.repairs = 0, !.proved = s.proved \/ probe.session = "this"]
             bad == [s EXCEPT !.failures = @ + 1]
             lost == markNetworkUnverified(s)
  <2>2. Fine(left) /\ Fine(s)
    BY <1>1, <1>5 DEF ProbeAnswers, Runs, Fine, Explained, ExitsExplained, JobsFlagged,
                      Wellformed, Fields
  <2> HIDE DEF left, s
  <2>3. Fine(good) /\ OkNow(bad)
    BY <2>2 DEF Fine, Explained, ExitsExplained, JobsFlagged, Wellformed, Fields
  <2>4. Fine(lost)
    BY <2>2 DEF markNetworkUnverified, Fine, Explained, ExitsExplained, JobsFlagged,
                Wellformed, Fields
  <2>5. handleProbeResult(s, probe, reachable, view) \in
          {s, good, bad, updateStatus(good, view), updateStatus(lost, view)}
    BY DEF handleProbeResult
  <2> HIDE DEF good, bad, lost
  <2>6. OkNow(updateStatus(good, view)) /\ OkNow(updateStatus(lost, view))
    BY <2>3, <2>4, HandlersExplain
  <2>7. OkNow(left) /\ OkNow(handleProbeResult(s, probe, reachable, view))
    BY <2>2, <2>3, <2>5, <2>6 DEF Fine
  <2>8. Handled(IF probe.generation = "old" THEN left
                ELSE handleProbeResult(s, probe, reachable, view))
    BY <2>1 DEF left, s
  <2> QED BY <1>2, <2>7, <2>8
<1>6. CASE User
  <2> DEFINE asked == [Now EXCEPT !.repairUsed = FALSE, !.repairs = 0, !.quit = "no", !.owed = FALSE]
             unasked == [Now EXCEPT !.owed = FALSE]
             quitting == [Now EXCEPT !.quit = IF app.stopping THEN "late" ELSE "asked",
                                     !.owed = FALSE]
  <2>1. PICK a \in BOOLEAN, b \in BOOLEAN, view \in Views :
           \/ Handled(startAuthWithNetworkRepair(asked, a, b, view))
           \/ Handled(stopAuthThenQuit(unasked, a, b, view))
           \/ Handled(stopAuthThenQuit(quitting, a, b, view))
    BY <1>6 DEF User, startAuth, stopAuth, repairAndReconnect, quit
  <2>2. UserThere
    BY <1>6 DEF User, startAuth, stopAuth, repairAndReconnect, quit
  <2>3. /\ Fine(asked) /\ "autostart" \notin asked.pending
        /\ Fine(unasked) /\ "autostart" \notin unasked.pending
        /\ Fine(quitting) /\ "autostart" \notin quitting.pending
    BY <1>1, <2>2 DEF UserThere, Fine, Explained, ExitsExplained, JobsFlagged, Wellformed, Fields
  <2> HIDE DEF asked, unasked, quitting
  <2>4. /\ OkNow(startAuthWithNetworkRepair(asked, a, b, view))
        /\ OkNow(stopAuthThenQuit(unasked, a, b, view))
        /\ OkNow(stopAuthThenQuit(quitting, a, b, view))
    BY <2>3, HandlersExplain
  <2> QED BY <1>2, <2>1, <2>4
<1>7. CASE systemWillPowerOff
  <2> DEFINE off == [Now EXCEPT !.poweringOff = TRUE]
  <2>1. PICK view \in Views : Handled(applicationShouldTerminate(off, view))
    BY <1>7 DEF systemWillPowerOff
  <2>2. Fine(off) /\ off.poweringOff
    BY <1>1, <1>7 DEF systemWillPowerOff, Runs, Fine, Explained, ExitsExplained, JobsFlagged,
                      Wellformed, Fields
  <2> HIDE DEF off
  <2> QED BY <1>2, <2>1, <2>2, HandlersExplain
<1>8. CASE systemDidWake
  <2> DEFINE awake == [Now EXCEPT !.asleep = FALSE, !.justWoke = TRUE]
  <2>1. PICK view \in Views :
          LET s == updateStatus(awake, view)
          IN  Handled(IF s.reconnectOnWake
                      THEN scheduleWakeReconnect([s EXCEPT !.reconnectOnWake = FALSE]) ELSE s)
    BY <1>8 DEF systemDidWake
  <2> DEFINE s == updateStatus(awake, view)
             w == scheduleWakeReconnect([s EXCEPT !.reconnectOnWake = FALSE])
  <2>2. Fine(awake) /\ "autostart" \notin awake.pending
    BY <1>1, <1>8 DEF systemDidWake, Runs, Fine, Explained, ExitsExplained, JobsFlagged,
                      Wellformed, Fields
  <2> HIDE DEF awake
  <2>3. OkNow(s) /\ "autostart" \notin s.pending
    BY <2>2, HandlersExplain
  <2> HIDE DEF s
  <2>4. OkNow(w)
    BY <2>3 DEF scheduleWakeReconnect, Explained, ExitsExplained, JobsFlagged, Wellformed, Fields
  <2>5. Handled(IF s.reconnectOnWake THEN w ELSE s)
    BY <2>1 DEF s
  <2> QED BY <1>2, <2>3, <2>4, <2>5
<1>9. CASE systemWillSleep \/ GracePasses \/ MinutePasses
  <2>1. CASE systemWillSleep
    BY <2>1, <1>1 DEF systemWillSleep, UserThere, Handled, Explained, ExitsExplained, JobsFlagged,
                      Wellformed, Fields
  <2>2. CASE GracePasses \/ MinutePasses
    BY <2>2, <1>1 DEF GracePasses, MinutePasses, Handled, Explained, ExitsExplained, JobsFlagged,
                      Wellformed, Fields
  <2> QED BY <1>9, <2>1, <2>2
<1>10. CASE autoStartIfNeeded
  <2> DEFINE s == [Taken("autostart") EXCEPT !.wants = TRUE]
             later == [s EXCEPT !.pending = @ \cup {"retry"}]
  <2>1. PICK view \in Views : Handled(IF view.running THEN updateStatus(s, view) ELSE later)
    BY <1>10 DEF autoStartIfNeeded
  <2>2. app.pending = {"autostart"} /\ ~app.starting /\ ~app.stopping
    BY <1>10 DEF autoStartIfNeeded, Block, Explained, JobsFlagged
  <2>3. Fine(s) /\ OkNow(later)
    BY <1>10, <1>1, <2>2 DEF autoStartIfNeeded, Block, Runs, Taken, Fine, Explained,
       ExitsExplained, JobsFlagged, Wellformed, Fields
  <2> HIDE DEF s, later
  <2>4. OkNow(updateStatus(s, view))
    BY <2>3, HandlersExplain
  <2> QED BY <1>2, <2>1, <2>3, <2>4
<1>11. CASE autoStartWhenLinkReady \/ autoRepair \/ wakeReconnect
  <2>1. PICK name \in {"retry", "repair", "wake"}, a \in BOOLEAN, b \in BOOLEAN, view \in Views :
          /\ Block(name)
          /\ \/ Handled(Taken(name)) \/ Handled(Now)
             \/ Handled(startAuthWithNetworkRepair(Taken(name), a, b, view))
    BY <1>11 DEF autoStartWhenLinkReady, autoRepair, wakeReconnect
  <2>2. "autostart" \notin app.pending
    BY <2>1 DEF Block, Explained, JobsFlagged
  <2>3. Fine(Taken(name)) /\ "autostart" \notin Taken(name).pending
    BY <1>3, <2>1, <2>2 DEF Block
  <2>4. OkNow(startAuthWithNetworkRepair(Taken(name), a, b, view)) /\ OkNow(Taken(name))
    BY <2>3, HandlersExplain DEF Fine
  <2> QED BY <1>1, <1>2, <2>1, <2>4
<1>12. CASE Starting
  <2>1. CASE StartRefused
    BY <2>1, <1>1 DEF StartRefused, Handled, Explained, ExitsExplained, JobsFlagged, Wellformed,
                      Fields, JobFields
  <2>2. CASE StartKillsOld
    BY <2>2, <1>1 DEF StartKillsOld, Killed, Explained, ExitsExplained, JobsFlagged, Wellformed,
                      Fields, JobFields
  <2>3. CASE StartLaunches
    BY <2>3, <1>1 DEF StartLaunches, Explained, ExitsExplained, JobsFlagged, Wellformed,
                      Fields, JobFields
  <2>4. CASE waitForMiniEAPRunning
    BY <2>4, <1>1 DEF waitForMiniEAPRunning, Handled, Explained, ExitsExplained, JobsFlagged,
                      Wellformed, Fields, JobFields
  <2>5. CASE StartDone
    <3>1. Fine(Now) /\ Now.start.phase = "done"
      BY <2>5, <1>1 DEF StartDone, Runs, Fine
    <3> QED BY <2>5, <3>1, <1>2, HandlersExplain DEF StartDone
  <2> QED BY <1>12, <2>1, <2>2, <2>3, <2>4, <2>5 DEF Starting
<1>13. CASE Stopping
  <2>1. CASE StopRefused
    BY <2>1, <1>1 DEF StopRefused, Handled, Explained, ExitsExplained, JobsFlagged, Wellformed,
                      Fields, JobFields
  <2>2. CASE StopKills
    BY <2>2, <1>1 DEF StopKills, Killed, Explained, ExitsExplained, JobsFlagged, Wellformed,
                      Fields, JobFields
  <2>3. CASE waitForMiniEAPStopped
    BY <2>3, <1>1 DEF waitForMiniEAPStopped, Handled, Explained, ExitsExplained, JobsFlagged,
                      Wellformed, Fields, JobFields
  <2>4. CASE StopDone
    <3>1. Fine(Now) /\ Now.stop.phase = "done"
      BY <2>4, <1>1 DEF StopDone, Runs, Fine
    <3> QED BY <2>4, <3>1, <1>2, HandlersExplain DEF StopDone
  <2> QED BY <1>13, <2>1, <2>2, <2>3, <2>4 DEF Stopping
<1>14. CASE Minieap
  <2>1. CASE GoesOnline \/ GoesOffline
    BY <2>1 DEF GoesOnline, GoesOffline, Explained, ExitsExplained
  <2>2. CASE ExitsByItself
    BY <2>2, <1>1 DEF ExitsByItself, Explained, ExitsExplained, JobsFlagged, Wellformed, Fields
  <2> QED BY <1>14, <2>1, <2>2 DEF Minieap
<1>15. CASE UNCHANGED vars
  BY <1>15 DEF vars
<1> QED
  BY <1>4, <1>5, <1>6, <1>7, <1>8, <1>9, <1>10, <1>11, <1>12, <1>13, <1>14, <1>15
  DEF Next, Blocks, System

\* A job runs only under its flag, no two jobs want different things without it being
\* recorded, and every exit that is still to be noticed is explained.
THEOREM AppInvariant == Spec => []AppInv
<1>1. Init => Explained(app, proc # "none", ended)
  BY DEF Init, Explained, ExitsExplained, JobsFlagged, Wellformed, Fields, JobFields, Idle
<1>2. Explained(app, proc # "none", ended) /\ [Next]_vars
        => Explained(app, proc # "none", ended)'
  BY ExplainedStep
<1>3. Explained(app, proc # "none", ended) /\ SessionTracked(app) => AppInv
  BY DEF Explained, AppInv
<1> QED BY <1>1, <1>2, <1>3, SessionsAreSound, PTL DEF Spec

\* For any number of failures that make a verdict: an alert about an exit means that
\* minieap ended by itself, or that a start has overlapped with a stop.
THEOREM AlarmsAreTrue == Spec => []AlarmIsTrue
<1>1. AppInv => AlarmIsTrue
  BY DEF AppInv, ExitsExplained, AlarmIsTrue
<1> QED BY <1>1, AppInvariant, PTL
=============================================================================
