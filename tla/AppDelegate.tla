---------------------------- MODULE AppDelegate ----------------------------
(* The menu bar app (RGForMacApp/main.m): its status tick, the connectivity   *)
(* probe, sleep and wake, and the start, stop, repair and quit flows, which   *)
(* run a root script in the background and hand its result to the main queue. *)
(* minieap is what the app can see of it: a process and its online marker.    *)
(* What runs on the main thread is one step; the credentials are in the       *)
(* keychain, so that no start opens a prompt for them.                        *)
EXTENDS Naturals

CONSTANT ProbeFailuresBeforeOffline

ASSUME AppAssumption == ProbeFailuresBeforeOffline \in Nat \ {0}

VARIABLES
    app,    \* the properties of the AppDelegate, with its jobs and blocks
    proc,   \* minieap: "none", "up" (negotiating) or "online" (marker present)
    ended   \* history: who ended minieap last, "itself" or "app"

vars == <<app, proc, ended>>

\* What a handler reads when it asks for the status: online needs the link as
\* well as the marker; address and due (a verified session is probed again at
\* every tenth tick) are looked at only then.
Offline == [running |-> proc # "none", online |-> FALSE, address |-> FALSE, due |-> FALSE]
Views == {Offline} \cup
    (IF proc # "online" THEN {}
     ELSE {[Offline EXCEPT !.online = TRUE],
           [Offline EXCEPT !.online = TRUE, !.address = TRUE],
           [Offline EXCEPT !.online = TRUE, !.address = TRUE, !.due = TRUE]})

Idle == [phase |-> "idle", ok |-> FALSE, seen |-> FALSE, quit |-> FALSE]

Init ==
    /\ proc \in {"none", "up", "online"} /\ ended = "itself"
    /\ app = [alive |-> TRUE, starting |-> FALSE, stopping |-> FALSE, stopRequested |-> FALSE,
              terminating |-> FALSE, wants |-> FALSE, wasRunning |-> FALSE, asleep |-> FALSE,
              reconnectOnWake |-> FALSE, poweringOff |-> FALSE, justWoke |-> FALSE,
              since |-> "none", verified |-> FALSE, inFlight |-> FALSE, failures |-> 0,
              repairUsed |-> FALSE, probes |-> {}, pending |-> {"autostart"},
              start |-> Idle, stop |-> Idle, password |-> FALSE, told |-> FALSE,
              \* history
              proved |-> FALSE, repairs |-> 0, owed |-> FALSE, quit |-> "no",
              overlapped |-> FALSE]
-----------------------------------------------------------------------------
(* The status tick and what it tracks *)

\* Mutant: the probes of the old session still count.
reset_keeping_probes(s) ==
    [s EXCEPT !.since = "none", !.verified = FALSE, !.inFlight = FALSE, !.failures = 0,
              !.proved = FALSE, !.probes = {[p EXCEPT !.session = "earlier"] : p \in @}]

\* Mutant: every session may be repaired once.
reset_repair_too(s) ==
    [s EXCEPT !.since = "none", !.verified = FALSE, !.inFlight = FALSE, !.failures = 0,
              !.proved = FALSE, !.repairUsed = FALSE,
              !.probes = {[generation |-> "old", session |-> "earlier"] : p \in @}]

\* probeGeneration++ makes every probe that is still out an old one.
resetConnectivityTracking(s) ==
    [s EXCEPT !.since = "none", !.verified = FALSE, !.inFlight = FALSE, !.failures = 0,
              !.proved = FALSE,
              !.probes = {[generation |-> "old", session |-> "earlier"] : p \in @}]

markNetworkUnverified(s) ==
    IF s.verified
    THEN [s EXCEPT !.verified = FALSE, !.failures = 0, !.since = "fresh", !.proved = FALSE]
    ELSE s

autoRepairIfStuck(s) ==
    IF \/ s.verified \/ s.since # "overdue" \/ s.repairUsed
       \/ ~s.wants \/ s.starting \/ s.stopping \/ s.asleep
    THEN s
    ELSE [s EXCEPT !.repairUsed = TRUE, !.repairs = @ + 1, !.pending = @ \cup {"repair"}]

trackConnectivityOnline(s, view) ==
    LET opened == IF s.since = "none" THEN [s EXCEPT !.since = "fresh"] ELSE s
        probed == IF ~view.address THEN markNetworkUnverified(opened)
                  ELSE IF ~s.inFlight /\ (~s.verified \/ view.due)
                  THEN [opened EXCEPT !.inFlight = TRUE,
                            !.probes = @ \cup {[generation |-> "same", session |-> "this"]}]
                  ELSE opened
    IN  IF view.online THEN autoRepairIfStuck(probed)
        ELSE IF s.since = "none" THEN s ELSE resetConnectivityTracking(s)

scheduleWakeReconnect(s) == [s EXCEPT !.justWoke = FALSE, !.pending = @ \cup {"wake"}]

\* Mutant: an exit that is noticed before the wake is an exit like any other.
unexpected_exit_alerts(s, running) ==
    IF ~s.wasRunning \/ running \/ s.starting \/ s.stopping \/ ~s.wants THEN s
    ELSE IF s.justWoke THEN scheduleWakeReconnect(s)
    ELSE [s EXCEPT !.wants = FALSE, !.told = TRUE]

handlePossibleUnexpectedExit(s, running) ==
    IF ~s.wasRunning \/ running \/ s.starting \/ s.stopping \/ ~s.wants THEN s
    ELSE IF s.asleep THEN [s EXCEPT !.reconnectOnWake = TRUE]
    ELSE IF s.justWoke THEN scheduleWakeReconnect(s)
    ELSE [s EXCEPT !.wants = FALSE, !.told = TRUE]

\* Mutant: a start is taken to be over as soon as a process is seen.
updateStatus_ends_start(s, view) ==
    LET t == [handlePossibleUnexpectedExit(s, view.running)
                EXCEPT !.wasRunning = view.running, !.starting = @ /\ ~view.running]
    IN  IF t.starting \/ t.stopping THEN t ELSE trackConnectivityOnline(t, view)

updateStatus(s, view) ==
    LET t == [handlePossibleUnexpectedExit(s, view.running) EXCEPT !.wasRunning = view.running]
    IN  IF t.starting \/ t.stopping THEN t ELSE trackConnectivityOnline(t, view)

handleProbeResult(s, probe, reachable, view) ==
    IF reachable
    THEN LET t == [s EXCEPT !.verified = TRUE, !.failures = 0, !.repairUsed = FALSE,
                            !.repairs = 0, !.proved = s.proved \/ probe.session = "this"]
         IN  IF s.verified THEN t ELSE updateStatus(t, view)
    ELSE IF ~s.verified THEN s
    ELSE IF s.failures + 1 < ProbeFailuresBeforeOffline
    THEN [s EXCEPT !.failures = @ + 1]
    ELSE updateStatus(markNetworkUnverified(s), view)
-----------------------------------------------------------------------------
(* Starting and stopping *)

Job(quit) == [phase |-> "prompt", ok |-> FALSE, seen |-> FALSE, quit |-> quit]

markStarting(s, view) ==
    updateStatus(resetConnectivityTracking([s EXCEPT !.starting = TRUE]), view)

\* ready: there is an interface, its name and the paths are safe, and the
\* password file could be written.
startAuthWithNetworkRepair(s, repairNetwork, ready, view) ==
    LET t == [s EXCEPT !.wants = TRUE, !.overlapped = @ \/ s.stopping] IN
    IF s.starting THEN s
    ELSE IF ~repairNetwork /\ view.running THEN updateStatus(t, view)
    ELSE IF ~ready THEN [t EXCEPT !.owed = FALSE]
    ELSE markStarting([t EXCEPT !.start = Job(FALSE), !.password = TRUE, !.owed = FALSE], view)

\* The call of terminate: in the second branch finds terminating set and no
\* job, so that applicationShouldTerminate agrees at once.
stopAuthThenQuit(s, quitAfterStop, force, view) ==
    LET unwanted == [s EXCEPT !.wants = FALSE] IN
    IF s.stopping THEN s
    ELSE IF s.starting
    THEN updateStatus([s EXCEPT !.stopRequested = TRUE, !.terminating = @ \/ quitAfterStop], view)
    ELSE IF ~force /\ ~view.running
    THEN IF quitAfterStop THEN [unwanted EXCEPT !.terminating = TRUE, !.alive = FALSE]
         ELSE updateStatus(unwanted, view)
    ELSE updateStatus([unwanted EXCEPT !.stopping = TRUE, !.stop = Job(quitAfterStop)], view)

applicationShouldTerminate(s, view) ==
    IF s.poweringOff \/ (s.terminating /\ ~s.starting /\ ~s.stopping)
    THEN [s EXCEPT !.alive = FALSE]
    ELSE stopAuthThenQuit(s, TRUE, FALSE, view)

\* Mutant: the request to quit is forgotten when the start is over.
startDone_forgets_quit(s, view) ==
    LET t == [s EXCEPT !.starting = FALSE, !.wasRunning = s.start.seen, !.start = Idle,
                       !.stopRequested = FALSE]
    IN  IF s.stopRequested THEN stopAuthThenQuit(t, FALSE, TRUE, view)
        ELSE IF s.start.seen THEN updateStatus(t, view)
        ELSE updateStatus([t EXCEPT !.wants = FALSE], view)

\* The block a start hands to the main queue.
startDone(s, view) ==
    LET t == [s EXCEPT !.starting = FALSE, !.wasRunning = s.start.seen, !.start = Idle,
                       !.stopRequested = FALSE]
    IN  IF s.stopRequested THEN stopAuthThenQuit(t, s.terminating, TRUE, view)
        ELSE IF s.start.seen THEN updateStatus(t, view)
        ELSE updateStatus([t EXCEPT !.wants = FALSE], view)

\* The block a stop hands to the main queue.
stopDone(s, view) ==
    LET t == [s EXCEPT !.stopping = FALSE, !.stop = Idle]
    IN  IF ~s.stop.seen \/ ~s.stop.ok
        THEN updateStatus([t EXCEPT !.terminating = FALSE, !.quit = "no"],
                          view)
        ELSE IF s.stop.quit
        THEN applicationShouldTerminate(
                [t EXCEPT !.terminating = TRUE, !.quit = IF @ = "late" THEN "asked" ELSE @], view)
        ELSE updateStatus([t EXCEPT !.quit = IF @ = "late" THEN "dropped" ELSE @], view)
-----------------------------------------------------------------------------
(* What happens on the main thread *)

Handled(s) == app' = s /\ UNCHANGED <<proc, ended>>
Now == [app EXCEPT !.told = FALSE, !.quit = IF @ = "dropped" THEN "no" ELSE @,
                   !.overlapped = @ /\ (app.starting \/ app.stopping)]
Runs == app.alive
\* The first block of the main queue runs before the menu can be used.
UserThere == app.alive /\ ~app.asleep /\ "autostart" \notin app.pending

Tick == Runs /\ \E view \in Views : Handled(updateStatus(Now, view))

ProbeAnswers == Runs /\ \E probe \in app.probes, reachable \in BOOLEAN, view \in Views :
    LET s == [Now EXCEPT !.probes = @ \ {probe}]
    IN  Handled(IF probe.generation = "old" THEN s
                ELSE handleProbeResult([s EXCEPT !.inFlight = FALSE], probe, reachable, view))

\* The menu enables its items itself (autoenablesItems), whatever updateStatus sets.
startAuth == UserThere /\ \E ready \in BOOLEAN, view \in Views :
    Handled(startAuthWithNetworkRepair(
        [Now EXCEPT !.repairUsed = FALSE, !.repairs = 0, !.quit = "no", !.owed = FALSE],
        FALSE, ready, view))
stopAuth == UserThere /\ \E view \in Views :
    Handled(stopAuthThenQuit([Now EXCEPT !.owed = FALSE], FALSE, FALSE, view))
repairAndReconnect == UserThere /\ \E ready \in BOOLEAN, view \in Views :
    Handled(startAuthWithNetworkRepair(
        [Now EXCEPT !.repairUsed = FALSE, !.repairs = 0, !.quit = "no", !.owed = FALSE],
        TRUE, ready, view))
quit == UserThere /\ \E view \in Views :
    Handled(stopAuthThenQuit([Now EXCEPT !.quit = IF app.stopping THEN "late" ELSE "asked", !.owed = FALSE],
                             TRUE, FALSE, view))
\* A logout or shutdown that goes through: the app is told and terminated.
systemWillPowerOff == Runs /\ \E view \in Views :
    Handled(applicationShouldTerminate([Now EXCEPT !.poweringOff = TRUE], view))

Block(name) == Runs /\ name \in app.pending
Taken(name) == [Now EXCEPT !.pending = @ \ {name}]

autoStartIfNeeded == Block("autostart") /\ \E view \in Views :
    LET s == [Taken("autostart") EXCEPT !.wants = TRUE]
    IN  Handled(IF view.running THEN updateStatus(s, view)
                ELSE [s EXCEPT !.pending = @ \cup {"retry"}])
\* waiting: the link is down and attempts are left.
autoStartWhenLinkReady == Block("retry") /\ \E waiting, ready \in BOOLEAN, view \in Views :
    Handled(IF ~app.wants \/ app.starting \/ app.stopping \/ view.running THEN Taken("retry")
            ELSE IF waiting THEN Now
            ELSE startAuthWithNetworkRepair(Taken("retry"), FALSE, ready, view))
autoRepair == Block("repair") /\ \E ready \in BOOLEAN, view \in Views :
    Handled(startAuthWithNetworkRepair(Taken("repair"), TRUE, ready, view))
wakeReconnect == Block("wake") /\ \E ready \in BOOLEAN, view \in Views :
    Handled(IF ~app.wants \/ app.starting \/ app.stopping \/ view.running THEN Taken("wake")
            ELSE startAuthWithNetworkRepair(Taken("wake"), TRUE, ready, view))

systemWillSleep == UserThere /\ Handled([Now EXCEPT !.asleep = TRUE])
systemDidWake == Runs /\ app.asleep /\ \E view \in Views :
    LET s == updateStatus([Now EXCEPT !.asleep = FALSE, !.justWoke = TRUE], view)
    IN  Handled(IF s.reconnectOnWake
                THEN scheduleWakeReconnect([s EXCEPT !.reconnectOnWake = FALSE]) ELSE s)

\* kOnlineVerifyGrace, which nothing reads while verified; and the minute
\* after a wake.
GracePasses == Runs /\ app.since = "fresh" /\ ~app.verified /\ Handled([Now EXCEPT !.since = "overdue"])
MinutePasses == Runs /\ app.justWoke /\ Handled([Now EXCEPT !.justWoke = FALSE])
-----------------------------------------------------------------------------
(* The background jobs: osascript asks for an administrator, then the script  *)
(* runs as root; the job waits and queues its block                           *)

Killed == proc' = "none" /\ ended' = (IF proc = "none" THEN ended ELSE "app")

StartRefused ==
    /\ Runs /\ app.start.phase = "prompt"
    /\ Handled([Now EXCEPT !.start.phase = "waiting", !.password = FALSE])
StartKillsOld ==
    /\ Runs /\ app.start.phase = "prompt"
    /\ app' = [Now EXCEPT !.start.phase = "script"] /\ Killed
\* The script takes the password, or gives up if the file is not there.
StartLaunches ==
    /\ Runs /\ app.start.phase = "script"
    /\ app' = [Now EXCEPT !.start.phase = "waiting", !.password = FALSE]
    /\ \/ UNCHANGED <<proc, ended>>
       \/ app.password /\ proc = "none" /\ proc' = "up" /\ ended' = "itself"
waitForMiniEAPRunning ==
    /\ Runs /\ app.start.phase = "waiting"
    /\ Handled([Now EXCEPT !.start.phase = "done", !.start.seen = proc # "none"])
StartDone ==
    /\ Runs /\ app.start.phase = "done"
    /\ \E view \in Views : Handled(startDone(Now, view))

StopRefused ==
    /\ Runs /\ app.stop.phase = "prompt"
    /\ Handled([Now EXCEPT !.stop.phase = "waiting"])
StopKills ==
    /\ Runs /\ app.stop.phase = "prompt"
    /\ app' = [Now EXCEPT !.stop.phase = "waiting", !.stop.ok = TRUE] /\ Killed
waitForMiniEAPStopped ==
    /\ Runs /\ app.stop.phase = "waiting"
    /\ Handled([Now EXCEPT !.stop.phase = "done", !.stop.seen = proc = "none"])
StopDone ==
    /\ Runs /\ app.stop.phase = "done"
    /\ \E view \in Views : Handled(stopDone(Now, view))
-----------------------------------------------------------------------------
(* minieap *)

GoesOnline == proc = "up" /\ proc' = "online" /\ UNCHANGED <<app, ended>>
GoesOffline == proc = "online" /\ proc' = "up" /\ UNCHANGED <<app, ended>>
ExitsByItself ==
    /\ proc # "none" /\ proc' = "none" /\ ended' = "itself"
    /\ app' = [Now EXCEPT !.owed = app.owed
                 \/ (app.asleep /\ app.wants /\ app.wasRunning /\ ~app.starting /\ ~app.stopping)]

Starting == StartRefused \/ StartKillsOld \/ StartLaunches \/ waitForMiniEAPRunning \/ StartDone
Stopping == StopRefused \/ StopKills \/ waitForMiniEAPStopped \/ StopDone
Blocks == autoStartIfNeeded \/ autoStartWhenLinkReady \/ autoRepair \/ wakeReconnect
User == startAuth \/ stopAuth \/ repairAndReconnect \/ quit
System == systemWillPowerOff \/ systemWillSleep \/ systemDidWake
            \/ GracePasses \/ MinutePasses
Minieap == GoesOnline \/ GoesOffline \/ ExitsByItself

Next == Tick \/ ProbeAnswers \/ Starting \/ Stopping \/ Blocks \/ User \/ System \/ Minieap

\* A prompt is answered or taken down after two minutes, a script ends, and
\* the main thread gets round to its blocks. The user and minieap owe nothing.
Fairness == WF_vars(Starting) /\ WF_vars(Stopping)
            /\ WF_vars(autoRepair) /\ WF_vars(wakeReconnect)
Spec == Init /\ [][Next]_vars
FairSpec == Spec /\ Fairness
-----------------------------------------------------------------------------
(* Properties *)

\* Between two automatic repairs (each costs the user an administrator prompt)
\* the network has worked or the user has asked for a connection: the flag
\* autoRepairUsed must outlive the restarts that a repair itself causes.
RepairedOnce == app.repairs <= 1

\* The network counts as verified only on the answer to a probe that was sent
\* in the session that is being tracked: an answer that comes after a stop and
\* a start, or after the session was lost, is not taken for news of the next.
VerifiedThisSession == app.verified => app.proved

\* The user is told that minieap "gave up and exited" only if it was not the
\* app's own script that ended it, as long as no repair was begun while a stop
\* was still going on.
AlarmIsTrue == app.told => ended = "itself" \/ app.overlapped

\* The user who quits while no stop is under way, and does not ask for a
\* connection afterwards, gets rid of the app or is told that the stop failed,
\* whatever start and whatever blocks were under way.
QuitEnds == app.quit = "asked" ~> ~app.alive \/ app.quit # "asked"

\* A quit that comes during a stop is carried out when that stop succeeds.
\* Refuted: stopAuthThenQuit returns at once during a stop, and the block of
\* that stop knows nothing of the wish to quit.
QuitQuits == app.quit # "dropped"

\* An exit during sleep leads to another start once the machine is awake, and
\* not to an alert, unless the user or the system comes in between.
ReconnectsAfterWake == app.owed /\ ~app.asleep ~> ~app.owed \/ app.asleep \/ ~app.alive
-----------------------------------------------------------------------------
(* The inductive invariants behind them.                                      *)

Fields == {"alive", "starting", "stopping", "stopRequested", "terminating", "wants",
           "wasRunning", "asleep", "reconnectOnWake", "poweringOff", "justWoke", "since", "verified", "inFlight", "failures", "repairUsed", "probes",
           "pending", "start", "stop", "password", "told", "proved", "repairs", "owed",
           "quit", "overlapped"}
JobFields == {"phase", "ok", "seen", "quit"}
Wellformed(s) ==
    /\ DOMAIN s = Fields /\ s.repairs \in Nat
    /\ DOMAIN s.start = JobFields /\ DOMAIN s.stop = JobFields

\* A probe that still counts was sent in this session, and a repair that was made has
\* used up the next one.
SessionTracked(s) ==
    /\ s.verified => s.proved
    /\ \A probe \in s.probes : probe.generation = "old" \/ probe.session = "this"
    /\ s.repairs <= (IF s.repairUsed THEN 1 ELSE 0)

\* A job runs only as long as its flag is set, and while a stop is under way only
\* a start that overlaps with it can want a connection.
JobsFlagged(s) ==
    /\ s.start.phase # "idle" => s.starting
    /\ s.stop.phase # "idle" => s.stopping
    /\ s.stopping /\ (s.starting \/ s.wants) => s.overlapped
    /\ "autostart" \in s.pending =>
            s.pending = {"autostart"} /\ ~(s.wants \/ s.starting \/ s.stopping \/ s.asleep)

\* An exit that the next look at the process will find, when no job runs, or that is
\* found by the block of a start, is not the work of a job.
ExitsExplained(s, running, by) ==
    /\ s.told => by = "itself" \/ s.overlapped
    /\ s.alive /\ ~s.starting /\ ~s.stopping /\ s.wasRunning /\ ~running => by = "itself"
    /\ s.start.phase = "done" /\ s.start.seen /\ ~running => by = "itself" \/ s.overlapped

AppInv ==
    /\ Wellformed(app) /\ SessionTracked(app) /\ JobsFlagged(app)
    /\ ExitsExplained(app, proc # "none", ended)
=============================================================================
