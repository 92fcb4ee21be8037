-------------------------- MODULE EapStateMachine --------------------------
(* The 802.1X supplicant of eap_state_machine.c on top of the alarms of       *)
(* util/sched_alarm.c, from main's switch to PREPARING until the process ends.*)
(*                                                                            *)
(* The process has one thread.  It sleeps, blocks in start_capture (pc =      *)
(* "capture") or is inside eap_state_machine_recv_handler (pc = "copying",    *)
(* "received"); SIGALRM preempts it at any of these points and runs the due   *)
(* callbacks to completion.  m is the memory of the process.  A C function is *)
(* an operator from m to m; exit() leaves m.exit # "no", after which nothing  *)
(* runs.                                                                      *)
(*                                                                            *)
(* Alarms have no number here: an id is only compared for equality with the   *)
(* static variable that holds it, so an event carries whether state_alarm_id  *)
(* (for a watchdog) or g_retry_alarm_id (for a restart) still names it.       *)
EXTENDS Integers, Sequences, FiniteSets, SequencesExt

CONSTANTS
    AuthRound,          \* auth_round: the rounds one authentication takes
    MaxRetries,         \* max_retries, 0 for no limit
    MaxFailures,        \* max_failures, 0 for no limit
    StageTimeout,       \* stage_timeout, in seconds
    WaitAfterFail,      \* wait_after_fail_secs
    RestartOnLogoff,    \* restart_on_logoff
    LogoffBeforeStart,  \* logoff_before_start
    Frames,             \* the kinds of frame the network delivers
    IntMax,             \* INT_MAX, the delay of a timer that waits for nothing
    MaxAlarms,          \* bound: alarms pending at a time

    \* The plugins (packet_plugin.c calls them in turn), as the state machine sees
    \* them: their memory, what they do to it, and the alarms they ask for.
    PluginStates, PluginInits, PluginAlarms,
    prepare_frame(_),           \* a packet is about to be sent
    on_frame_received(_, _),    \* a frame was copied
    plugin_alarm(_, _)          \* one of PluginAlarms fires

ASSUME ConfigAssumption ==
    /\ AuthRound \in Nat \ {0}
    /\ MaxRetries \in Nat /\ MaxFailures \in Nat
    /\ StageTimeout \in Nat \ {0} /\ WaitAfterFail \in Nat \ {0}
    /\ RestartOnLogoff \in BOOLEAN /\ LogoffBeforeStart \in BOOLEAN
    /\ Frames \subseteq
            {"identity", "challenge", "success", "success_key", "failure", "other"}
    /\ PluginInits \subseteq PluginStates
    /\ PluginAlarms \cap {"state_watchdog", "restart_auth"} = {}
    /\ IntMax \in Nat /\ IntMax > StageTimeout /\ IntMax > WaitAfterFail
    /\ MaxAlarms \in Nat

VARIABLES
    m,      \* the memory of the process
    pc,     \* where its thread is
    frame,  \* in eap_state_machine_recv_handler: its argument
    naps    \* seconds left of trans_to_preparing's sleep

vars == <<m, pc, frame, naps>>

Waiting == {"START_SENT", "IDENTITY_SENT", "CHALLENGE_SENT"}
States  == {"UNKNOWN", "PREPARING", "SUCCESS", "FAILURE"} \cup Waiting
Exits   == {"no", "stopped", "retries", "failures", "offline", "send", "crash"}

Alarm == [func : {"state_watchdog", "restart_auth"} \cup PluginAlarms, remaining : Int,
          marked_delete : BOOLEAN, named : BOOLEAN]

\* accepted and rejected are ghosts: the EAP-Success frames handled since the
\* session began, and the EAP-Failure frames since the last Success.
Memory == [state : States, state_last_count : Nat, auth_round : Nat,
           fail_count : Nat, last_recv_frame : Frames \cup {"NULL"},
           ever_sent_start : BOOLEAN, in_capture_callback : BOOLEAN,
           alarm_list : Seq(Alarm), add_temp : Seq(Alarm), ringing : BOOLEAN,
           last_set_time : Nat, timer : Nat,
           link : BOOLEAN, breakloop : BOOLEAN, online : BOOLEAN,
           exit : Exits, logoff : BOOLEAN, plugin : PluginStates,
           accepted : Nat, rejected : Nat]

Capped(n, cap) == IF n + 1 > cap THEN cap ELSE n + 1
-----------------------------------------------------------------------------
(* util/sched_alarm.c, as SchedAlarm has it, with a ring in one step. *)

set_alarm(x, time) == [x EXCEPT !.timer = time, !.last_set_time = time]

schedule_alarm(x, secs, func, named) ==
    LET event == [func |-> func, remaining |-> secs, marked_delete |-> FALSE,
                  named |-> named]
        left  == IF x.timer = 0 THEN IntMax ELSE x.timer
    IN  IF x.ringing
        THEN [x EXCEPT !.add_temp = Append(@, event)]
        ELSE set_alarm([x EXCEPT !.alarm_list = Append(@, event)],
                       IF left < secs THEN left ELSE secs)

\* The nodes of a list that are in S, in their order.
filter(list, S) ==
    LET kept[i \in 0..Len(list)] ==
            IF i = 0 THEN <<>>
            ELSE IF list[i] \in S THEN Append(kept[i - 1], list[i]) ELSE kept[i - 1]
    IN  kept[Len(list)]

marked(e, func) == [e EXCEPT !.marked_delete = @ \/ (e.func = func /\ e.named)]

\* unschedule_alarm of the id the static variable for func holds.
unschedule_alarm(x, func) ==
    LET list == x.alarm_list
    IN  [x EXCEPT !.alarm_list =
            IF x.ringing THEN [i \in DOMAIN list |-> marked(list[i], func)]
            ELSE filter(list, {e \in Range(list) : ~(e.func = func /\ e.named)})]

unnamed(e, func) == [e EXCEPT !.named = @ /\ e.func # func]

\* The static variable for func is set to 0.
Unname(x, func) ==
    LET each(list) == [i \in DOMAIN list |-> unnamed(list[i], func)]
    IN  [x EXCEPT !.alarm_list = each(x.alarm_list), !.add_temp = each(x.add_temp)]

\* Mutant: events that fired are kept.
alarm_unmarked(e) == ~e.marked_delete

alarm_valid(e) == e.remaining > 0 /\ ~e.marked_delete

find_min_remaining(list) ==
    Min({IntMax} \cup {e.remaining : e \in {x \in Range(list) : x.remaining # 0}})
-----------------------------------------------------------------------------
(* eap_state_machine.c *)

disable_state_watchdog(x) ==
    Unname(unschedule_alarm(x, "state_watchdog"), "state_watchdog")

reset_state_watchdog(x) ==
    schedule_alarm(disable_state_watchdog(x), StageTimeout, "state_watchdog", TRUE)

eap_state_machine_reset(x) ==
    [disable_state_watchdog(x) EXCEPT
        !.last_recv_frame = "NULL", !.state_last_count = 0, !.state = "UNKNOWN",
        !.auth_round = 1, !.fail_count = 0]

\* Mutant: state, not g_ever_sent_start, decides on the Logoff.
exit_by_state(x, why) ==
    [x EXCEPT !.exit = why,
              !.logoff = x.state \notin {"UNKNOWN", "PREPARING"} /\ ~x.in_capture_callback,
              !.online = FALSE, !.alarm_list = <<>>, !.add_temp = <<>>, !.timer = 0,
              !.ringing = FALSE, !.last_set_time = 0]

\* exit() and its exit_handler: the Logoff is sent unless no Start ever was or
\* a capture callback is on the stack, and pid_lock_destroy clears the marker.
exit(x, why) ==
    LET logoff == x.ever_sent_start /\ ~x.in_capture_callback
        y      == IF logoff THEN prepare_frame(x) ELSE x
    IN  [y EXCEPT !.exit = why, !.logoff = logoff,
                  !.online = FALSE, !.alarm_list = <<>>, !.add_temp = <<>>, !.timer = 0,
                  !.ringing = FALSE, !.last_set_time = 0]

crash(x) == [x EXCEPT !.exit = "crash", !.alarm_list = <<>>, !.add_temp = <<>>,
                      !.timer = 0, !.ringing = FALSE, !.last_set_time = 0]

Running(x) == x.exit = "no"

\* The first half of switch_to_state: count a repetition, or arm a watchdog.
\* With no limit the count is left at 0 (bound).
enter_state(x, state) ==
    IF x.state = state
    THEN LET count == IF MaxRetries = 0 THEN 0 ELSE x.state_last_count + 1
             y     == [x EXCEPT !.state_last_count = count]
         IN  IF MaxRetries # 0 /\ count = MaxRetries THEN exit(y, "retries") ELSE y
    ELSE reset_state_watchdog([x EXCEPT !.state_last_count = 0])

\* A packet that cannot be sent fails the transition function, which ends the
\* process.
send(x) ==
    LET y == prepare_frame(x) IN IF x.link THEN y ELSE exit(y, "send")

\* The state is set when the transition function has succeeded.
arrive(x, state) == IF Running(x) THEN [x EXCEPT !.state = state] ELSE x

switch_to_start_sent(x) ==
    LET y == enter_state(x, "START_SENT")
    IN  IF ~Running(y) THEN y
        ELSE arrive(send([y EXCEPT !.ever_sent_start = TRUE]), "START_SENT")

process_success(x) ==
    LET y == Unname(unschedule_alarm(x, "restart_auth"), "restart_auth")
    IN  IF y.auth_round = AuthRound
        THEN eap_state_machine_reset([y EXCEPT !.online = TRUE])
        ELSE switch_to_start_sent([y EXCEPT !.fail_count = 0, !.auth_round = @ + 1])

\* Mutant: an instance forced offline waits for the server.
process_failure_waits(x) ==
    IF x.state = "SUCCESS"
    THEN IF RestartOnLogoff THEN [x EXCEPT !.online = FALSE] ELSE exit(x, "offline")
    ELSE LET count == IF MaxFailures = 0 THEN 0 ELSE x.fail_count + 1
             y     == [x EXCEPT !.fail_count = count]
         IN  IF MaxFailures # 0 /\ count = MaxFailures THEN exit(y, "failures")
             ELSE schedule_alarm(
                    Unname(unschedule_alarm(y, "restart_auth"), "restart_auth"),
                    WaitAfterFail, "restart_auth", TRUE)

process_failure(x) ==
    IF x.state = "SUCCESS"
    THEN IF RestartOnLogoff
         THEN schedule_alarm([x EXCEPT !.online = FALSE], 1, "restart_auth", FALSE)
         ELSE exit(x, "offline")
    ELSE LET count == IF MaxFailures = 0 THEN 0 ELSE x.fail_count + 1
             y     == [x EXCEPT !.fail_count = count]
         IN  IF MaxFailures # 0 /\ count = MaxFailures THEN exit(y, "failures")
             ELSE schedule_alarm(
                    Unname(unschedule_alarm(y, "restart_auth"), "restart_auth"),
                    WaitAfterFail, "restart_auth", TRUE)

\* EAP_STATE_UNKNOWN has no transition function, and the responses read the
\* frame they answer: a call through NULL and a read through NULL.
switch_to_state(x, state, f) ==
    LET y == enter_state(x, state)
    IN  CASE ~Running(y) -> y
          [] Running(y) /\ state = "UNKNOWN" -> crash(y)
          [] Running(y) /\ state = "START_SENT" -> switch_to_start_sent(x)
          [] Running(y) /\ state \in {"IDENTITY_SENT", "CHALLENGE_SENT"} ->
                IF f = "NULL" THEN crash(y) ELSE arrive(send(y), state)
          [] Running(y) /\ state = "SUCCESS" ->
                arrive(process_success(disable_state_watchdog(y)), state)
          [] Running(y) /\ state = "FAILURE" ->
                arrive(process_failure(disable_state_watchdog(y)), state)

\* Mutant: the failures are counted from 0 again after a retry.
restart_auth_forgets(x) ==
    switch_to_start_sent([eap_state_machine_reset(Unname(x, "restart_auth"))
                             EXCEPT !.accepted = 0])

restart_auth(x) ==
    LET y == eap_state_machine_reset(Unname(x, "restart_auth"))
    IN  switch_to_start_sent([y EXCEPT !.fail_count = x.fail_count, !.accepted = 0])

\* Mutant: the watchdog barks once.
state_watchdog_once(x) ==
    switch_to_state(x, x.state, x.last_recv_frame)

state_watchdog(x) ==
    LET y == switch_to_state(x, x.state, x.last_recv_frame)
    IN  IF Running(y) THEN reset_state_watchdog(y) ELSE y

callback(x, func) ==
    CASE func = "state_watchdog" -> state_watchdog(x)
      [] func = "restart_auth"   -> restart_auth(x)
      [] func \in PluginAlarms   -> plugin_alarm(x, func)

later(e, secs) == [e EXCEPT !.remaining = @ - secs]

\* update_remaining
due(x) ==
    LET list == [i \in DOMAIN x.alarm_list |-> later(x.alarm_list[i], x.last_set_time)]
    IN  [x EXCEPT !.ringing = TRUE, !.timer = 0, !.alarm_list = list]

fire_single(x, event) ==
    IF ~Running(x) \/ event.remaining > 0 THEN x ELSE callback(x, event.func)

\* The memory after each of the events.
firing(x) ==
    LET fired[i \in 0..Len(x.alarm_list)] ==
            IF i = 0 THEN due(x) ELSE fire_single(fired[i - 1], due(x).alarm_list[i])
    IN  fired

\* alarm_sig_handler
ring(x) ==
    LET fired == firing(x)[Len(x.alarm_list)]
        left  == filter(fired.alarm_list, {e \in Range(fired.alarm_list) : alarm_valid(e)})
                   \o fired.add_temp
    IN  IF ~Running(fired) THEN fired
        ELSE set_alarm([fired EXCEPT !.alarm_list = left, !.add_temp = <<>>,
                                     !.ringing = FALSE],
                       find_min_remaining(left))
-----------------------------------------------------------------------------
Init ==
    /\ \E plugin \in PluginInits :
       m = [state |-> "UNKNOWN", state_last_count |-> 0, auth_round |-> 1,
            fail_count |-> 0, last_recv_frame |-> "NULL",
            ever_sent_start |-> FALSE, in_capture_callback |-> FALSE,
            alarm_list |-> <<>>, add_temp |-> <<>>, ringing |-> FALSE,
            last_set_time |-> 0, timer |-> 0,
            link |-> TRUE, breakloop |-> FALSE, online |-> FALSE,
            exit |-> "no", logoff |-> FALSE, plugin |-> plugin,
            accepted |-> 0, rejected |-> 0]
    /\ pc = "main" /\ frame = "NULL" /\ naps = 0

\* main: switch_to_state(EAP_STATE_PREPARING), up to the sleep that follows the
\* Logoff; it is of no matter whether that Logoff could be sent.
Prepare ==
    /\ Running(m) /\ pc = "main"
    /\ m' = enter_state(m, "PREPARING")
    /\ naps' = IF LogoffBeforeStart THEN 2 ELSE 0
    /\ pc' = "preparing"
    /\ UNCHANGED frame

\* Mutant: starting the capture forgets a stop asked for before.
StartCapture_resets ==
    /\ Running(m) /\ pc = "preparing" /\ naps = 0
    /\ m' = [switch_to_start_sent(m) EXCEPT !.breakloop = FALSE]
    /\ pc' = IF Running(m') THEN "capture" ELSE "main"
    /\ UNCHANGED <<frame, naps>>

\* The rest of trans_to_preparing, which blocks in start_capture.
StartCapture ==
    /\ Running(m) /\ pc = "preparing" /\ naps = 0
    /\ m' = switch_to_start_sent(m)
    /\ pc' = IF Running(m') THEN "capture" ELSE "main"
    /\ UNCHANGED <<frame, naps>>

\* start_capture returns after stop_capture: the outer switch_to_state sets
\* PREPARING, main returns.
CaptureReturns ==
    /\ Running(m) /\ pc = "capture" /\ m.breakloop
    /\ m' = exit(arrive(m, "PREPARING"), "stopped")
    /\ pc' = "main"
    /\ UNCHANGED <<frame, naps>>

\* eap_state_machine_recv_handler frees the last frame, copies the new one (and
\* shows it to the plugins) and switches state.
ReceiveFrame ==
    /\ Running(m) /\ pc = "capture" /\ ~m.breakloop
    /\ Len(m.alarm_list) < MaxAlarms
    /\ frame' \in Frames
    /\ m' = [m EXCEPT !.in_capture_callback = TRUE, !.last_recv_frame = "NULL"]
    /\ pc' = "copying"
    /\ UNCHANGED naps

CopyFrame ==
    /\ Running(m) /\ pc = "copying"
    /\ m' = on_frame_received([m EXCEPT !.last_recv_frame = frame], frame)
    /\ pc' = "received"
    /\ UNCHANGED <<frame, naps>>

\* The switch_to_state a frame calls for.
handle(x, f) ==
    CASE f = "identity"  -> switch_to_state(x, "IDENTITY_SENT", f)
      [] f = "challenge" -> switch_to_state(x, "CHALLENGE_SENT", f)
      [] f \in {"success", "success_key"} -> switch_to_state(
            [x EXCEPT !.accepted = Capped(@, AuthRound), !.rejected = 0], "SUCCESS", f)
      [] f = "failure"   -> switch_to_state(
            [x EXCEPT !.accepted = 0, !.rejected = Capped(@, MaxFailures + 2)], "FAILURE", f)
      [] f = "other"     -> x

HandleFrame ==
    /\ Running(m) /\ pc = "received"
    /\ LET y == handle(m, frame)
       IN  m' = IF Running(y) THEN [y EXCEPT !.in_capture_callback = FALSE] ELSE y
    /\ pc' = "capture" /\ frame' = "NULL"
    /\ UNCHANGED naps

\* Whether time matters: the timer runs, and no call is about to follow a sleep.
ClockRuns ==
    /\ Running(m) /\ pc # "main"
    /\ ~(pc = "preparing" /\ naps = 0)
    /\ m.timer \in 1..(IntMax - 1)

\* A second passes.  SIGALRM preempts the thread, and cuts a sleep short.
Tick ==
    /\ ClockRuns
    /\ IF m.timer = 1
       THEN m' = ring(m) /\ naps' = 0
       ELSE m' = [m EXCEPT !.timer = @ - 1]
            /\ naps' = IF naps = 0 THEN 0 ELSE naps - 1
    /\ UNCHANGED <<pc, frame>>

\* SIGTERM: signal_handler only asks start_capture to return.
Terminate ==
    /\ Running(m) /\ pc # "main" /\ ~m.breakloop
    /\ m' = [m EXCEPT !.breakloop = TRUE]
    /\ naps' = 0
    /\ UNCHANGED <<pc, frame>>

\* The cable is pulled or plugged in, the machine sleeps or wakes.
LinkChanges ==
    /\ Running(m)
    /\ m' = [m EXCEPT !.link = ~@]
    /\ UNCHANGED <<pc, frame, naps>>

\* The main thread has something to do other than to wait for a frame.
ThreadRuns ==
    /\ Running(m)
    /\ \/ pc \in {"main", "copying", "received"}
       \/ pc = "preparing" /\ naps = 0
       \/ pc = "capture" /\ m.breakloop

Next == Prepare \/ StartCapture \/ CaptureReturns \/ ReceiveFrame \/ CopyFrame
        \/ HandleFrame \/ Tick \/ Terminate \/ LinkChanges

Spec == Init /\ [][Next]_vars

\* The thread runs, and so does the clock. Both are weak fairness written out,
\* because TLC is slow at ENABLED here. The thread: only its own steps and a stop
\* of the process make ThreadRuns false, so a thread that always runs is one
\* that never gets to take its steps. The clock: with a limit on retries every
\* Tick is a step that moves the timer, counts a retry or uses up a restart.
\* Nothing is assumed of the network.
Fairness == []<>~ThreadRuns /\ (<>[]ClockRuns => []<><<Tick>>_vars)

FairSpec == Spec /\ Fairness
-----------------------------------------------------------------------------
(* Properties. *)

TypeOK ==
    /\ m \in Memory
    /\ pc \in {"main", "preparing", "capture", "copying", "received"}
    /\ frame \in Frames \cup {"NULL"}
    /\ naps \in 0..2

Pending(func) == {e \in Range(m.alarm_list) : e.func = func}

\* A process that runs has something to wake it: a watchdog it can still cancel
\* while it waits for the server, a restart after a failure, and a kernel timer
\* for them.
NeverStuck ==
    Running(m) =>
        /\ m.state \in Waiting => \E e \in Pending("state_watchdog") : e.named
        /\ m.state = "FAILURE" => Pending("restart_auth") # {}
        /\ m.alarm_list # <<>> => m.timer \in 1..(IntMax - 1)

\* A wrong password does not retry for ever (restart_auth: "Only a success clears
\* it now").  However retries, timeouts and server requests mix in between, the
\* process ends at the failure max_failures allows, the one that took it
\* offline not counted.
GivesUp ==
    MaxFailures # 0 =>
        /\ Running(m) => m.rejected <= MaxFailures
        /\ m.rejected <= MaxFailures + 1

\* A stop asked for with a signal logs off from the server, whatever state the
\* authentication is in: once a Start was sent the server may hold a session.
StopLogsOff == m.exit = "stopped" => m.logoff

\* After a failure the process tries again or ends, whatever the server does.
FailureLeadsOn ==
    m.state = "FAILURE" ~> m.state # "FAILURE" \/ ~Running(m)

\* config.h: "Max number of retries(timeouts) before we have a result".  With a
\* limit, the process does not wait for ever in any stage.
NoStageForEver ==
    \A s \in Waiting : m.state = s ~> m.state # s \/ ~Running(m)

\* A stop asked for with a signal ends the process, wherever the signal found it.
StopEnds == m.breakloop ~> ~Running(m)
-----------------------------------------------------------------------------
(* What comments say of the program and TLC refutes (README). *)

\* pid_lock.h: the marker is "Written only once EAP_SUCCESS is actually
\* reached"; with several rounds, by as many Successes of the server.
MarkerEarned == [][m'.online /\ ~m.online => m'.accepted = AuthRound]_vars

\* config.h: "Max number of CONTINOUS failures before we exit."
FailuresAreFailures == m.exit = "failures" => m.rejected >= MaxFailures

\* "Re-transmit the response to last frame": while a response may have to be
\* sent again, there is a last frame to respond to.
RetransmitHasFrame ==
    Running(m) /\ pc = "capture" /\ m.state \in {"IDENTITY_SENT", "CHALLENGE_SENT"}
        => m.last_recv_frame # "NULL"

\* exit() "on pcap_loop's stack" sends no Logoff: "sending another packet through
\* the same pcap handle from there would re-enter libpcap and can hang".
NoLogoffInsideCapture == m.logoff => pc \notin {"capture", "copying", "received"}
-----------------------------------------------------------------------------
(* The inductive invariants behind them. *)

Seconds == 1..(IntMax - 1)

\* Inside a ring the list may hold alarms that are due; between two rings it holds
\* none, nor one marked for deletion, and a kernel timer runs for what it holds.
ListsInOrder(x) ==
    /\ x.timer <= IntMax
    /\ \A k \in DOMAIN x.add_temp :
            x.add_temp[k].remaining \in Seconds /\ ~x.add_temp[k].marked_delete
    /\ \A k \in DOMAIN x.alarm_list : x.alarm_list[k].remaining < IntMax
    /\ ~x.ringing =>
            /\ x.add_temp = <<>>
            /\ \A k \in DOMAIN x.alarm_list :
                 x.alarm_list[k].remaining > 0 /\ ~x.alarm_list[k].marked_delete
            /\ x.alarm_list # <<>> => x.timer \in Seconds

\* An alarm for func is still to come when the ring has dealt with the first i events:
\* a new one, one that is not due, or one whose turn has not come.
Held(x, i, func, named) ==
    \/ \E k \in DOMAIN x.add_temp :
            x.add_temp[k].func = func /\ (named => x.add_temp[k].named)
    \/ \E k \in DOMAIN x.alarm_list :
            /\ x.alarm_list[k].func = func /\ (named => x.alarm_list[k].named)
            /\ ~x.alarm_list[k].marked_delete
            /\ x.alarm_list[k].remaining > 0 \/ k > i

Armed(x, i) ==
    Running(x) =>
        /\ x.state \in Waiting => Held(x, i, "state_watchdog", TRUE)
        /\ x.state = "FAILURE" => Held(x, i, "restart_auth", FALSE)

\* fail_count may miss the failure that took the process offline, and no other.
Counted(x) ==
    MaxFailures # 0 /\ Running(x) =>
        /\ x.fail_count < MaxFailures
        /\ x.rejected <= x.fail_count + 1
        /\ x.state = "SUCCESS" => x.rejected = 0

\* The state is UNKNOWN while main is in its switch to PREPARING.
Sound(x, i) ==
    /\ x \in Memory /\ ListsInOrder(x)
    /\ Running(x) => x.state # "PREPARING"
    /\ Armed(x, i) /\ Counted(x)

ThreadInPlace ==
    /\ Running(m) /\ pc \in {"capture", "copying", "received"} => m.ever_sent_start
    /\ Running(m) => (m.in_capture_callback <=> pc \in {"copying", "received"})
    /\ pc \in {"copying", "received"} => frame \in Frames
    /\ m.exit = "stopped" => m.logoff

MachineInv ==
    TypeOK /\ ~m.ringing /\ Sound(m, 0) /\ GivesUp /\ ThreadInPlace
=============================================================================
