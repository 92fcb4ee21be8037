------------------------------ MODULE Process ------------------------------
(* A minieap process from main to the end of its exit handler: the objects    *)
(* it builds and frees, the driver it captures with, its log, and the         *)
(* signals that come between any two of its steps.                            *)
EXTENDS Drivers

CONSTANTS
    DriverNames,     \* the drivers that are linked in, in order (a sequence)
    Daemonize,       \* the values of --daemonize that are tried
    LogFileOpens     \* the values of "the log file can be opened" that are tried

ASSUME ProcessAssumption ==
    /\ Daemonize \subseteq 0..3 /\ LogFileOpens \subseteq BOOLEAN
    /\ DriverNames \in Seq({"libpcap", "bpf", "sockraw"})

VARIABLES
    pc,          \* where the main thread is
    impls,       \* g_if_impl_list
    selected,    \* g_selected_impl, an index of impls or 0 (NULL); never reset
    daemon_type, \* PROG_CONFIG.daemon_type
    lock_option, \* "none": --pid-file none, "replace": KILL_AND_START, or "lock"
    log,         \* [dest, fp, open, file_opens]: logging.c and the streams
    machine,     \* the state machine: "none", "ready" or "destroyed"
    timer,       \* an alarm is scheduled
    started,     \* g_ever_sent_start
    in_callback, \* g_in_capture_callback
    in_alarm,    \* exit was called by a callback of an alarm: SIGALRM is blocked
    locked,      \* the lock on the PID file is held
    asked,       \* history: a stop was requested of an open driver
    reentered,   \* history: exit was called again inside the exit handler
    unowned,     \* history: a frame was sent without the lock
    offered,     \* history: the Logoff was tried on the open driver
    lost,        \* history: a line was logged to a stream that is closed
    stale        \* history: an object was used after it had been freed

vars == <<pc, impls, selected, daemon_type, lock_option, log, machine, timer, started,
          in_callback, in_alarm, locked, asked, reentered, unowned, offered, lost, stale>>

Impl == impls[selected]
Freed == \E i \in DOMAIN impls : impls[i].freed
Options == <<daemon_type, lock_option>>
Chosen == <<selected, Options>>
History == <<asked, reentered, unowned, offered, stale>>

StartUp == <<"log", "config", "select", "setup", "set_ifname", "prepare", "machine", "lock",
             "daemon", "save_pid", "preparing">>
\* Mutant: the driver is freed before the Logoff.
ExitSteps_freeing_first ==
    <<"free_if_impl", "logoff", "packet_plugin_destroy", "eap_state_machine_destroy",
      "sched_alarm_destroy", "pid_lock_destroy", "free_config", "close_log">>

\* exit_handler.
ExitSteps == <<"logoff", "free_if_impl", "packet_plugin_destroy", "eap_state_machine_destroy",
               "sched_alarm_destroy", "pid_lock_destroy", "free_config", "close_log">>
After(steps, step, end) ==
    LET i == CHOOSE i \in DOMAIN steps : steps[i] = step
    IN  IF i = Len(steps) THEN end ELSE steps[i + 1]
AtExit == ExitSteps[1]
Exiting == \E i \in DOMAIN ExitSteps : pc = ExitSteps[i]
-----------------------------------------------------------------------------
(* Logging *)

DAEMON_TYPE == 0..3

\* Where a daemon type sends the log.  The stream is not changed yet.
configure_log_by_daemon_type(l, type) ==
    [l EXCEPT !.dest = IF type \in {1, 3} THEN "LOG_TO_FILE" ELSE "LOG_TO_CONSOLE"]

\* A file that does not open leaves stdout, wherever stdout now goes.
start_log(l, type) ==
    LET opens == type = 1 \/ l.file_opens
    IN  IF l.dest = "LOG_TO_CONSOLE" THEN [l EXCEPT !.fp = "stdout"]
        ELSE IF opens THEN [l EXCEPT !.fp = "file", !.open = @ \cup {"file"}]
        ELSE [l EXCEPT !.fp = "stdout", !.dest = "LOG_TO_CONSOLE"]

\* It closes the stream that is used, which is stdout until start_log has run again.
close_log(l) == IF l.dest = "LOG_TO_FILE" THEN [l EXCEPT !.open = @ \ {l.fp}] ELSE l

\* Without a stream a line goes to stdout.
print_raw_line(l) == IF l.fp = "none" THEN "stdout" ELSE l.fp
print_log(l) == lost' = (lost \/ print_raw_line(l) \notin l.open)
-----------------------------------------------------------------------------
Init ==
    /\ pc = "log" /\ impls = <<>> /\ selected = 0 /\ daemon_type = 0 /\ lock_option = "lock"
    /\ \E opens \in LogFileOpens :
        log = [dest |-> "LOG_TO_CONSOLE", fp |-> "none", open |-> {"stdout"}, file_opens |-> opens]
    /\ machine = "none" /\ timer = FALSE /\ started = FALSE /\ in_callback = FALSE
    /\ in_alarm = FALSE /\ locked = FALSE /\ asked = FALSE /\ reentered = FALSE
    /\ unowned = FALSE /\ offered = FALSE /\ lost = FALSE /\ stale = FALSE

Go(step) == pc = step /\ pc' = After(StartUp, step, "capture")
\* An error is logged and main returns, or exit is called.
Fail(l)  == pc' = AtExit /\ print_log(l)
NoneSent == UNCHANGED <<started, in_callback, in_alarm, timer, History>>

\* The list of the drivers, in the order of the linker.
init_if_impl_list ==
    [i \in DOMAIN DriverNames |-> CASE DriverNames[i] = "libpcap" -> libpcap_new
                                    [] DriverNames[i] = "bpf"     -> bpf_new
                                    [] DriverNames[i] = "sockraw" -> sockraw_new]

StartLog ==
    /\ Go("log")
    /\ log' = start_log([log EXCEPT !.dest = "LOG_TO_CONSOLE"], 0)
    /\ impls' = init_if_impl_list
    /\ print_log(log')
    /\ NoneSent /\ UNCHANGED <<Chosen, machine, locked>>

\* The configuration, of module Config.
InitProgramConfig ==
    /\ pc = "config"
    /\ \E type \in Daemonize :
        /\ daemon_type' = type
        /\ log' = configure_log_by_daemon_type(log, type)
    /\ lock_option' \in {"lock", "replace", "none"}
    /\ \/ pc' = "select" /\ UNCHANGED lost
       \/ Fail(log')
    /\ NoneSent /\ UNCHANGED <<impls, selected, machine, locked>>

\* NULL selects the first one, if there is one.
select_if_impl(name) ==
    IF name = "NULL" THEN (IF impls = <<>> THEN 0 ELSE 1)
    ELSE IF \E i \in DOMAIN impls : impls[i].name = name
    THEN CHOOSE i \in DOMAIN impls : impls[i].name = name
    ELSE 0

SelectIfImpl ==
    /\ pc = "select"
    /\ \E name \in {"NULL", "unknown"} \cup {impls[i].name : i \in DOMAIN impls} :
        selected' = select_if_impl(name)
    /\ IF selected' = 0 THEN Fail(log) ELSE pc' = "setup" /\ UNCHANGED lost
    /\ NoneSent /\ UNCHANGED <<impls, Options, log, machine, locked>>

\* The plugins' options, the save and pid_lock_init.
InitPluginConfig ==
    /\ pc = "setup"
    /\ \/ pc' = "set_ifname" /\ UNCHANGED lost
       \/ Fail(log)
    /\ NoneSent /\ UNCHANGED <<impls, Chosen, log, machine, locked>>

\* init_if, in two steps: a signal may come before the driver has a device.
SetIfname ==
    /\ pc = "set_ifname"
    /\ \E set \in set_ifname(Impl, "nic") :
        /\ impls' = [impls EXCEPT ![selected] =
                        IF set.ok THEN setup_capture_params(set.impl, ETH_P_PAE, FALSE).impl ELSE set.impl]
        /\ IF set.ok THEN pc' = "prepare" /\ UNCHANGED lost ELSE Fail(log)
    /\ NoneSent /\ UNCHANGED <<Chosen, log, machine, locked>>

\* Mutant: the answer of prepare_interface is not looked at.
PrepareInterface_unchecked ==
    /\ Go("prepare")
    /\ \E prepared \in prepare_interface(Impl) : impls' = [impls EXCEPT ![selected] = prepared.impl]
    /\ NoneSent /\ UNCHANGED <<Chosen, log, machine, locked, lost>>

PrepareInterface ==
    /\ pc = "prepare"
    /\ \E prepared \in prepare_interface(Impl) :
        /\ impls' = [impls EXCEPT ![selected] =
                        IF prepared.ok
                        THEN set_frame_handler(prepared.impl, "eap_state_machine_recv_handler")
                        ELSE prepared.impl]
        /\ IF prepared.ok THEN pc' = "machine" /\ UNCHANGED lost ELSE Fail(log)
    /\ NoneSent /\ UNCHANGED <<Chosen, log, machine, locked>>

\* eap_state_machine_init and sched_alarm_init.
MachineInit ==
    /\ Go("machine")
    /\ machine' = "ready"
    /\ NoneSent /\ UNCHANGED <<impls, Chosen, log, locked, lost>>

\* With --pid-file none there is no lock to take.  Otherwise flock gives it, or it is
\* held by another process: KILL_AND_START sends that one a SIGTERM and goes on
\* without it, anything else ends here, as do errors.
pid_lock_lock ==
    /\ pc = "lock"
    /\ \/ /\ lock_option = "none"
          /\ locked' = FALSE /\ pc' = "daemon" /\ UNCHANGED lost
       \/ /\ lock_option # "none"
          /\ locked' = TRUE /\ pc' = "daemon" /\ UNCHANGED lost
       \/ /\ lock_option = "replace"
          /\ locked' = FALSE /\ pc' = "daemon" /\ print_log(log)
       \/ /\ lock_option # "none"
          /\ locked' = FALSE /\ Fail(log)
    /\ NoneSent /\ UNCHANGED <<impls, Chosen, log, machine>>

\* Mutant: the log is closed once it has been started.
apply_log_daemon_params_late(l) == close_log(start_log(l, daemon_type))

\* The parent of the fork ends without its exit handler; what goes on is the child,
\* or the process itself when it could not fork.
apply_log_daemon_params(l) == start_log(close_log(l), daemon_type)

ApplyLogDaemonParams ==
    /\ Go("daemon")
    /\ log' = apply_log_daemon_params(log)
    /\ lost' = (lost \/ log.fp \notin log.open \/ log'.fp \notin log'.open)
    /\ NoneSent /\ UNCHANGED <<impls, Chosen, machine, locked>>

SavePid ==
    /\ pc = "save_pid"
    /\ \/ pc' = "preparing" /\ UNCHANGED lost
       \/ lock_option # "none" /\ Fail(log)
    /\ NoneSent /\ UNCHANGED <<impls, Chosen, log, machine, locked>>

\* A frame goes out, when the driver takes it.
Send(ok) == unowned' = (unowned \/ (ok /\ ~locked))

\* The first Start; with a watchdog it can be sent again.
Prepare ==
    /\ pc = "preparing"
    /\ started' = TRUE /\ timer' = TRUE
    /\ \E ok \in send_frame(Impl) :
        /\ Send(ok)
        /\ IF ok THEN pc' = "capture" ELSE pc' = AtExit
    /\ print_log(log)
    /\ UNCHANGED <<impls, Chosen, log, machine, in_callback, in_alarm, locked, asked,
                   reentered, offered, stale>>

\* The loop looks whether it is to end; with a frame it may call the handler.
Capture(frame) ==
    LET loop == start_capture(Impl, frame) IN
    /\ pc = "capture"
    /\ impls' = [impls EXCEPT ![selected] = loop.impl]
    /\ in_callback' = (loop.what = "handler")
    /\ pc' = CASE loop.what = "handler" -> "callback"
               [] loop.what = "ended"   -> AtExit
               [] loop.what = "waits"   -> "capture"
    /\ UNCHANGED <<Chosen, log, machine, timer, started, in_alarm, locked, lost, History>>

\* The device is gone: the loop ends with an error.
CaptureFails ==
    /\ pc = "capture"
    /\ pc' = AtExit
    /\ impls' = [impls EXCEPT ![selected].stop = FALSE]
    /\ UNCHANGED <<Chosen, log, machine, timer, started, in_callback, in_alarm, locked, lost,
                   History>>

\* The handler, of EapStateMachine: it returns, or it calls exit.
Callback ==
    /\ pc = "callback"
    /\ \/ pc' = "capture" /\ in_callback' = FALSE
       \/ pc' = AtExit /\ UNCHANGED in_callback
    /\ timer' \in BOOLEAN
    /\ print_log(log)
    /\ UNCHANGED <<impls, Chosen, log, machine, started, in_alarm, locked, History>>
-----------------------------------------------------------------------------
(* The end *)

\* Mutant: a Logoff is sent whether or not there was a Start.
send_logoff_always ==
    /\ pc = "logoff" /\ pc' = After(ExitSteps, pc, "gone")
    /\ IF machine = "ready" /\ selected # 0 /\ ~in_callback
       THEN (\E ok \in send_frame(Impl) : Send(ok)) /\ offered' = TRUE
       ELSE UNCHANGED <<unowned, offered>>
    /\ UNCHANGED <<impls, Chosen, log, machine, timer, started, in_callback, in_alarm, locked, asked,
                   reentered, lost, stale>>

\* Not without a builder, a Start or a driver, and not from inside the handler.
eap_state_machine_send_logoff ==
    /\ pc = "logoff" /\ pc' = After(ExitSteps, pc, "gone")
    /\ IF machine = "ready" /\ started /\ selected # 0 /\ ~in_callback
       THEN (\E ok \in send_frame(Impl) : Send(ok)) /\ offered' = (~Impl.freed)
       ELSE UNCHANGED <<unowned, offered>>
    /\ UNCHANGED <<impls, Chosen, log, machine, timer, started, in_callback, in_alarm, locked, asked,
                   reentered, lost, stale>>

\* Every driver of the list is destroyed; g_selected_impl still points to one.
free_if_impl == impls' = [i \in DOMAIN impls |-> destroy(impls[i])]

\* The builder and the copy of the last frame go.
eap_state_machine_destroy == machine' = "destroyed"

\* The events go, then the timer.
sched_alarm_destroy == timer' = FALSE

\* The lock goes with the descriptor, as in PidLock.
pid_lock_destroy == locked' = FALSE

\* The steps of exit_handler after the Logoff, in their order.  The plugins and the
\* configuration are freed in steps that change nothing else here.
exit_handler ==
    /\ Exiting /\ pc # "logoff"
    /\ pc' = After(ExitSteps, pc, "gone")
    /\ IF pc = "free_if_impl" THEN free_if_impl ELSE UNCHANGED impls
    /\ IF pc = "eap_state_machine_destroy" THEN eap_state_machine_destroy ELSE UNCHANGED machine
    /\ IF pc = "sched_alarm_destroy" THEN sched_alarm_destroy ELSE UNCHANGED timer
    /\ IF pc = "pid_lock_destroy" THEN pid_lock_destroy ELSE UNCHANGED locked
    /\ log' = IF pc = "close_log" THEN close_log(log) ELSE log
    /\ IF pc = "close_log" THEN print_log(log) ELSE UNCHANGED lost
    /\ UNCHANGED <<Chosen, started, in_callback, in_alarm, History>>
-----------------------------------------------------------------------------
(* Signals *)

\* SIGHUP, SIGINT or SIGTERM.  Before a driver is selected the handler calls exit; in
\* the exit handler that ends the process at once: a handler that has begun is not
\* called again, and not resumed either.
signal_handler ==
    /\ pc # "gone"
    /\ IF selected = 0
       THEN /\ pc' = IF Exiting THEN "gone" ELSE AtExit
            /\ reentered' = (reentered \/ Exiting)
            /\ UNCHANGED <<impls, asked, stale>>
       ELSE /\ stale' = (stale \/ Impl.freed)
            /\ impls' = IF Impl.freed THEN impls
                        ELSE [impls EXCEPT ![selected] = stop_capture(Impl).impl]
            /\ asked' = (asked \/ (~Impl.freed /\ Impl.dev = "open"))
            /\ UNCHANGED <<pc, reentered>>
    /\ UNCHANGED <<Chosen, log, machine, timer, started, in_callback, in_alarm, locked, unowned,
                   offered, lost>>

\* An alarm rings where the main thread is, in the exit handler too: it may send
\* through the driver, schedules another alarm or none, and may call exit.
alarm_sig_handler ==
    /\ timer /\ ~in_alarm /\ pc # "gone"
    /\ stale' = (stale \/ Impl.freed \/ machine = "destroyed")
    /\ timer' \in BOOLEAN
    /\ \E ok \in {FALSE} \cup (IF Impl.freed THEN {} ELSE send_frame(Impl)) : Send(ok)
    /\ print_log(log)
    /\ \/ UNCHANGED <<pc, in_alarm, reentered>>
       \/ /\ pc \in {"capture", "callback"} /\ pc' = AtExit
          /\ in_alarm' = TRUE /\ UNCHANGED reentered
       \/ /\ Exiting /\ pc' = "gone"
          /\ in_alarm' = TRUE /\ reentered' = TRUE
    /\ UNCHANGED <<impls, Chosen, log, machine, started, in_callback, locked, asked, offered>>
-----------------------------------------------------------------------------
\* The steps the main thread takes of its own accord.
Main ==
    \/ StartLog \/ InitProgramConfig \/ SelectIfImpl \/ InitPluginConfig
    \/ SetIfname \/ PrepareInterface \/ MachineInit \/ pid_lock_lock
    \/ ApplyLogDaemonParams \/ SavePid \/ Prepare
    \/ Capture(FALSE) \/ Callback
    \/ eap_state_machine_send_logoff \/ exit_handler

Next == Main \/ Capture(TRUE) \/ CaptureFails \/ signal_handler \/ alarm_sig_handler

Spec == Init /\ [][Next]_vars

\* The main thread runs.  bpf and sockraw are given a frame time and again: on a
\* network where none comes they do not look at their flag.
Fairness ==
    /\ WF_vars(Main)
    /\ WF_vars(selected # 0 /\ Impl.name # "libpcap" /\ Capture(TRUE))
FairSpec == Spec /\ Fairness
-----------------------------------------------------------------------------
InLoop == {"capture", "callback"}
PC == {StartUp[i] : i \in DOMAIN StartUp} \cup {ExitSteps[i] : i \in DOMAIN ExitSteps}
        \cup InLoop \cup {"gone"}

LOG == [dest : {"LOG_TO_CONSOLE", "LOG_TO_FILE"}, fp : {"none", "stdout", "file"},
        open : SUBSET {"stdout", "file"}, file_opens : BOOLEAN]

\* The loop runs on a driver that is open, with its handler set and the state machine
\* ready.
TypeOK ==
    /\ pc \in PC /\ impls \in Seq(IF_IMPL)
    /\ selected \in 0..Len(impls) /\ daemon_type \in DAEMON_TYPE /\ log \in LOG
    /\ machine \in {"none", "ready", "destroyed"} /\ lock_option \in {"lock", "replace", "none"}
    /\ timer \in BOOLEAN /\ started \in BOOLEAN /\ in_callback \in BOOLEAN /\ locked \in BOOLEAN
    /\ in_alarm \in BOOLEAN /\ reentered \in BOOLEAN
    /\ asked \in BOOLEAN /\ unowned \in BOOLEAN /\ offered \in BOOLEAN /\ lost \in BOOLEAN
    /\ stale \in BOOLEAN
    /\ pc \in InLoop => /\ Impl.dev = "open" /\ ~Impl.freed /\ machine = "ready"
                        /\ Impl.handler = "eap_state_machine_recv_handler"
-----------------------------------------------------------------------------
(* Properties *)

\* A process that sent a Start offers its Logoff to the driver before it closes it
\* ("Must run before the interface is torn down", minieap.c:171), and before it is
\* gone, whichever step, signal or alarm ends it.  Two exits get by without: one from
\* inside the frame handler, which skips the Logoff, and an exit inside the exit
\* handler, which leaves with the driver still open (see AlwaysLoggedOff).
LoggedOffBeforeClosed ==
    /\ Freed /\ started /\ ~in_callback => offered
    /\ pc = "gone" /\ started /\ ~in_callback /\ ~reentered => offered

\* Unless its user told it to do without the lock, or not to mind who holds it, a
\* process sends only while it has the lock, its alarms and its exit handler
\* included: the Logoff of a second instance would end the session of the first.
OnlyOwnerSends == unowned => lock_option \in {"replace", "none"}

\* As long as the log file can be opened no line is lost, through the fork, the change
\* of destination and the end.
LogLinesSeen == log.file_opens => ~lost

\* A stop that finds an open driver ends the process, wherever it came and whichever
\* driver it is.
StopEnds == asked ~> pc = "gone"

\* Refuted: "the log file cannot be opened, output goes to the console" (logging.c:129),
\* but close_log has closed stdout.
FallsBackToConsole == ~lost

\* Refuted: an alarm that calls exit, as the watchdog does when it has run out of
\* retries, just when the exit handler has begun, leaves without a Logoff.
AlwaysLoggedOff == pc = "gone" /\ started /\ ~in_callback => offered

\* Refuted: an alarm or a second stop in the exit handler uses the driver that
\* free_if_impl has freed.
NothingFreedIsUsed == ~stale

-----------------------------------------------------------------------------
(* The inductive invariants behind them: what each stage of main has made sure *)
(* of when the next one begins.                                                *)

LockHeld  == {"daemon", "save_pid", "preparing"} \cup InLoop
MachineUp == {"lock"} \cup LockHeld
Prepared  == {"machine"} \cup MachineUp
HasDriver == {"setup", "set_ifname", "prepare"} \cup Prepared
LoggedOff == {ExitSteps[i] : i \in DOMAIN ExitSteps \ {1}} \cup {"gone"}
\* Up to the steps that stop the timer and drop the lock.
TimerRuns == InLoop \cup {ExitSteps[i] : i \in 1..5} \cup {"gone"}
LockKept  == {ExitSteps[i] : i \in 1..6}

StagesInOrder ==
    /\ pc = "log" => selected = 0
    /\ pc \in HasDriver \/ started => selected # 0
    /\ timer \/ unowned => started
    /\ pc \in Prepared => Impl.dev = "open" /\ Impl.handler = "eap_state_machine_recv_handler"
    /\ pc \in MachineUp => machine = "ready"
    /\ pc \in LockHeld => locked \/ lock_option # "lock"
    /\ pc \in InLoop => started

\* What a Logoff needs is there until the exit handler has tried to send it.
LogoffPossible ==
    /\ Freed => pc \in LoggedOff
    /\ started /\ pc \notin InLoop => pc \in {"logoff"} \cup LoggedOff
    /\ started /\ pc = "logoff" => machine = "ready"
    /\ started /\ pc \in LockKept => locked \/ lock_option # "lock"
    /\ timer => pc \in TimerRuns
    /\ started /\ ~in_callback /\ pc \in LoggedOff /\ ~reentered => offered
    /\ started /\ ~in_callback /\ Freed => offered
    /\ reentered => pc = "gone"

ProcessInv == TypeOK /\ StagesInOrder /\ LogoffPossible /\ OnlyOwnerSends

\* The stream that is written to is open until the log is closed.
LogInv ==
    log.file_opens =>
        /\ ~lost
        /\ pc # "gone" => /\ print_raw_line(log) \in log.open
                          /\ log.dest = "LOG_TO_CONSOLE" => "stdout" \in log.open
        /\ pc \in {"log", "config"} => log.dest = "LOG_TO_CONSOLE"
        /\ pc \in {StartUp[i] : i \in DOMAIN StartUp \ {1}} => log.fp # "none"
=============================================================================
