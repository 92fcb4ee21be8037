--------------------------- MODULE ProcessProofs ---------------------------
(* The safety of Process, for any drivers in any order, any value of           *)
(* --daemonize and any fate of the log file.                                   *)
EXTENDS Process, TLAPS

(* What the calls of a driver leave of it.                                     *)

\* Naming the interface and asking for its frames neither opens nor frees it.
LEMMA SetUp ==
    ASSUME NEW d \in IF_IMPL, NEW set \in set_ifname(d, "nic")
    PROVE  /\ set.impl \in IF_IMPL /\ set.impl.freed = d.freed
           /\ setup_capture_params(set.impl, ETH_P_PAE, FALSE).impl \in IF_IMPL
           /\ setup_capture_params(set.impl, ETH_P_PAE, FALSE).impl.freed = d.freed
<1>1. set = Failed(d) \/ set = Ok([d EXCEPT !.ifname = "nic"])
  <2>1. set_ifname(d, "nic") \in {{Ok([d EXCEPT !.ifname = "nic"])},
                                  {Failed(d), Ok([d EXCEPT !.ifname = "nic"])}}
    BY DEF set_ifname, libpcap_set_ifname, bpf_set_ifname, sockraw_set_ifname, IF_IMPL
  <2> QED
    BY <2>1
<1>2. set.impl \in IF_IMPL /\ set.impl.freed = d.freed
  <2>1. set.impl = d \/ set.impl = [d EXCEPT !.ifname = "nic"]
    BY <1>1 DEF Failed, Ok
  <2> QED
    BY <2>1 DEF IF_IMPL
<1>3. setup_capture_params(set.impl, ETH_P_PAE, FALSE).impl
        = [set.impl EXCEPT !.proto = ETH_P_PAE, !.promisc = FALSE]
  BY <1>2 DEF setup_capture_params, libpcap_setup_capture_params, bpf_setup_capture_params,
              sockraw_setup_capture_params, Ok, IF_IMPL
<1> QED
  BY <1>2, <1>3 DEF IF_IMPL

\* An interface that is prepared is open, and the frame handler is set last.
LEMMA Preparing ==
    ASSUME NEW d \in IF_IMPL, NEW prepared \in prepare_interface(d)
    PROVE  /\ prepared.impl \in IF_IMPL /\ prepared.impl.freed = d.freed
           /\ prepared.ok =>
                LET set == set_frame_handler(prepared.impl, "eap_state_machine_recv_handler")
                IN  /\ set \in IF_IMPL /\ set.freed = d.freed /\ set.dev = "open"
                    /\ set.handler = "eap_state_machine_recv_handler"
<1>1. prepared = Failed(d) \/ prepared = Failed(Opened(d)) \/ prepared = Ok(Opened(d))
  <2>1. CASE d.name = "libpcap"
    BY <2>1 DEF prepare_interface, libpcap_prepare_interface
  <2>2. CASE d.name = "bpf"
    <3>1. prepared \in bpf_prepare_interface(d)
      BY <2>2 DEF prepare_interface
    <3>2. PICK o \in {Failed(d), Ok(Opened(d))} :
             prepared \in IF o.ok THEN {Failed(o.impl), o} ELSE {o}
      BY <3>1 DEF bpf_prepare_interface, bpf_open
    <3> QED
      BY <3>2 DEF Failed, Ok
  <2>3. CASE d.name = "sockraw"
    BY <2>3 DEF prepare_interface, sockraw_prepare_interface, sockraw_bind_to_if
  <2> QED
    BY <2>1, <2>2, <2>3 DEF IF_IMPL
<1>2. Opened(d) \in IF_IMPL /\ Opened(d).freed = d.freed /\ Opened(d).dev = "open"
  BY DEF Opened, IF_IMPL
<1>3. /\ prepared.impl \in {d, Opened(d)}
      /\ prepared.ok => prepared.impl = Opened(d)
  BY <1>1 DEF Failed, Ok
<1>4. prepared.impl \in IF_IMPL
  BY <1>2, <1>3
<1>5. set_frame_handler(prepared.impl, "eap_state_machine_recv_handler")
        = [prepared.impl EXCEPT !.handler = "eap_state_machine_recv_handler"]
  BY <1>4 DEF set_frame_handler, libpcap_set_frame_handler, bpf_set_frame_handler,
              sockraw_set_frame_handler, IF_IMPL
<1> QED
  BY <1>2, <1>3, <1>4, <1>5 DEF IF_IMPL

\* The loop and a stop change the flag only.
LEMMA Loop ==
    ASSUME NEW d \in IF_IMPL, NEW frame \in BOOLEAN
    PROVE  /\ start_capture(d, frame).what \in {"handler", "waits", "ended"}
           /\ start_capture(d, frame).impl \in {d, [d EXCEPT !.stop = FALSE]}
           /\ stop_capture(d).impl \in {d, [d EXCEPT !.stop = TRUE]}
<1>1. start_capture(d, frame) \in {Waits(d), Handles(d), Ended([d EXCEPT !.stop = FALSE])}
  BY DEF start_capture, libpcap_start_capture, bpf_start_capture, sockraw_start_capture, IF_IMPL
<1>2. stop_capture(d) \in {Failed(d), Ok([d EXCEPT !.stop = TRUE])}
  BY DEF stop_capture, libpcap_stop_capture, bpf_stop_capture, sockraw_stop_capture, IF_IMPL
<1> QED
  BY <1>1, <1>2 DEF Waits, Handles, Ended, Ok, Failed

\* A frame goes out or it does not.
LEMMA Sending ==
    ASSUME NEW d \in IF_IMPL
    PROVE  send_frame(d) \subseteq BOOLEAN
BY DEF send_frame, libpcap_send_frame, bpf_send_frame, sockraw_send_frame, IF_IMPL

\* A driver that is destroyed is freed, and stays a driver.
LEMMA Destroying ==
    ASSUME NEW d \in IF_IMPL
    PROVE  destroy(d) \in IF_IMPL
<1>1. destroy(d) = Closed(d)
  BY DEF destroy, libpcap_destroy, bpf_destroy, sockraw_destroy, IF_IMPL
<1> QED
  BY <1>1 DEF Closed, IF_IMPL

\* The drivers of a new list are fresh.
LEMMA NewDrivers ==
    /\ init_if_impl_list \in Seq(IF_IMPL)
    /\ \A i \in DOMAIN init_if_impl_list : ~init_if_impl_list[i].freed
<1>1. \A name \in {"libpcap", "bpf", "sockraw"} : Named(name) \in IF_IMPL /\ ~Named(name).freed
  BY DEF Named, IF_IMPL
<1>2. \A i \in DOMAIN DriverNames : DriverNames[i] \in {"libpcap", "bpf", "sockraw"}
  BY ProcessAssumption
<1> DEFINE new(i) == CASE DriverNames[i] = "libpcap" -> libpcap_new
                       [] DriverNames[i] = "bpf"     -> bpf_new
                       [] DriverNames[i] = "sockraw" -> sockraw_new
<1>3. \A i \in DOMAIN DriverNames : new(i) \in IF_IMPL /\ ~new(i).freed
  BY <1>1, <1>2 DEF libpcap_new, bpf_new, sockraw_new
<1>4. init_if_impl_list = [i \in 1..Len(DriverNames) |-> new(i)] /\ Len(DriverNames) \in Nat
      /\ DOMAIN DriverNames = 1..Len(DriverNames)
  BY ProcessAssumption DEF init_if_impl_list
<1> HIDE DEF new
<1> QED
  BY <1>3, <1>4

\* NULL, an unknown name and the name of a driver select one of the list or none.
LEMMA Selecting ==
    ASSUME impls \in Seq(IF_IMPL), NEW name
    PROVE  select_if_impl(name) \in 0..Len(impls)
BY DEF select_if_impl

\* The order of main.
LEMMA MainOrder ==
    /\ After(StartUp, "log", "capture") = "config"
    /\ After(StartUp, "machine", "capture") = "lock"
    /\ After(StartUp, "daemon", "capture") = "save_pid"
BY DEF After, StartUp

\* The order of the exit handler.
LEMMA ExitOrder ==
    /\ After(ExitSteps, "logoff", "gone") = "free_if_impl"
    /\ After(ExitSteps, "free_if_impl", "gone") = "packet_plugin_destroy"
    /\ After(ExitSteps, "packet_plugin_destroy", "gone") = "eap_state_machine_destroy"
    /\ After(ExitSteps, "eap_state_machine_destroy", "gone") = "sched_alarm_destroy"
    /\ After(ExitSteps, "sched_alarm_destroy", "gone") = "pid_lock_destroy"
    /\ After(ExitSteps, "pid_lock_destroy", "gone") = "free_config"
    /\ After(ExitSteps, "free_config", "gone") = "close_log"
    /\ After(ExitSteps, "close_log", "gone") = "gone"
BY DEF After, ExitSteps

\* The places, spelled out.
LEMMA Places ==
    /\ PC = {"log", "config", "select", "setup", "set_ifname", "prepare", "machine", "lock",
             "daemon", "save_pid", "preparing", "capture", "callback", "logoff"} \cup LoggedOff
    /\ LoggedOff = {"free_if_impl", "packet_plugin_destroy", "eap_state_machine_destroy",
                    "sched_alarm_destroy", "pid_lock_destroy", "free_config", "close_log", "gone"}
    /\ AtExit = "logoff"
    /\ Exiting <=> pc \in {"logoff"} \cup (LoggedOff \ {"gone"})
    /\ TimerRuns = {"capture", "callback", "logoff", "free_if_impl", "packet_plugin_destroy",
                    "eap_state_machine_destroy", "sched_alarm_destroy", "gone"}
    /\ LockKept = {"logoff", "free_if_impl", "packet_plugin_destroy",
                   "eap_state_machine_destroy", "sched_alarm_destroy", "pid_lock_destroy"}
<1>1. DOMAIN StartUp = 1..11 /\ DOMAIN ExitSteps = 1..8
  BY DEF StartUp, ExitSteps
<1>2. /\ {StartUp[i] : i \in 1..11}
           = {"log", "config", "select", "setup", "set_ifname", "prepare", "machine", "lock",
              "daemon", "save_pid", "preparing"}
  BY DEF StartUp
<1>3. {ExitSteps[i] : i \in 1..8}
        = {"logoff", "free_if_impl", "packet_plugin_destroy", "eap_state_machine_destroy",
           "sched_alarm_destroy", "pid_lock_destroy", "free_config", "close_log"}
  BY DEF ExitSteps
<1>4. {ExitSteps[i] : i \in (1..8) \ {1}}
        = {"free_if_impl", "packet_plugin_destroy", "eap_state_machine_destroy",
           "sched_alarm_destroy", "pid_lock_destroy", "free_config", "close_log"}
  BY DEF ExitSteps
<1>5. LoggedOff = {"free_if_impl", "packet_plugin_destroy", "eap_state_machine_destroy",
                   "sched_alarm_destroy", "pid_lock_destroy", "free_config", "close_log", "gone"}
  BY <1>1, <1>4 DEF LoggedOff
<1>6. Exiting <=> pc \in {ExitSteps[i] : i \in 1..8}
  BY <1>1 DEF Exiting
<1>7. AtExit = "logoff"
  BY DEF AtExit, ExitSteps
<1>8. {ExitSteps[i] : i \in 1..5}
        = {"logoff", "free_if_impl", "packet_plugin_destroy", "eap_state_machine_destroy",
           "sched_alarm_destroy"}
  BY DEF ExitSteps
<1>9. {ExitSteps[i] : i \in 1..6}
        = {"logoff", "free_if_impl", "packet_plugin_destroy", "eap_state_machine_destroy",
           "sched_alarm_destroy", "pid_lock_destroy"}
  BY DEF ExitSteps
<1> QED
  BY <1>1, <1>2, <1>3, <1>5, <1>6, <1>7, <1>8, <1>9 DEF PC, InLoop, TimerRuns, LockKept
-----------------------------------------------------------------------------
(* The log.                                                                    *)

\* What opens and closes the log keeps it a log.
LEMMA LogTypes ==
    ASSUME NEW l \in LOG, NEW type \in DAEMON_TYPE
    PROVE  /\ configure_log_by_daemon_type(l, type) \in LOG
           /\ start_log(l, type) \in LOG
           /\ close_log(l) \in LOG
<1>1. configure_log_by_daemon_type(l, type) \in LOG
  BY DEF configure_log_by_daemon_type, LOG
<1>2. start_log(l, type) \in LOG
  BY DEF start_log, LOG
<1>3. close_log(l) \in LOG
  BY DEF close_log, LOG
<1> QED
  BY <1>1, <1>2, <1>3
-----------------------------------------------------------------------------
(* The stages of main, the Logoff and the lock.                                *)

\* A driver whose flag is set or reset is otherwise the same.
LEMMA StopFlag ==
  ASSUME NEW i \in IF_IMPL,
         NEW d \in {i, [i EXCEPT !.stop = TRUE], [i EXCEPT !.stop = FALSE]}
  PROVE  d \in IF_IMPL /\ d.freed = i.freed /\ d.dev = i.dev /\ d.handler = i.handler
<1>1. CASE d = i
  BY <1>1
<1>2. CASE d = [i EXCEPT !.stop = TRUE]
  BY <1>2 DEF IF_IMPL
<1>3. CASE d = [i EXCEPT !.stop = FALSE]
  BY <1>3 DEF IF_IMPL
<1> QED
  BY <1>1, <1>2, <1>3

\* One step of main, of the exit handler, of a signal or of an alarm keeps what each
\* stage of main has made sure of.
LEMMA ProcessInvStep == ProcessInv /\ [Next]_vars => ProcessInv'
<1> SUFFICES ASSUME ProcessInv, [Next]_vars PROVE ProcessInv'
  OBVIOUS
<1> USE Places, MainOrder
      DEF ProcessInv, TypeOK, InLoop, DAEMON_TYPE, StagesInOrder, LogoffPossible, OnlyOwnerSends,
          LockHeld, MachineUp, Prepared, HasDriver, Chosen, Options, History, NoneSent, Fail, Go
<1>a. ASSUME UNCHANGED <<impls, selected>> PROVE Impl' = Impl /\ (Freed' <=> Freed)
  BY <1>a DEF Impl, Freed
<1>b. ASSUME selected # 0 PROVE Impl \in IF_IMPL /\ selected \in DOMAIN impls
  BY <1>b DEF Impl
<1>c. ASSUME selected # 0, UNCHANGED selected,
             NEW d \in IF_IMPL, impls' = [impls EXCEPT ![selected] = d]
      PROVE  impls' \in Seq(IF_IMPL) /\ Len(impls') = Len(impls) /\ Impl' = d
             /\ (Freed' => Freed \/ d.freed)
  BY <1>b, <1>c DEF Impl, Freed
<1>d. ASSUME NEW l, print_log(l) PROVE lost' \in BOOLEAN
  BY <1>d DEF print_log
<1>1. CASE StartLog
  <2>1. init_if_impl_list \in Seq(IF_IMPL) /\ impls' = init_if_impl_list /\ ~Freed'
    BY <1>1, NewDrivers DEF StartLog, Freed
  <2>2. log' \in LOG
    <3>1. [log EXCEPT !.dest = "LOG_TO_CONSOLE"] \in LOG
      BY DEF LOG
    <3> QED
      BY <1>1, <3>1, LogTypes DEF StartLog
  <2> QED
    BY <1>1, <1>d, <2>1, <2>2 DEF StartLog
<1>2. CASE InitProgramConfig
  <2>1. daemon_type' \in DAEMON_TYPE /\ log' \in LOG
    BY <1>2, LogTypes, ProcessAssumption DEF InitProgramConfig
  <2>2. lost' \in BOOLEAN
    BY <1>2, <1>d DEF InitProgramConfig
  <2>3. /\ pc = "config" /\ pc' \in {"select", "logoff"}
        /\ lock_option' \in {"lock", "replace", "none"}
        /\ UNCHANGED <<impls, selected, machine, locked>> /\ NoneSent
    BY <1>2 DEF InitProgramConfig
  <2>4. TypeOK'
    BY <1>a, <2>1, <2>2, <2>3
  <2>5. ~started /\ ~timer /\ ~Freed /\ ~unowned
    BY <2>3
  <2>6. StagesInOrder'
    BY <1>a, <2>3, <2>5
  <2>7. LogoffPossible' /\ OnlyOwnerSends'
    BY <1>a, <2>3, <2>5
  <2> QED
    BY <2>4, <2>6, <2>7
<1>3. CASE SelectIfImpl
  <2>1. selected' \in 0..Len(impls) /\ lost' \in BOOLEAN
    BY <1>3, <1>d, Selecting DEF SelectIfImpl
  <2>2. UNCHANGED Freed
    BY <1>3 DEF SelectIfImpl, Freed
  <2> QED
    BY <1>3, <2>1, <2>2 DEF SelectIfImpl
<1>4. CASE InitPluginConfig
  BY <1>4, <1>a, <1>d DEF InitPluginConfig
<1>5. CASE SetIfname
  <2>1. selected # 0 /\ Impl \in IF_IMPL /\ ~Freed
    BY <1>5, <1>b DEF SetIfname
  <2>2. PICK d \in IF_IMPL : impls' = [impls EXCEPT ![selected] = d] /\ d.freed = Impl.freed
    <3>1. PICK set \in set_ifname(Impl, "nic") : impls' = [impls EXCEPT ![selected] =
             IF set.ok THEN setup_capture_params(set.impl, ETH_P_PAE, FALSE).impl ELSE set.impl]
      BY <1>5 DEF SetIfname
    <3> DEFINE new == IF set.ok THEN setup_capture_params(set.impl, ETH_P_PAE, FALSE).impl
                      ELSE set.impl
    <3>2. new \in IF_IMPL /\ new.freed = Impl.freed
      BY <2>1, SetUp
    <3> QED
      BY <3>1, <3>2
  <2>3. UNCHANGED selected /\ (Impl.freed => Freed)
    BY <1>5, <1>b, <2>1 DEF SetIfname, Freed, Impl
  <2>4. impls' \in Seq(IF_IMPL) /\ Len(impls') = Len(impls) /\ ~Freed'
    BY <1>c, <2>1, <2>2, <2>3
  <2>5. /\ pc = "set_ifname" /\ pc' \in {"prepare", "logoff"} /\ lost' \in BOOLEAN
        /\ UNCHANGED <<Chosen, log, machine, locked>> /\ NoneSent
    BY <1>5, <1>d DEF SetIfname
  <2> QED
    BY <2>1, <2>4, <2>5
<1>6. CASE PrepareInterface
  <2>1. selected # 0 /\ Impl \in IF_IMPL /\ ~Freed
    BY <1>6, <1>b DEF PrepareInterface
  <2>2. PICK prepared \in prepare_interface(Impl) :
           /\ impls' = [impls EXCEPT ![selected] =
                        IF prepared.ok
                        THEN set_frame_handler(prepared.impl, "eap_state_machine_recv_handler")
                        ELSE prepared.impl]
           /\ IF prepared.ok THEN pc' = "machine" /\ UNCHANGED lost ELSE Fail(log)
    BY <1>6 DEF PrepareInterface
  <2> DEFINE d == IF prepared.ok
                  THEN set_frame_handler(prepared.impl, "eap_state_machine_recv_handler")
                  ELSE prepared.impl
  <2>4. /\ d \in IF_IMPL /\ d.freed = Impl.freed
        /\ prepared.ok => d.dev = "open" /\ d.handler = "eap_state_machine_recv_handler"
    BY <2>1, Preparing
  <2>5. UNCHANGED selected /\ (Impl.freed => Freed)
    BY <1>6, <1>b, <2>1 DEF PrepareInterface, Freed, Impl
  <2> HIDE DEF d
  <2>6. impls' \in Seq(IF_IMPL) /\ Len(impls') = Len(impls) /\ Impl' = d /\ ~Freed'
    BY <1>c, <2>1, <2>2, <2>4, <2>5 DEF d
  <2> QED
    BY <1>6, <1>d, <2>1, <2>2, <2>4, <2>6 DEF PrepareInterface
<1>7. CASE MachineInit
  BY <1>7, <1>a DEF MachineInit
<1>8. CASE pid_lock_lock
  BY <1>8, <1>a, <1>d DEF pid_lock_lock
<1>9. CASE ApplyLogDaemonParams
  <2>1. log' \in LOG
    BY <1>9, LogTypes DEF ApplyLogDaemonParams, apply_log_daemon_params
  <2>2. lost' \in BOOLEAN
    BY <1>9 DEF ApplyLogDaemonParams
  <2> QED
    BY <1>9, <1>a, <2>1, <2>2 DEF ApplyLogDaemonParams
<1>10. CASE SavePid
  BY <1>10, <1>a, <1>d DEF SavePid
<1>11. CASE Prepare
  <2>1. Impl \in IF_IMPL /\ ~Impl.freed /\ lost' \in BOOLEAN
    BY <1>11, <1>b, <1>d DEF Prepare, Freed, Impl
  <2>2. PICK ok \in BOOLEAN : Send(ok) /\ IF ok THEN pc' = "capture" ELSE pc' = AtExit
    BY <1>11, <2>1, Sending DEF Prepare
  <2>3. unowned' \in BOOLEAN /\ OnlyOwnerSends'
    BY <1>11, <2>2 DEF Prepare, Send
  <2>7. TypeOK'
    BY <1>11, <1>a, <2>1, <2>2, <2>3 DEF Prepare
  <2>8. StagesInOrder'
    BY <1>11, <1>a, <2>1, <2>2, <2>3 DEF Prepare
  <2>9. LogoffPossible'
    BY <1>11, <1>a, <2>2 DEF Prepare
  <2> QED
    BY <2>3, <2>7, <2>8, <2>9
<1>12. ASSUME NEW frame \in BOOLEAN, Capture(frame) PROVE ProcessInv'
  <2>1. selected # 0 /\ Impl \in IF_IMPL /\ ~Freed /\ ~Impl.freed
    BY <1>12, <1>b DEF Capture
  <2>2. PICK d \in {Impl, [Impl EXCEPT !.stop = FALSE]} :
           impls' = [impls EXCEPT ![selected] = d]
    BY <1>12, <2>1, Loop DEF Capture
  <2>3. d \in IF_IMPL /\ d.freed = Impl.freed /\ d.dev = Impl.dev /\ d.handler = Impl.handler
    BY <2>1, <2>2, StopFlag
  <2>4. impls' \in Seq(IF_IMPL) /\ Len(impls') = Len(impls) /\ Impl' = d /\ ~Freed'
    BY <1>12, <1>b, <1>c, <2>1, <2>2, <2>3 DEF Capture, Freed
  <2>5. pc' \in InLoop \cup {AtExit} /\ in_callback' \in BOOLEAN
    BY <1>12, <2>1, Loop DEF Capture
  <2>6. /\ pc = "capture"
        /\ UNCHANGED <<Chosen, log, machine, timer, started, in_alarm, locked, lost, History>>
    BY <1>12 DEF Capture
  <2>7. TypeOK'
    BY <2>1, <2>3, <2>4, <2>5, <2>6
  <2>8. StagesInOrder'
    BY <2>3, <2>4, <2>5, <2>6
  <2>9. LogoffPossible' /\ OnlyOwnerSends'
    BY <2>4, <2>5, <2>6
  <2> QED
    BY <2>7, <2>8, <2>9
<1>13. CASE CaptureFails
  <2>1. selected # 0 /\ Impl \in IF_IMPL /\ ~Freed
    BY <1>13, <1>b DEF CaptureFails
  <2>2. /\ impls' = [impls EXCEPT ![selected] = [Impl EXCEPT !.stop = FALSE]]
        /\ [Impl EXCEPT !.stop = FALSE] \in IF_IMPL
        /\ [Impl EXCEPT !.stop = FALSE].freed = Impl.freed
    BY <1>13, <2>1 DEF CaptureFails, Impl, IF_IMPL
  <2>3. impls' \in Seq(IF_IMPL) /\ Len(impls') = Len(impls) /\ ~Freed'
    BY <1>13, <1>b, <1>c, <2>1, <2>2 DEF CaptureFails, Freed
  <2> QED
    BY <1>13, <2>1, <2>3 DEF CaptureFails
<1>14. CASE Callback
  <2>1. pc = "callback" /\ pc' \in {"capture", "logoff"} /\ in_callback' \in BOOLEAN
        /\ (pc' = "logoff" => in_callback' = in_callback) /\ timer' \in BOOLEAN /\ lost' \in BOOLEAN
    BY <1>14, <1>a, <1>d, ExitOrder DEF Callback
  <2>2. UNCHANGED <<impls, Chosen, log, machine, started, in_alarm, locked, History>>
    BY <1>14 DEF Callback
  <2>3. TypeOK'
    BY <1>a, <1>b, <2>1, <2>2
  <2>4. StagesInOrder' /\ OnlyOwnerSends'
    BY <1>a, <2>1, <2>2
  <2>5. LogoffPossible'
    BY <1>a, <2>1, <2>2, ExitOrder
  <2> QED
    BY <2>3, <2>4, <2>5
<1>15. CASE eap_state_machine_send_logoff
  <2>1. pc = "logoff" /\ pc' = "free_if_impl" /\ UNCHANGED <<impls, selected>>
    BY <1>15, ExitOrder DEF eap_state_machine_send_logoff
  <2>2. ~Freed
    BY <2>1
  <2>3. CASE machine = "ready" /\ started /\ selected # 0 /\ ~in_callback
    <3>1. Impl \in IF_IMPL /\ ~Impl.freed
      BY <1>b, <2>2, <2>3 DEF Freed, Impl
    <3>2. PICK ok \in BOOLEAN : Send(ok) /\ offered' = TRUE
      BY <1>15, <2>3, <3>1, Sending DEF eap_state_machine_send_logoff
    <3>3. unowned' \in BOOLEAN /\ (unowned' => lock_option # "lock")
      BY <2>1, <2>3, <3>2 DEF Send
    <3>4. UNCHANGED <<impls, Chosen, log, machine, timer, started, in_callback, in_alarm, locked,
                      asked, reentered, lost, stale>>
      BY <1>15 DEF eap_state_machine_send_logoff
    <3>5. TypeOK' /\ StagesInOrder'
      BY <1>a, <2>1, <2>3, <3>2, <3>3, <3>4
    <3>6. LogoffPossible' /\ OnlyOwnerSends'
      BY <1>a, <2>1, <2>2, <2>3, <3>2, <3>3, <3>4
    <3> QED
      BY <3>5, <3>6
  <2>4. CASE ~(machine = "ready" /\ started /\ selected # 0 /\ ~in_callback)
    BY <1>15, <1>a, <2>1, <2>2, <2>4 DEF eap_state_machine_send_logoff
  <2> QED
    BY <2>3, <2>4
<1>16. CASE exit_handler
  <2>1. pc \in LoggedOff \ {"gone"} /\ pc' \in LoggedOff
        /\ UNCHANGED <<Chosen, started, in_callback, in_alarm, History>>
    BY <1>16, ExitOrder DEF exit_handler
  <2>2. impls' \in Seq(IF_IMPL) /\ Len(impls') = Len(impls)
    <3>1. \A i \in DOMAIN impls : destroy(impls[i]) \in IF_IMPL
      BY Destroying
    <3> QED
      BY <1>16, <3>1 DEF exit_handler, free_if_impl
  <2>3. log' \in LOG /\ lost' \in BOOLEAN
    BY <1>16, <1>d, LogTypes DEF exit_handler
  <2>4. machine' \in {"none", "ready", "destroyed"} /\ timer' \in BOOLEAN /\ locked' \in BOOLEAN
        /\ (timer' => timer)
    BY <1>16 DEF exit_handler, eap_state_machine_destroy, sched_alarm_destroy, pid_lock_destroy
  <2>5. timer' => pc' \in TimerRuns
    BY <1>16, <2>1, ExitOrder DEF exit_handler, sched_alarm_destroy
  <2>6. pc' \in LockKept => pc \in LockKept /\ locked' = locked
    BY <1>16, <2>1, ExitOrder DEF exit_handler
  <2>7. started' /\ ~in_callback' => offered'
    BY <2>1
  <2>8. TypeOK'
    BY <2>1, <2>2, <2>3, <2>4
  <2>9. StagesInOrder'
    BY <2>1, <2>4
  <2>10. LogoffPossible'
    BY <2>1, <2>5, <2>6, <2>7
  <2> QED
    BY <2>1, <2>8, <2>9, <2>10
<1>17. CASE signal_handler
  <2>1. CASE selected = 0
    BY <1>17, <1>a, <2>1 DEF signal_handler
  <2>2. CASE selected # 0
    <3>1. Impl \in IF_IMPL
      BY <1>b, <2>2
    <3>2. PICK d \in {Impl, [Impl EXCEPT !.stop = TRUE]} :
             impls' = [impls EXCEPT ![selected] = d]
      <4>1. impls = [impls EXCEPT ![selected] = Impl]
        BY <1>b, <2>2 DEF Impl
      <4> QED
        BY <1>17, <2>2, <3>1, <4>1, Loop DEF signal_handler
    <3>3. d \in IF_IMPL /\ d.freed = Impl.freed /\ d.dev = Impl.dev /\ d.handler = Impl.handler
      BY <3>1, <3>2, StopFlag
    <3>4. impls' \in Seq(IF_IMPL) /\ Len(impls') = Len(impls) /\ Impl' = d
          /\ (Freed' => Freed \/ d.freed)
      <4>1. UNCHANGED selected
        BY <1>17, <2>2 DEF signal_handler, Chosen
      <4> QED
        BY <1>c, <2>2, <4>1, <3>2, <3>3
    <3>5. Impl.freed => Freed
      BY <1>b, <2>2 DEF Freed, Impl
    <3>6. stale' \in BOOLEAN /\ asked' \in BOOLEAN
      BY <1>17, <2>2 DEF signal_handler
    <3>7. /\ UNCHANGED <<pc, reentered, Chosen, log, machine, timer, started, in_callback, in_alarm>>
          /\ UNCHANGED <<locked, unowned, offered, lost>>
      BY <1>17, <2>2 DEF signal_handler
    <3>8. Freed' => Freed
      BY <3>3, <3>4, <3>5
    <3>9. TypeOK'
      BY <1>a, <2>2, <3>3, <3>4, <3>6, <3>7
    <3>10. StagesInOrder' /\ OnlyOwnerSends'
      BY <1>a, <2>2, <3>3, <3>4, <3>7
    <3>11. LogoffPossible'
      BY <1>a, <3>7, <3>8
    <3> QED
      BY <3>9, <3>10, <3>11
  <2> QED
    BY <2>1, <2>2
<1>18. CASE alarm_sig_handler
  <2>1. timer /\ started /\ pc \in TimerRuns \ {"gone"} /\ selected # 0
    BY <1>18 DEF alarm_sig_handler
  <2>2. locked \/ lock_option # "lock"
    BY <2>1
  <2>3. unowned' \in BOOLEAN /\ OnlyOwnerSends'
    <3>1. PICK ok \in {FALSE} \cup (IF Impl.freed THEN {} ELSE send_frame(Impl)) : Send(ok)
      BY <1>18 DEF alarm_sig_handler
    <3>2. ok \in BOOLEAN
      BY <1>b, <2>1, Sending
    <3> QED
      BY <1>18, <2>2, <3>1, <3>2 DEF alarm_sig_handler, Send
  <2>4. lost' \in BOOLEAN
    BY <1>18, <1>d DEF alarm_sig_handler
  <2>5. stale' \in BOOLEAN
    BY <1>18 DEF alarm_sig_handler
  <2>6. TypeOK'
    BY <1>18, <1>a, <2>1, <2>3, <2>4, <2>5 DEF alarm_sig_handler
  <2>7. StagesInOrder'
    BY <1>18, <1>a, <2>1 DEF alarm_sig_handler
  <2>8. LogoffPossible'
    BY <1>18, <1>a, <2>1 DEF alarm_sig_handler
  <2> QED
    BY <2>3, <2>6, <2>7, <2>8
<1>19. CASE UNCHANGED vars
  BY <1>19, <1>a DEF vars
<1> QED
  BY <1>1, <1>2, <1>3, <1>4, <1>5, <1>6, <1>7, <1>8, <1>9, <1>10, <1>11, <1>12, <1>13, <1>14,
     <1>15, <1>16, <1>17, <1>18, <1>19 DEF Next, Main

\* Initially nothing is started, opened or held.
LEMMA ProcessInvInit == Init => ProcessInv
<1> SUFFICES ASSUME Init PROVE ProcessInv
  OBVIOUS
<1>1. log \in LOG
  BY ProcessAssumption DEF Init, LOG
<1>2. TypeOK
  <2>1. impls \in Seq(IF_IMPL) /\ selected \in 0..Len(impls)
    BY DEF Init
  <2>2. pc \in PC /\ pc \notin InLoop
    BY Places DEF Init, InLoop
  <2>3. /\ timer \in BOOLEAN /\ started \in BOOLEAN /\ in_callback \in BOOLEAN /\ locked \in BOOLEAN
        /\ in_alarm \in BOOLEAN /\ reentered \in BOOLEAN
        /\ asked \in BOOLEAN /\ unowned \in BOOLEAN /\ offered \in BOOLEAN /\ lost \in BOOLEAN
        /\ stale \in BOOLEAN
    BY DEF Init
  <2> QED
    BY <1>1, <2>1, <2>2, <2>3 DEF Init, TypeOK, DAEMON_TYPE
<1>3. StagesInOrder
  BY DEF Init, StagesInOrder, HasDriver, Prepared, MachineUp, LockHeld, InLoop
<1>4. LogoffPossible /\ OnlyOwnerSends
  BY DEF Init, LogoffPossible, OnlyOwnerSends, Freed
<1> QED
  BY <1>2, <1>3, <1>4 DEF ProcessInv

\* ProcessInv is an invariant.
THEOREM ProcessInvariant == Spec => []ProcessInv
BY ProcessInvInit, ProcessInvStep, PTL DEF Spec

\* Type correctness; in particular the capture loop and the frame handler only run on
\* a driver that is open, not freed and complete, whatever signals and alarms come.
THEOREM TypeCorrect == Spec => []TypeOK
<1>1. ProcessInv => TypeOK
  BY DEF ProcessInv
<1> QED
  BY <1>1, ProcessInvariant, PTL

\* Before the driver is destroyed, and before the process is gone, the Logoff of a
\* started session was tried on the driver: wherever signals and alarms come in, the
\* exit handler included, unless the exit came from inside the frame handler.  Only a
\* process that calls exit again in its exit handler may be gone without one.
THEOREM LogoffComesFirst == Spec => []LoggedOffBeforeClosed
<1>1. ProcessInv => LoggedOffBeforeClosed
  BY Places DEF ProcessInv, LogoffPossible, LoggedOffBeforeClosed
<1> QED
  BY <1>1, ProcessInvariant, PTL

\* No frame ever leaves a process that does not hold the lock, unless it was started
\* with --pid-file none or with KILL_AND_START.
THEOREM SendersOwnTheLock == Spec => []OnlyOwnerSends
<1>1. ProcessInv => OnlyOwnerSends
  BY DEF ProcessInv
<1> QED
  BY <1>1, ProcessInvariant, PTL
-----------------------------------------------------------------------------
(* The log.                                                                    *)

\* Opening the log again after closing it leaves it with an open stream, if the file
\* opens: the new stream is the file, or stdout, which was not closed then.
LEMMA Reopening ==
    ASSUME NEW l \in LOG, NEW type \in DAEMON_TYPE, l.file_opens,
           l.dest = "LOG_TO_CONSOLE" => "stdout" \in l.open
    PROVE  LET new == start_log(close_log(l), type)
           IN  /\ new.fp \in new.open /\ new.fp # "none" /\ new.file_opens
               /\ new.dest = "LOG_TO_CONSOLE" => "stdout" \in new.open
<1>1. CASE l.dest = "LOG_TO_CONSOLE"
  BY <1>1 DEF start_log, close_log, LOG
<1>2. CASE l.dest = "LOG_TO_FILE"
  <2> DEFINE closed == [l EXCEPT !.open = @ \ {l.fp}]
  <2>1. close_log(l) = closed /\ closed.dest = "LOG_TO_FILE" /\ closed.file_opens /\ closed \in LOG
    BY <1>2 DEF close_log, LOG
  <2> HIDE DEF closed
  <2>2. start_log(closed, type) = [closed EXCEPT !.fp = "file", !.open = closed.open \cup {"file"}]
    BY <2>1 DEF start_log
  <2> QED
    BY <2>1, <2>2 DEF LOG
<1> QED
  BY <1>1, <1>2 DEF LOG

\* One step keeps the stream that is written to open.
LEMMA LogInvStep == ProcessInv /\ LogInv /\ [Next]_vars => LogInv'
<1> SUFFICES ASSUME ProcessInv, LogInv, [Next]_vars PROVE LogInv'
  OBVIOUS
<1>0. TypeOK
  BY DEF ProcessInv
<1> USE <1>0
<1> DEFINE Begun == {"config", "select", "setup", "set_ifname", "prepare", "machine", "lock",
                     "daemon", "save_pid", "preparing"}
<1>a. {StartUp[i] : i \in DOMAIN StartUp \ {1}} = Begun
  BY DEF StartUp
<1> USE <1>a, Places, MainOrder DEF LogInv, print_raw_line, print_log, Chosen, Options, History, NoneSent, Fail, Go
<1>1. CASE StartLog
  <2>1. log \in LOG
    BY DEF TypeOK
  <2>2. log' = [[log EXCEPT !.dest = "LOG_TO_CONSOLE"] EXCEPT !.fp = "stdout"]
    BY <1>1, <2>1 DEF StartLog, start_log, LOG
  <2>3. /\ log'.fp = "stdout" /\ log'.open = log.open /\ log'.dest = "LOG_TO_CONSOLE"
        /\ log'.file_opens = log.file_opens
    BY <2>1, <2>2 DEF LOG
  <2>4. log.file_opens => "stdout" \in log.open /\ ~lost
    BY <1>1, <2>1 DEF StartLog, TypeOK
  <2> QED
    BY <1>1, <2>3, <2>4 DEF StartLog
<1>2. CASE InitProgramConfig
  <2>1. /\ log'.fp = log.fp /\ log'.open = log.open /\ log'.file_opens = log.file_opens
    BY <1>2 DEF InitProgramConfig, configure_log_by_daemon_type, TypeOK, LOG
  <2> QED
    BY <1>2, <2>1 DEF InitProgramConfig
<1>3. CASE SelectIfImpl \/ InitPluginConfig \/ SetIfname \/ SavePid
  BY <1>3 DEF SelectIfImpl, InitPluginConfig, SetIfname, SavePid
<1>4. CASE PrepareInterface \/ MachineInit \/ pid_lock_lock
  BY <1>4 DEF PrepareInterface, MachineInit, pid_lock_lock
<1>5. CASE ApplyLogDaemonParams
  <2>1. log \in LOG /\ daemon_type \in DAEMON_TYPE
    BY DEF TypeOK
  <2>2. log'.file_opens <=> log.file_opens
    BY <1>5, <2>1 DEF ApplyLogDaemonParams, apply_log_daemon_params, start_log, close_log, LOG
  <2> QED
    BY <1>5, <2>1, <2>2, Reopening DEF ApplyLogDaemonParams, apply_log_daemon_params
<1>6. CASE Prepare \/ Callback \/ CaptureFails
  BY <1>6 DEF Prepare, Callback, CaptureFails
<1>7. ASSUME NEW f \in BOOLEAN, Capture(f) PROVE LogInv'
  <2>1. Impl \in IF_IMPL
    BY <1>7 DEF Capture, ProcessInv, StagesInOrder, HasDriver, Prepared, MachineUp, LockHeld, InLoop,
                TypeOK, Impl
  <2> QED
    BY <1>7, <2>1, Loop DEF Capture
<1>8. CASE eap_state_machine_send_logoff
  BY <1>8, ExitOrder DEF eap_state_machine_send_logoff
<1>9. CASE exit_handler
  BY <1>9, ExitOrder DEF exit_handler, close_log, TypeOK, LOG
<1>10. CASE signal_handler
  BY <1>10 DEF signal_handler
<1>11. CASE alarm_sig_handler
  BY <1>11 DEF alarm_sig_handler
<1>12. CASE UNCHANGED vars
  BY <1>12 DEF vars
<1> QED
  BY <1>1, <1>2, <1>3, <1>4, <1>5, <1>6, <1>7, <1>8, <1>9, <1>10, <1>11, <1>12 DEF Next, Main

\* While the log file can be opened, whatever is logged goes to a stream that is open.
THEOREM NoLineLost == Spec => []LogLinesSeen
<1>1. Init => LogInv
  BY DEF Init, LogInv, print_raw_line, StartUp
<1>2. LogInv => LogLinesSeen
  BY DEF LogInv, LogLinesSeen
<1> QED
  BY <1>1, <1>2, LogInvStep, ProcessInvariant, PTL DEF Spec
=============================================================================
