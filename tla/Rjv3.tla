-------------------------------- MODULE Rjv3 --------------------------------
(* The rjv3 plugin on the state machine: its keep-alive chain, its second      *)
(* authentication after DHCP, and the copy of the last frame it points to.     *)
(*                                                                             *)
(* The module gives EapStateMachine's constants for plugins their meaning.     *)
(* The record m.plugin holds the plugin's memory, and one fact of its          *)
(* environment: address, whether the interface has an IPv4 address, a gateway  *)
(* and a DNS server.  An echo key is told apart from 0 only.  system() of the  *)
(* DHCP script is one step with the hook that calls it.                        *)
EXTENDS EapStateMachine

CONSTANTS
    DhcpTypes,      \* the values --dhcp-type may have
    MaxDhcpCount,   \* max_dhcp_count
    Heartbeat,      \* heartbeat_interval, in seconds
    DhcpWait,       \* seconds between two looks for a lease: 5
    ActivePlugins   \* g_active_packet_plugin_list, in the order of the options

ASSUME RjAssumption ==
    /\ DhcpTypes \subseteq
        {"DHCP_NONE", "DHCP_DOUBLE_AUTH", "DHCP_AFTER_AUTH", "DHCP_BEFORE_AUTH"}
    /\ MaxDhcpCount \in Nat
    /\ Heartbeat \in 1..(IntMax - 1) /\ DhcpWait \in 1..(IntMax - 1)
    /\ ActivePlugins \in Seq({"rjv3", "printer"})

\* last_recv_packet is the state machine's copy of a frame, which the plugin does
\* not own.  Two ghosts: stale, whether the plugin read that copy after it was
\* freed; bare, whether a frame of a second authentication left without a lease.
\* succ_count stops at 2 and dhcp_count at MaxDhcpCount + 1 (bounds: the code
\* only compares them with these).
Rjv3Priv == [dhcp_type : DhcpTypes, succ_count : 0..2, dhcp_count : 0..(MaxDhcpCount + 1),
             last_recv_packet : BOOLEAN,
             duplicated_packet : {"NULL", "success", "success_key"},
             echokey : BOOLEAN, address : BOOLEAN, stale : BOOLEAN, bare : BOOLEAN]

Rjv3New == {p \in Rjv3Priv :
    /\ p.succ_count = 0 /\ p.dhcp_count = 0 /\ ~p.last_recv_packet
    /\ p.duplicated_packet = "NULL" /\ ~p.echokey /\ ~p.stale /\ ~p.bare}

Rjv3Alarms == {"rjv3_send_keepalive_timed", "rjv3_start_secondary_auth"}

DoubleAuth(p) == p.dhcp_type = "DHCP_DOUBLE_AUTH"
-----------------------------------------------------------------------------
(* packet_plugin_rjv3_priv.c, packet_plugin_rjv3_keepalive.c *)

should_fill_dhcp_prop(p) ==
    p.dhcp_type = "DHCP_BEFORE_AUTH" \/ (DoubleAuth(p) /\ p.succ_count >= 2)

\* rjv3_append_priv: it looks into last_recv_packet, and into the lease if the
\* frame is to have one.
rjv3_prepare_frame(x) ==
    [x EXCEPT
        !.plugin.stale = @ \/ (x.plugin.last_recv_packet /\ x.last_recv_frame = "NULL"),
        !.plugin.bare  = @ \/ (DoubleAuth(x.plugin) /\ x.plugin.succ_count = 1
                               /\ ~should_fill_dhcp_prop(x.plugin))]

\* Only a Success may hold an echo key.
process_result_prop(x, f) ==
    IF f = "success_key" THEN [x EXCEPT !.plugin.echokey = TRUE] ELSE x

\* Mutant: a chain ends with the first frame that cannot be sent.
send_keepalive_while_sent(x) ==
    LET y == Unname(x, "rjv3_send_keepalive_timed")
    IN  IF x.link THEN schedule_alarm(y, Heartbeat, "rjv3_send_keepalive_timed", TRUE) ELSE y

\* Whether the frame could be sent or not, g_keepalive_alarm_id names the next.
rjv3_send_keepalive_timed(x) ==
    schedule_alarm(Unname(x, "rjv3_send_keepalive_timed"),
                   Heartbeat, "rjv3_send_keepalive_timed", TRUE)

rjv3_keepalive_reset(x) ==
    [unschedule_alarm(x, "rjv3_send_keepalive_timed") EXCEPT !.plugin.echokey = FALSE]

start_keepalive(x) == schedule_alarm(x, 1, "rjv3_send_keepalive_timed", FALSE)

\* Mutant: a lease that is not there yet is not waited for.
start_secondary_auth_once(x) ==
    IF x.plugin.address
    THEN switch_to_start_sent([x EXCEPT !.plugin.duplicated_packet = "NULL"])
    ELSE x

rjv3_start_secondary_auth(x) ==
    LET y == [x EXCEPT !.plugin.dhcp_count = Capped(@, MaxDhcpCount + 1)]
        f == x.plugin.duplicated_packet
    IN  IF x.plugin.address
        THEN switch_to_start_sent([x EXCEPT !.plugin.duplicated_packet = "NULL"])
        ELSE IF y.plugin.dhcp_count <= MaxDhcpCount
        THEN schedule_alarm(y, DhcpWait, "rjv3_start_secondary_auth", FALSE)
        ELSE IF f = "NULL" THEN crash(y)
        ELSE start_keepalive([process_result_prop(y, f)
                                EXCEPT !.plugin.duplicated_packet = "NULL"])
-----------------------------------------------------------------------------
(* packet_plugin_rjv3.c *)

rjv3_reset_state(x) ==
    rjv3_keepalive_reset([x EXCEPT !.plugin.dhcp_count = 0, !.plugin.succ_count = 0,
                                   !.plugin.last_recv_packet = FALSE])

\* A Success that ends an authentication, without an echo key: no keep-alive.
session_starts(x, f) ==
    LET y == process_result_prop(x, f)
    IN  IF f = "success_key" THEN start_keepalive(y) ELSE y

rjv3_process_success(x, f) ==
    LET y == [x EXCEPT !.plugin.succ_count = Capped(@, 2)]
    IN  IF ~DoubleAuth(y.plugin) THEN session_starts(y, f)
        ELSE IF y.plugin.succ_count < 2
        THEN rjv3_start_secondary_auth([y EXCEPT !.plugin.duplicated_packet = f])
        ELSE session_starts(rjv3_reset_state(y), f)

rjv3_process_failure(x) == rjv3_reset_state(x)

rjv3_on_frame_received(x, f) ==
    LET y == [x EXCEPT !.plugin.last_recv_packet = TRUE]
    IN  CASE f \in {"success", "success_key"} -> rjv3_process_success(y, f)
          [] f = "failure" -> rjv3_process_failure(y)
          [] f \in {"identity", "challenge", "other"} -> y

\* It returns FAILURE for a Success that leaves it without an echo key.
rjv3_refuses(x, f) == f = "success" /\ ~(DoubleAuth(x.plugin) /\ x.plugin.succ_count = 0)

\* The printer logs a frame and changes nothing.
printer_prepare_frame(x) == x
printer_on_frame_received(x) == x

packet_plugin_prepare_frame(x) ==
    LET shown[i \in 0..Len(ActivePlugins)] ==
            IF i = 0 THEN x
            ELSE IF ActivePlugins[i] = "rjv3" THEN rjv3_prepare_frame(shown[i - 1])
            ELSE printer_prepare_frame(shown[i - 1])
    IN  shown[Len(ActivePlugins)]

\* What the plugins up to one of them have made of the memory, and whether the next
\* is called: the first that fails is the last, as is one that exits.
call(r, name, f) ==
    IF ~r.goes_on \/ ~Running(r.x) THEN r
    ELSE IF name = "rjv3"
    THEN [x |-> rjv3_on_frame_received(r.x, f), goes_on |-> ~rjv3_refuses(r.x, f)]
    ELSE [x |-> printer_on_frame_received(r.x), goes_on |-> TRUE]

packet_plugin_on_frame_received(x, f) ==
    LET called[i \in 0..Len(ActivePlugins)] ==
            IF i = 0 THEN [x |-> x, goes_on |-> TRUE]
            ELSE call(called[i - 1], ActivePlugins[i], f)
    IN  called[Len(ActivePlugins)].x

rjv3_alarm(x, func) ==
    IF func = "rjv3_send_keepalive_timed" THEN rjv3_send_keepalive_timed(x)
    ELSE rjv3_start_secondary_auth(x)
-----------------------------------------------------------------------------
\* The interface gets its lease, or loses it.
AddressChanges ==
    /\ Running(m)
    /\ m' = [m EXCEPT !.plugin.address = ~@]
    /\ UNCHANGED <<pc, frame, naps>>

RjNext == Next \/ AddressChanges

RjSpec == Init /\ [][RjNext]_vars

RjFairSpec == RjSpec /\ Fairness
-----------------------------------------------------------------------------
(* Properties. *)

\* Once the server has given an echo key the heartbeats go on until it takes the
\* session away, through lost links, new authentications and DHCP: there is
\* always a next one.
KeepAliveGoesOn ==
    Running(m) /\ m.plugin.echokey => Pending("rjv3_send_keepalive_timed") # {}

\* After the first of two Successes the second authentication starts, or the
\* plugin gives up on DHCP and starts the heartbeat, whatever else happens.
SecondAuthSettles ==
    m.plugin.duplicated_packet # "NULL"
        ~> m.plugin.duplicated_packet = "NULL" \/ ~Running(m)
-----------------------------------------------------------------------------
(* What comments and documents say of the program and TLC refutes (README). *)

\* README: "二次认证时，支持位于修改常规字段以外的 IP 地址、网关、主 DNS 等信息": the
\* frames of the second authentication carry the lease.
SecondAuthHasLease == ~m.plugin.bare

\* if_impl.h: "the `frame` pointer does not guarantee to be valid after this handler
\* returns.  If you want to use it afterwards, make a copy yourselves."
NoStaleFrame == ~m.plugin.stale

\* --heartbeat is the number of seconds between two heartbeats, so there is one
\* chain of them.
OneChain == Cardinality({i \in DOMAIN m.alarm_list :
                m.alarm_list[i].func = "rjv3_send_keepalive_timed"}) <= 1

\* "We need to keep it in case DHCP fails": a pending look for a lease still has
\* the frame of the first Success.
FrameKept ==
    Pending("rjv3_start_secondary_auth") # {} => m.plugin.duplicated_packet # "NULL"
=============================================================================
