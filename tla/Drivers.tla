------------------------------ MODULE Drivers ------------------------------
(* The three drivers of a network interface.  A driver is a record; what the  *)
(* system may answer to its calls is a set of outcomes [ok, impl].            *)
EXTENDS Integers, Sequences

ETH_P_PAE == "0x888e"

\* dev is the pcap handle, the descriptor or the socket; stop is libpcap's request
\* to break its loop, or stop_flag.
IF_IMPL ==
    [name : {"libpcap", "bpf", "sockraw"}, ifname : {"", "nic"}, proto : {"", ETH_P_PAE},
     promisc : BOOLEAN, dev : {"none", "open", "closed"}, stop : BOOLEAN,
     handler : {"none", "eap_state_machine_recv_handler"}, freed : BOOLEAN]

\* What calloc leaves of a driver with its name.
Named(name) == [name |-> name, ifname |-> "", proto |-> "", promisc |-> FALSE, dev |-> "none",
                stop |-> FALSE, handler |-> "none", freed |-> FALSE]

libpcap_new == Named("libpcap")
bpf_new     == Named("bpf")
sockraw_new == Named("sockraw")

Ok(impl)     == [ok |-> TRUE, impl |-> impl]
Failed(impl) == [ok |-> FALSE, impl |-> impl]
-----------------------------------------------------------------------------
(* Setting up.  Only sockraw asks the system for the interface at once. *)

libpcap_set_ifname(d, ifname) == {Ok([d EXCEPT !.ifname = ifname])}
bpf_set_ifname(d, ifname)     == {Ok([d EXCEPT !.ifname = ifname])}
sockraw_set_ifname(d, ifname) == {Failed(d), Ok([d EXCEPT !.ifname = ifname])}

libpcap_setup_capture_params(d, proto, promisc) == Ok([d EXCEPT !.proto = proto, !.promisc = promisc])
bpf_setup_capture_params(d, proto, promisc)     == Ok([d EXCEPT !.proto = proto, !.promisc = promisc])
sockraw_setup_capture_params(d, proto, promisc) == Ok([d EXCEPT !.proto = proto, !.promisc = promisc])

Opened(d) == [d EXCEPT !.dev = "open"]

\* pcap_open_live fails, or the filter is refused once it is open.
libpcap_prepare_interface(d) == {Failed(d), Failed(Opened(d)), Ok(Opened(d))}

bpf_open(d) == {Failed(d), Ok(Opened(d))}

\* The size of the buffer, the filter or the name is refused; that immediate mode,
\* the header or promiscuous mode is refused does not matter.
bpf_prepare_interface(d) ==
    UNION { IF o.ok THEN {Failed(o.impl), o} ELSE {o} : o \in bpf_open(d) }

\* The interface and the protocol of the socket; the answer is not looked at.
sockraw_bind_to_if(d) == Opened(d)

\* No socket, or the flags of the interface cannot be read or set.
sockraw_prepare_interface(d) == {Failed(d), Failed(sockraw_bind_to_if(d)), Ok(sockraw_bind_to_if(d))}

libpcap_set_frame_handler(d, handler) == [d EXCEPT !.handler = handler]
bpf_set_frame_handler(d, handler)     == [d EXCEPT !.handler = handler]
sockraw_set_frame_handler(d, handler) == [d EXCEPT !.handler = handler]
-----------------------------------------------------------------------------
(* Capturing.  A loop goes on, hands a frame to its handler, or has ended. *)

Handles(d) == [what |-> "handler", impl |-> d]
Waits(d)   == [what |-> "waits", impl |-> d]
Ended(d)   == [what |-> "ended", impl |-> d]

\* pcap_loop looks for a request at least every 100 ms and before every frame.  It
\* clears it when it returns.
libpcap_start_capture(d, frame) ==
    IF d.stop THEN Ended([d EXCEPT !.stop = FALSE])
    ELSE IF frame THEN Handles(d) ELSE Waits(d)

\* Mutant: the flag is reset when the loop begins.
bpf_start_capture_resets(d, frame) ==
    IF frame THEN Handles([d EXCEPT !.stop = FALSE]) ELSE Waits([d EXCEPT !.stop = FALSE])

\* read goes on after a signal; the flag is looked at when a frame has come, which
\* is then dropped.
bpf_start_capture(d, frame) ==
    IF ~frame THEN Waits(d)
    ELSE IF d.stop THEN Ended([d EXCEPT !.stop = FALSE]) ELSE Handles(d)

\* The same with recv.
sockraw_start_capture(d, frame) ==
    IF ~frame THEN Waits(d)
    ELSE IF d.stop THEN Ended([d EXCEPT !.stop = FALSE]) ELSE Handles(d)

\* Without a device a stop is lost.
libpcap_stop_capture(d) ==
    IF d.dev = "open" THEN Ok([d EXCEPT !.stop = TRUE]) ELSE Failed(d)
bpf_stop_capture(d)     == Ok([d EXCEPT !.stop = TRUE])
sockraw_stop_capture(d) == Ok([d EXCEPT !.stop = TRUE])

\* Sending fails without a device, and when the link does not take the frame.
libpcap_send_frame(d) == IF d.dev = "open" THEN BOOLEAN ELSE {FALSE}
bpf_send_frame(d)     == IF d.dev = "open" THEN BOOLEAN ELSE {FALSE}
sockraw_send_frame(d) == IF d.dev = "open" THEN BOOLEAN ELSE {FALSE}

Closed(d) == [d EXCEPT !.dev = IF @ = "open" THEN "closed" ELSE @, !.freed = TRUE]
libpcap_destroy(d) == Closed(d)
bpf_destroy(d)     == Closed(d)
sockraw_destroy(d) == Closed(d)
-----------------------------------------------------------------------------
(* The functions a driver is called through *)

set_ifname(d, ifname) == CASE d.name = "libpcap" -> libpcap_set_ifname(d, ifname)
                           [] d.name = "bpf"     -> bpf_set_ifname(d, ifname)
                           [] d.name = "sockraw" -> sockraw_set_ifname(d, ifname)

setup_capture_params(d, proto, promisc) ==
    CASE d.name = "libpcap" -> libpcap_setup_capture_params(d, proto, promisc)
      [] d.name = "bpf"     -> bpf_setup_capture_params(d, proto, promisc)
      [] d.name = "sockraw" -> sockraw_setup_capture_params(d, proto, promisc)

prepare_interface(d) == CASE d.name = "libpcap" -> libpcap_prepare_interface(d)
                          [] d.name = "bpf"     -> bpf_prepare_interface(d)
                          [] d.name = "sockraw" -> sockraw_prepare_interface(d)

set_frame_handler(d, h) == CASE d.name = "libpcap" -> libpcap_set_frame_handler(d, h)
                             [] d.name = "bpf"     -> bpf_set_frame_handler(d, h)
                             [] d.name = "sockraw" -> sockraw_set_frame_handler(d, h)

start_capture(d, frame) == CASE d.name = "libpcap" -> libpcap_start_capture(d, frame)
                             [] d.name = "bpf"     -> bpf_start_capture(d, frame)
                             [] d.name = "sockraw" -> sockraw_start_capture(d, frame)

stop_capture(d) == CASE d.name = "libpcap" -> libpcap_stop_capture(d)
                     [] d.name = "bpf"     -> bpf_stop_capture(d)
                     [] d.name = "sockraw" -> sockraw_stop_capture(d)

send_frame(d) == CASE d.name = "libpcap" -> libpcap_send_frame(d)
                   [] d.name = "bpf"     -> bpf_send_frame(d)
                   [] d.name = "sockraw" -> sockraw_send_frame(d)

destroy(d) == CASE d.name = "libpcap" -> libpcap_destroy(d)
                [] d.name = "bpf"     -> bpf_destroy(d)
                [] d.name = "sockraw" -> sockraw_destroy(d)
=============================================================================
