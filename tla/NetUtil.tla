------------------------------ MODULE NetUtil ------------------------------
(* What rjv3 asks of the system: the addresses of an interface, its gateway   *)
(* and the name servers (util/net_util.c), put together to a lease and to the *)
(* fields of a trailer (packet_plugin_rjv3_priv.c).                           *)
(*                                                                            *)
(* The system is a record: ifaddrs, what getifaddrs lists; routes, what the   *)
(* routing table lists; linux, and then datagrams, the same cut into pieces,  *)
(* bufsize, NL_BUFSIZE in parts of a message, and beyond, whether the memory  *)
(* behind the buffer looks like the end of the table; resolv, the lines of    *)
(* /etc/resolv.conf, and resolv_opens.  A name server is written              *)
(* <<family, address>>.  Answers that may be missing are sequences of at most *)
(* one.  The other calls to the system do not fail.                           *)
EXTENDS Lists

First(list) == IF list = <<>> THEN <<>> ELSE <<list[1]>>

\* Mutant: the first address of any family.
find_ip_of_any_family(list, family) == First(list)

find_ip_with_family(list, family) ==
    First(Select(list, {a \in ToSet(list) : a.family = family}))

\* SUCCESS also when the interface is not there: the buffer is then as it was.
obtain_iface_mac(sys, ifname, buf) ==
    FoldLeft(LAMBDA mac, a : IF a.name = ifname /\ a.family = "AF_LINK" THEN a.ip ELSE mac,
             buf, sys.ifaddrs)

obtain_iface_ip_mask(sys, ifname) ==
    Select(sys.ifaddrs, {a \in ToSet(sys.ifaddrs) : a.name = ifname})

\* FAILURE, with an empty list, when the file does not open.
obtain_dns_list(sys) == IF ~sys.resolv_opens THEN <<>> ELSE
    Select(sys.resolv, {line \in ToSet(sys.resolv) : line.key = "nameserver"})

\* Linux: one message of the routing table.
retrive_if_gateway(r, ifname) ==
    r.family = "AF_INET" /\ r.main /\ r.dst = "default" /\ r.name = ifname

\* The kernel dumps the table in several datagrams of messages that are all marked
\* as parts, and ends with one that holds NLMSG_DONE.
dump(sys) ==
    [i \in DOMAIN sys.datagrams |->
        [type |-> "RTM_NEWROUTE", multi |-> TRUE, msgs |-> sys.datagrams[i]]]
    \o <<[type |-> "NLMSG_DONE", multi |-> TRUE, msgs |-> <<>>]>>

\* The header, what is taken for the error of an error message, and the rest.
MessageSize == 3

\* recv of one more datagram, cut to the room that is left.  The first header in it
\* decides whether another one is read: with no room left, what lies behind the
\* buffer.  When the first message is cut within what is taken for its error, the
\* length of the piece is subtracted.  The number of the request is raised before
\* it is compared, so no answer matches it and the comparison ends nothing.
recv_datagram(sys, acc, d) ==
    LET room  == sys.bufsize - acc.len
        whole == MessageSize * Len(d.msgs)
        read  == IF room < whole THEN room ELSE whole
    IN  IF acc.end THEN acc
        ELSE IF room = 0 THEN [acc EXCEPT !.end = sys.beyond]
        ELSE IF d.type = "NLMSG_DONE" THEN [acc EXCEPT !.end = TRUE]
        ELSE IF read = 2 THEN [acc EXCEPT !.len = @ - read, !.end = TRUE]
        ELSE [msgs |-> acc.msgs \o d.msgs, len |-> acc.len + read, end |-> ~d.multi]

\* The messages that are whole, and whether it waits for a datagram that never comes.
read_from_netlink_socket(sys) ==
    LET datagrams == dump(sys)
        after[n \in 0..Len(datagrams)] ==
            IF n = 0 THEN [msgs |-> <<>>, len |-> 0, end |-> FALSE]
            ELSE recv_datagram(sys, after[n - 1], datagrams[n])
        last == after[Len(datagrams)]
    IN  [msgs |-> SubSeq(last.msgs, 1, last.len \div MessageSize), waits |-> ~last.end]

linux_iface_ipv4_gateway(sys, ifname) ==
    LET messages == read_from_netlink_socket(sys).msgs
    IN  First(Select(messages, {r \in ToSet(messages) : retrive_if_gateway(r, ifname)}))

\* macOS: the first default route of the interface that is not a clone, for which
\* main stands.
apple_iface_ipv4_gateway(sys, ifname) ==
    First(Select(sys.routes, {r \in ToSet(sys.routes) :
        /\ r.main
        /\ r.family = "AF_INET"
        /\ r.dst = "default" /\ r.name = ifname}))

obtain_iface_ipv4_gateway(sys, ifname) ==
    IF sys.linux THEN linux_iface_ipv4_gateway(sys, ifname)
    ELSE apple_iface_ipv4_gateway(sys, ifname)

inet_pton(family, server) == IF server[1] = family THEN <<server[2]>> ELSE <<>>

\* The first name server as it is written: the user's, else the system's.
dns1_str(sys, fake_dns1) ==
    IF fake_dns1 # <<>> THEN fake_dns1[1] ELSE First(obtain_dns_list(sys))[1].value

\* The status is "crash" when resolv.conf has no nameserver: a read through NULL.
rjv3_get_dhcp_lease(sys, ifname, fake_dns1) ==
    LET ipv4 == find_ip_with_family(obtain_iface_ip_mask(sys, ifname), "AF_INET")
        gw   == obtain_iface_ipv4_gateway(sys, ifname)
        dns1 == inet_pton("AF_INET", dns1_str(sys, fake_dns1))
    IN  IF ipv4 = <<>> THEN [status |-> "FAILURE"]
        ELSE IF sys.linux /\ read_from_netlink_socket(sys).waits THEN [status |-> "waits"]
        ELSE IF gw = <<>> \/ (fake_dns1 = <<>> /\ ~sys.resolv_opens) THEN [status |-> "FAILURE"]
        ELSE IF fake_dns1 = <<>> /\ obtain_dns_list(sys) = <<>> THEN [status |-> "crash"]
        ELSE IF dns1 = <<>> THEN [status |-> "FAILURE"]
        ELSE [status |-> "SUCCESS", ip |-> ipv4[1].ip, netmask |-> ipv4[1].mask,
              gateway |-> gw[1].gateway, dns |-> dns1[1]]

\* Only the second one.
rjv3_set_secondary_dns(sys, fake_dns2) ==
    LET dns == obtain_dns_list(sys)
    IN  IF fake_dns2 # <<>> THEN fake_dns2 ELSE IF Len(dns) >= 2 THEN <<dns[2]>> ELSE <<>>

\* The last address of each scope; an interface with no entry is a read through
\* NULL.
rjv3_set_ipv6_addr(sys, ifname) ==
    LET list == obtain_iface_ip_mask(sys, ifname)
        last(scope) ==
            First(Reverse(Select(list,
                {a \in ToSet(list) : a.family = "AF_INET6" /\ a.scope = scope})))
    IN  IF list = <<>> THEN [status |-> "crash"]
        ELSE [status |-> "SUCCESS", ll_slaac |-> last("slaac"), ll_temp |-> last("temp"),
              global |-> last("global")]

\* The twisted header: its addresses stay zeros without a lease.
rjv3_append_priv_header(sys, ifname, dhcp_enabled, fill, fake_dns1) ==
    [dhcp_enabled |-> dhcp_enabled,
     lease |-> IF fill THEN rjv3_get_dhcp_lease(sys, ifname, fake_dns1)
               ELSE [status |-> "zeros"]]
-----------------------------------------------------------------------------
\* The routing table fits into the buffer, with what ends it.
TableFits(sys) == sys.linux => MessageSize * Len(FlattenSeq(sys.datagrams)) < sys.bufsize

\* The name server that counts: the user's, or the first of the file.
ServerOf(sys, fake) ==
    IF fake # <<>> THEN {fake[1]}
    ELSE {sys.resolv[i].value : i \in
            {i \in DOMAIN sys.resolv :
                /\ sys.resolv_opens /\ sys.resolv[i].key = "nameserver"
                /\ \A j \in 1..(i - 1) : sys.resolv[j].key # "nameserver"}}

\* What a lease promises: its addresses belong to the interface, and its server is
\* the one that counts.  As long as the table fits, it is missing only when one of
\* them is, or the server is not written as an IPv4 address.
LeaseIsOf(sys, ifname, fake) ==
    LET header == rjv3_append_priv_header(sys, ifname, TRUE, TRUE, fake)
        lease  == header.lease
        mine   == {a \in ToSet(sys.ifaddrs) : a.name = ifname /\ a.family = "AF_INET"}
        out    == {r \in ToSet(sys.routes) : retrive_if_gateway(r, ifname)}
        usable == {server \in ServerOf(sys, fake) : server[1] = "AF_INET"}
    IN  /\ lease.status = "SUCCESS" =>
            /\ \E a \in mine : lease.ip = a.ip /\ lease.netmask = a.mask
            /\ \E r \in out : lease.gateway = r.gateway
            /\ \E server \in usable : lease.dns = server[2]
        /\ TableFits(sys) =>
            lease.status = IF mine = {} \/ out = {} \/ usable = {} THEN "FAILURE" ELSE "SUCCESS"
=============================================================================
