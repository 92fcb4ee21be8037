----------------------------- MODULE MCPackets -----------------------------
(* Instances of Packets for TLC, and the inputs its data is built from. *)
EXTENDS Packets

\* Two interfaces, of any families; routes through either; name servers of any
\* family behind a search line, or no file.  Then routing tables that do not fit:
\* of three messages, with room for two and nothing, a header, or a header and what
\* is taken for an error of the third, and four that end with the buffer.
Addrs == [name : {"en0", "en1"}, family : {"AF_LINK", "AF_INET", "AF_INET6"}]
AnAddr(a, i) == [name |-> a.name, family |-> a.family, scope |-> "global",
                 ip |-> <<a.name, i>>, mask |-> <<"mask", i>>]
Routes == [name : {"en0", "en1"}, dst : {"default", "lan"}, main : BOOLEAN]
ARoute(r, i) == [name |-> r.name, dst |-> r.dst, main |-> r.main, family |-> "AF_INET",
                 gateway |-> <<r.name, i>>]
Resolv(families) ==
    <<[key |-> "search", value |-> <<"none", "lan">>]>>
        \o [i \in DOMAIN families |-> [key |-> "nameserver", value |-> <<families[i], i>>]]
ASystem(as, rs, cut, bufsize, beyond, families, opens) ==
    [ifaddrs |-> [i \in DOMAIN as |-> AnAddr(as[i], i)],
     routes  |-> [i \in DOMAIN rs |-> ARoute(rs[i], i)],
     linux |-> cut # "macOS", bufsize |-> bufsize, beyond |-> beyond,
     datagrams |-> CASE cut = "macOS" \/ rs = <<>> -> <<>>
                     [] cut = "one"  /\ rs # <<>> -> <<[i \in DOMAIN rs |-> ARoute(rs[i], i)]>>
                     [] cut = "each" /\ rs # <<>> -> [i \in DOMAIN rs |-> <<ARoute(rs[i], i)>>],
     resolv_opens |-> opens, resolv |-> Resolv(families)]
Families == {<<"AF_INET", "AF_INET6">>, <<"AF_INET6", "AF_INET">>, <<"none">>}
AllSystems ==
    LET addrs(most)  == UNION {[1..n -> Addrs] : n \in 0..most}
        routes(most) == UNION {[1..n -> Routes] : n \in 0..most}
        one == [name |-> "en0", family |-> "AF_INET"]
        lan == [name |-> "en1", dst |-> "lan", main |-> TRUE]
    IN  {ASystem(as, rs, cut, 7, FALSE, <<"AF_INET", "AF_INET6">>, TRUE) :
            as \in addrs(2), rs \in routes(2), cut \in {"macOS", "one", "each"}}
        \cup {ASystem(as, rs, cut, 7, FALSE, families, opens) :
            as \in addrs(1), rs \in routes(1), cut \in {"macOS", "one"},
            families \in Families, opens \in BOOLEAN}
        \cup {ASystem(<<one>>, rs, cut, bufsize, beyond, <<"AF_INET">>, TRUE) :
            rs \in {<<q, r, t>> : q \in Routes, r \in Routes, t \in Routes}
                    \cup {<<lan, lan, r, t>> : r \in Routes, t \in Routes},
            cut \in {"one", "each"}, bufsize \in 6..12, beyond \in BOOLEAN}
AllFakes == {<<>>, <<<<"AF_INET", "fake">>>>, <<<<"none", "fake">>>>}

\* Short contents, one of which looks like the start of a property.
AllFields == {[type \in 0..255 |-> IF type = HDD_SER THEN Magic ELSE <<type, 26>>],
              [type \in 0..255 |-> IF type = SERVICE THEN <<>> ELSE <<1>>]}
AllMods ==
    LET mod == {<<new_rjv3_prop(type, content)>> :
                    type \in {DHCP, SERVICE, 200}, content \in {<<>>, <<7>>, <<7, 8>>}}
    IN  {<<>>} \cup {m \o n : m \in mod, n \in mod}
Content(n) == [i \in 1..n |-> 1 + (i % 200)]
AllOptions ==
    LET option == {new_rjv3_prop(type, content) :
                    type \in {0, DHCP, 200}, content \in {<<>>, Magic}}
        \* The length of the property wraps to 0; the one of its content is the last.
        long   == {new_rjv3_prop(200, Content(n)) : n \in {248, MostContent}}
    IN  {<<>>} \cup {<<o>> : o \in option \cup long} \cup {<<o, p>> : o \in option, p \in option}

\* Contents of up to three bytes; a length byte may lie where it is not trusted.
\* Long ones up to the last length of a byte, and the first that wraps.
AllMessages ==
    LET contents == UNION {[1..n -> {0, 17, 19}] : n \in 0..3}
        props    == {[type |-> t, len |-> Len(c) + 2, content |-> c] :
                        t \in {0, 1, 60}, c \in contents}
                    \cup {[type |-> 1, len |-> l, content |-> c] : l \in {0, 3, 255}, c \in contents}
        long     == {[type |-> t, len |-> U8(n + 2), content |-> Content(n)] :
                        t \in {0, 1, 60}, n \in {248, MostContent}}
                    \cup {[type |-> 0, len |-> 0, content |-> Content(MostContent + 1)]}
    IN  {<<>>} \cup {<<p>> : p \in props \cup long} \cup {<<p, q>> : p \in long, q \in long}
        \cup {<<p, q>> : p \in props, q \in {r \in props : Len(r.content) <= 1}}

AllNumbers == [1..4 -> {0, 6, 255}]

\* A message of up to two blocks and a byte, cut once.
Digested ==
    UNION {[of : {"digest"}, alg : Algorithms, msg : {[i \in 1..n |-> 10 + i]}, cut : 0..n,
            aligned : BOOLEAN] : n \in 0..(2 * Block + 1)}

\* Seeds of every type, with the first bytes above 127.
Seeds16 == {[i \in 1..16 |-> CASE i = 1 -> a [] i = 4 -> b [] i <= k -> 200 [] OTHER -> 5] :
                a \in {0, 1, 2, 127, 128, 255}, b \in {0, 3, 130, 254}, k \in {0, 9, 10, 11, 12, 16}}
Text(what, n) == [i \in 1..n |-> what + i]

\* Code points of one, two and three bytes, and none.
GbkTable ==
    [i \in 0..24575 |-> CASE i % 5 = 0 -> 0 [] i % 5 = 1 -> 65 + (i % 26) [] i % 5 = 2 -> 233
                           [] i % 5 = 3 -> 19968 + (i % 5000) [] i % 5 = 4 -> 2047 + (i % 2)]
Characters == {Narrow(65)} \cup {Wide(b1, b2) : b1 \in {129, 176, 254}, b2 \in {64, 127, 161, 254}}
Texts == {<<>>} \cup {<<c>> : c \in Characters} \cup {<<c, d>> : c \in Characters, d \in Characters}

AllData ==
    [of : {"trailer"}, field : AllFields, md5 : BOOLEAN, mods : AllMods, options : AllOptions]
        \cup [of : {"message"}, msg : AllMessages]
        \cup [of : {"heartbeat"}, key : AllNumbers, no : AllNumbers]
        \cup [of : {"lease"}, sys : AllSystems, fake : AllFakes]
        \cup Digested
        \cup [of : {"text"}, characters : Texts, half : {<<>>, <<200>>}, after : {0, 65, 127, 200}]
        \cup [of : {"seed"}, seed : Seeds16]
        \cup {[of |-> "password", md5 |-> Text(0, 16), username |-> Text(300, n),
               password |-> Text(400, m)] : n \in {0, 10, 24}, m \in {0, 8, 15, 16, 20}}
=============================================================================
