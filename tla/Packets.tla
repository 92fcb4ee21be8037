------------------------------ MODULE Packets ------------------------------
(* What leaves the process: the packet builder, which the thread and the       *)
(* SIGALRM handler share, the trailer of rjv3, its lease and its heartbeat.    *)
(*                                                                             *)
(* The thread builds a packet in four calls, and an alarm that sends one may   *)
(* preempt it between any two.  A frame is a record of the fields the builder  *)
(* fills in, eap = <<>> if it has no EAP header.  data is one piece of what a  *)
(* frame carries, as RjProps, NetUtil, Digests and Gbconv write or             *)
(* read it; it is chosen at the beginning and has no part in what follows.     *)
EXTENDS RjProps, NetUtil, Digests, Gbconv

CONSTANTS
    Ids,            \* EAP identifiers
    Seeds,          \* MD5 seeds
    Servers,        \* MAC addresses of servers
    UserLength,     \* strlen(username)
    BcastRj,        \* bcast_addr is BROADCAST_RJ

    Ifname,         \* the interface
    Data            \* the pieces of data, by what they are pieces of

ASSUME PacketAssumption == UserLength \in Nat /\ BcastRj \in BOOLEAN

VARIABLES
    builder,        \* g_builder, used by everyone
    server_mac,     \* PRIV->server_mac
    dest_mac,       \* g_dest_mac of the keep-alive
    last,           \* the request last received, for the watchdog
    pc, request,    \* the thread: its next call, and what it was asked to build
    disturbed,      \* ghost: whether an alarm sent something meanwhile
    sent,           \* ghost: the last frame sent, and whether it was as asked
    data            \* a piece of data, or nothing

vars == <<builder, server_mac, dest_mac, last, pc, request, disturbed, sent, data>>

Kinds == {"identity", "challenge", "start", "logoff"}

Requests == [id : Ids, seed : Seeds]

type_of(kind) == CASE kind \in {"identity", "challenge"} -> "EAP_PACKET"
                   [] kind = "start"  -> "EAPOL_START"
                   [] kind = "logoff" -> "EAPOL_LOGOFF"
-----------------------------------------------------------------------------
(* packet_builder.c *)

MD5_CHALLENGE_DIGEST_SIZE == 16
EapHeaderSize   == 5
EapolHeaderSize == 18

hash_md5_pwd(id, seed) == <<id, seed>>

builder_set_eth_field(b, dest, src) == [b EXCEPT !.dest_mac = dest, !.src_mac = src]

\* Mutant: the length of a packet without EAP header is left as it was.
set_eap_fields_keeping_len(b, type, eap_type, id) ==
    IF type # "EAP_PACKET" THEN [b EXCEPT !.type = type]
    ELSE [b EXCEPT !.type = type, !.id = id, !.eap_type = eap_type,
                   !.len = EapHeaderSize + UserLength
                           + IF eap_type = "challenge" THEN MD5_CHALLENGE_DIGEST_SIZE + 1 ELSE 0]

builder_set_eap_fields(b, type, eap_type, id) ==
    IF type # "EAP_PACKET" THEN [b EXCEPT !.type = type, !.len = 0]
    ELSE [b EXCEPT !.type = type, !.id = id, !.eap_type = eap_type,
                   !.len = EapHeaderSize + UserLength
                           + IF eap_type = "challenge" THEN MD5_CHALLENGE_DIGEST_SIZE + 1 ELSE 0]

builder_set_eap_md5_seed(b, seed) == [b EXCEPT !.md5_seed = seed]

\* What the EAP header says and what follows it, and the length returned.
builder_build_packet(b) ==
    LET eap == IF b.type # "EAP_PACKET" THEN <<>>
               ELSE IF b.eap_type = "challenge"
               THEN <<b.eap_type, b.id, hash_md5_pwd(b.id, b.md5_seed)>>
               ELSE <<b.eap_type, b.id>>
        room == CASE Len(eap) = 0 -> 0
                  [] Len(eap) = 2 -> EapHeaderSize + UserLength
                  [] Len(eap) = 3 -> EapHeaderSize + UserLength + MD5_CHALLENGE_DIGEST_SIZE + 1
    IN  [dest_mac |-> b.dest_mac, src_mac |-> b.src_mac, type |-> b.type, len |-> b.len,
         eap |-> eap, actual_len |-> EapolHeaderSize + room]

\* rjv3's prepare_frame looks for its server with a multicast of its own.
rjv3_apply_bcast_addr(f) ==
    IF BcastRj /\ f.type = "EAPOL_START" THEN [f EXCEPT !.dest_mac = "rj_bcast"] ELSE f
-----------------------------------------------------------------------------
(* eap_state_machine.c and keepalive.c: the calls that make up a packet *)

set_outgoing_eth_fields(b, server) == builder_set_eth_field(b, server, "local")

set_fields(b, kind, r) ==
    IF kind \in {"identity", "challenge"}
    THEN builder_set_eap_fields(b, "EAP_PACKET", kind, r.id)
    ELSE builder_set_eap_fields(b, type_of(kind), "none", 0)

set_seed(b, kind, r) ==
    IF kind = "challenge" THEN builder_set_eap_md5_seed(b, r.seed) ELSE b

\* The calls in a row, as they run inside the SIGALRM handler.
send_response(b, kind, r, server) ==
    set_seed(set_fields(set_outgoing_eth_fields(b, server), kind, r), kind, r)

\* send_echo_frame: the builder afterwards, and the frame it sends.
echo_fields(b, dest) ==
    builder_set_eap_fields(builder_set_eth_field(b, dest, "local"),
                           "EAPOL_RJ_PROPRIETARY_KEEPALIVE", "none", 0)

send_echo_frame(b, dest) ==
    LET f == builder_build_packet(echo_fields(b, dest))
    IN  [f EXCEPT !.len = 30, !.actual_len = @ + 27]
-----------------------------------------------------------------------------
\* Reference: the frame that answers a request.
Asked(kind, r, server) ==
    LET body == EapHeaderSize + UserLength + (IF kind = "challenge" THEN 17 ELSE 0)
        eap  == kind \in {"identity", "challenge"}
    IN  [dest_mac   |-> IF kind = "start" /\ BcastRj THEN "rj_bcast" ELSE server,
         src_mac    |-> "local",
         type       |-> type_of(kind),
         len        |-> IF eap THEN body ELSE 0,
         eap        |-> CASE kind = "identity"  -> <<kind, r.id>>
                          [] kind = "challenge" -> <<kind, r.id, <<r.id, r.seed>>>>
                          [] ~eap -> <<>>,
         actual_len |-> IF eap THEN 18 + body ELSE 18]

AskedEcho(dest) ==
    [dest_mac |-> dest, src_mac |-> "local", type |-> "EAPOL_RJ_PROPRIETARY_KEEPALIVE",
     len |-> 30, eap |-> <<>>, actual_len |-> 45]

NoRequest == CHOOSE r \in Requests : TRUE

Init ==
    /\ builder = [dest_mac |-> "zero", src_mac |-> "zero", type |-> "EAP_PACKET", len |-> 0,
                  id |-> 0, eap_type |-> "none", md5_seed |-> "NULL"]
    /\ server_mac = "bcast" /\ dest_mac = "zero" /\ last = NoRequest
    /\ pc = "idle"
    /\ request = [kind |-> "start", server |-> "bcast", r |-> NoRequest]
    /\ disturbed = FALSE
    /\ sent = [asked |-> TRUE, disturbed |-> FALSE]
    /\ data \in Data \cup {[of |-> "nothing"]}

\* Packets are built once the data is done with.
Going == data.of = "nothing" /\ UNCHANGED data

\* The thread is asked for a packet: by a frame of a server, or to start or log off.
Begin(kind, r, server) ==
    /\ Going /\ pc = "idle"
    /\ request' = [kind |-> kind, server |-> server, r |-> r]
    /\ server_mac' = server
    /\ last' = r
    /\ pc' = "eth" /\ disturbed' = FALSE
    /\ UNCHANGED <<builder, dest_mac, sent>>

Request(kind, r, server) == kind \in {"identity", "challenge"} /\ Begin(kind, r, server)

Simple(kind) == kind \in {"start", "logoff"} /\ Begin(kind, last, server_mac)

\* A Success resets the state machine, and names the server of the heartbeats.
Success(server) ==
    /\ Going /\ pc = "idle"
    /\ server_mac' = "bcast" /\ dest_mac' = server
    /\ UNCHANGED <<builder, last, pc, request, disturbed, sent>>

Step(from, to, b) ==
    /\ Going /\ pc = from
    /\ pc' = to
    /\ builder' = b
    /\ UNCHANGED <<server_mac, dest_mac, last, request, disturbed, sent>>

SetEth    == Step("eth", "fields", set_outgoing_eth_fields(builder, server_mac))
SetFields == Step("fields", "seed", set_fields(builder, request.kind, request.r))
SetSeed   == Step("seed", "build", set_seed(builder, request.kind, request.r))

Build ==
    /\ Going /\ pc = "build"
    /\ pc' = "idle"
    /\ sent' = [asked |-> rjv3_apply_bcast_addr(builder_build_packet(builder))
                            = Asked(request.kind, request.r, request.server),
                disturbed |-> disturbed]
    /\ UNCHANGED <<builder, server_mac, dest_mac, last, request, disturbed>>

\* An alarm sends a packet and returns.
Alarm(b, f, asked) ==
    /\ Going
    /\ builder' = b
    /\ sent' = [asked |-> f = asked, disturbed |-> FALSE]
    /\ disturbed' = TRUE
    /\ UNCHANGED <<dest_mac, last, pc, request>>

\* restart_auth, or the watchdog while a server is looked for, or the second
\* authentication of rjv3.
StartAgain(server) ==
    LET b == send_response(builder, "start", last, server)
    IN  /\ server \in {server_mac, "bcast"}
        /\ server_mac' = server
        /\ Alarm(b, rjv3_apply_bcast_addr(builder_build_packet(b)), Asked("start", last, server))

\* The watchdog answers the last frame as the state wants it answered.  While the
\* thread answers one, it only barks if the state was the same before.
Retransmit(kind) ==
    LET b == send_response(builder, kind, last, server_mac)
    IN  /\ kind \in {"identity", "challenge"} /\ server_mac # "bcast"
        /\ pc = "idle" \/ kind = request.kind
        /\ UNCHANGED server_mac
        /\ Alarm(b, builder_build_packet(b), Asked(kind, last, server_mac))

Heartbeat ==
    /\ dest_mac # "zero"
    /\ UNCHANGED server_mac
    /\ Alarm(echo_fields(builder, dest_mac), send_echo_frame(builder, dest_mac), AskedEcho(dest_mac))

\* The data was written or read.
Done ==
    /\ data.of # "nothing"
    /\ data' = [of |-> "nothing"]
    /\ UNCHANGED <<builder, server_mac, dest_mac, last, pc, request, disturbed, sent>>

Next ==
    \/ Done
    \/ \E kind \in Kinds, r \in Requests, server \in Servers : Request(kind, r, server)
    \/ \E kind \in Kinds : Simple(kind) \/ Retransmit(kind)
    \/ \E server \in Servers : Success(server)
    \/ SetEth \/ SetFields \/ SetSeed \/ Build
    \/ \E server \in Servers \cup {"bcast"} : StartAgain(server)
    \/ Heartbeat

Spec == Init /\ [][Next]_vars
-----------------------------------------------------------------------------
(* Properties. *)

\* Whoever used the builder before, and wherever an alarm finds it, a packet whose
\* calls were not interrupted is the one that was asked for.
UndisturbedAsAsked == ~sent.disturbed => sent.asked

\* packet_builder.h: "Build the packet into buffer based on information given
\* previously".  Every packet is the one that was asked for.
PacketAsAsked == sent.asked

\* A trailer says what it was made from: every common property as it was modified,
\* then the additional ones, under the length of all.  The modifications must not
\* change the sizes (TrailerAsAsked), nor a content outgrow its length byte.
TrailerHoldsProps ==
    data.of = "trailer"
        /\ modified_delta(rjv3_append_common_fields(data.field, data.md5), data.mods) = 0
        /\ (\A i \in DOMAIN data.options : Len(data.options[i].content) <= MostContent)
    => TrailerSays(data.field, data.md5, data.mods, data.options)

\* rjv3_prop_length_field_ok: "These two types of property are known unreliable".
\* A message of the server is read property by property, whatever the lengths of
\* types 0 and 1 claim, up to the longest content a length byte can count.  What it
\* says is shown in a buffer that holds it, every character of it as one character,
\* and as the right one, except for those with a second byte below 128 (see
\* CharactersAsSent).
MessageUnderstood ==
    /\ data.of = "message" /\ (\A i \in DOMAIN data.msg : Len(data.msg[i].content) <= MostContent)
            => MessageRead(data.msg)
    /\ data.of = "text" =>
        Shown(data.characters, data.half, data.after, {c \in ToSet(data.characters) : Found(c)})

\* The server can compute the key it gave out from the two numbers of any
\* heartbeat, also when they overflow, and the second one counts the heartbeats.
EchoCarriesKey == data.of = "heartbeat" => KeyCarried(data.key, data.no)

\* The addresses of a lease all belong to the interface, or to the user, however
\* many interfaces, families and routes the system lists.  As long as the routing
\* table fits its buffer, the lease is missing only when one of them is, or when the
\* name server that counts is not written as an IPv4 address.
LeaseOfInterface == data.of = "lease" => LeaseIsOf(data.sys, Ifname, data.fake)

\* A digest does not depend on the chunks its message comes in, where they lie in
\* memory, or what the buffer of the context held before; the answer to a challenge
\* is computed from the whole seed, and from the password without what was there.
DigestOfMessage ==
    /\ data.of = "digest" => DigestOf(data.alg, data.msg, data.cut, data.aligned)
    /\ data.of = "seed" => V4Holds(data.seed)
    /\ data.of = "password" => PwdHolds(data.md5, data.username, data.password)

\* Refuted: a notice (type 0) is longer than a length byte can count, as its own is
\* not trusted; append_rjv3_prop stores the length of what it found in one all the same.
NoticesWhole == data.of = "message" => MessageRead(data.msg)

\* gbconv.c: "1xxxxxxx 01xxxxxx -> 001xxxxx xxxxxxxx".  Refuted: the test above that line
\* never holds, and a character with such a second byte is shown as another one.
CharactersAsSent ==
    data.of = "text" => Shown(data.characters, data.half, data.after, ToSet(data.characters))

\* The help of --rj-option: ":r 表示替换内置生成的字段": a property may be replaced by
\* one of any size.  Refuted: the length of the trailer counts the difference twice.
TrailerAsAsked ==
    data.of = "trailer" => TrailerSays(data.field, data.md5, data.mods, data.options)
=============================================================================
