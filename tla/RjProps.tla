------------------------------ MODULE RjProps ------------------------------
(* The vendor's properties: lists of them, their bytes, the trailer rjv3      *)
(* appends to a frame, and the numbers of its heartbeat.                      *)
(*                                                                            *)
(* A buffer is a sequence of bytes.  What a property says is abstracted to a  *)
(* short sequence; its order, headers, lengths and place are the code's.      *)
EXTENDS Integers, Sequences, SequencesExt

CONSTANT
    FrameBufSize  \* FRAME_BUF_SIZE: the buffer of a frame, and of its trailer

ASSUME FrameBufSize \in Nat

U8(n) == n % 256
-----------------------------------------------------------------------------
(* packet_plugin_rjv3_prop.c *)

Magic == <<0, 0, 19, 17>>
Header2Size == Len(Magic) + 2
HeaderSize  == 2 + Header2Size

\* A property with header_type 0x1a: header_len counts all of it, len the content,
\* the type and itself.
new_rjv3_prop(type, content) ==
    [header_type |-> 26, header_len |-> U8(Len(content) + HeaderSize),
     type |-> type, len |-> U8(Len(content) + 2), content |-> content]

append_rjv3_prop(list, type, content) == Append(list, new_rjv3_prop(type, content))

\* The first property of a type is modified; nothing happens when there is none.
modify_rjv3_prop(list, type, content) ==
    LET i == SelectInSeq(list, LAMBDA p : p.type = type)
    IN  IF i = 0 THEN list ELSE [list EXCEPT ![i] = new_rjv3_prop(type, content)]

modify_rjv3_prop_list(list, mods) ==
    FoldLeft(LAMBDA l, p : modify_rjv3_prop(l, p.type, p.content), list, mods)

\* What modify_rjv3_prop_list returns: the difference in sizes.
modified_delta(list, mods) ==
    LET size(l) == FoldLeft(LAMBDA n, p : n + p.len, 0, l)
    IN  size(modify_rjv3_prop_list(list, mods)) - size(list)

\* Mutant: the length of the header is not in the length.
prop_bytes_shifted(p) ==
    <<p.header_type, p.header_len>> \o Magic \o <<p.type, p.len - 2>>
        \o SubSeq(p.content, 1, p.len - 2)

prop_bytes(p) == <<p.header_type, p.header_len>> \o Magic \o <<p.type, p.len>>
                    \o SubSeq(p.content, 1, p.len - 2)

\* memmove(buf + at, bytes)
Write(buf, at, bytes) ==
    [i \in DOMAIN buf |-> IF i - at \in DOMAIN bytes THEN bytes[i - at] ELSE buf[i]]

\* A property that does not fit answers -1, which the size_t _single_len makes
\* positive: the length goes down by one and the next property is tried.
append_rjv3_prop_list_to_buffer(list, buf, at) ==
    FoldLeft(LAMBDA acc, p :
                IF Len(buf) - at - acc.len < Len(prop_bytes(p))
                THEN [acc EXCEPT !.len = @ - 1]
                ELSE [buf |-> Write(acc.buf, at + acc.len, prop_bytes(p)),
                      len |-> acc.len + Len(prop_bytes(p))],
             [buf |-> buf, len |-> 0], list)

\* The offset of the first match in buf, or -1.  A match at the very end is missed.
find_byte_pattern(pattern, buf) ==
    LET found == {i \in 0..(Len(buf) - Len(pattern) - 1) :
                    SubSeq(buf, i + 1, i + Len(pattern)) = pattern}
    IN  IF found = {} THEN -1 ELSE Min(found)

rjv3_prop_length_field_ok(type, len) == type \notin {0, 1} /\ len >= 2

\* Up to the next magic, or all that is left; header bytes precede each magic.
length_by_pattern(rest, header) ==
    LET next == find_byte_pattern(Magic, rest)
    IN  IF next = -1 THEN Len(rest) ELSE next - header

\* Mutant: the lengths of types 0 and 1 are believed.
length_of_trusting(rest, header_type, type, len, bare) ==
    IF len - 2 \in 0..Len(rest) THEN len - 2 ELSE Len(rest)

length_of(rest, header_type, type, len, bare) ==
    IF (IF bare THEN rjv3_prop_length_field_ok(type, len) ELSE header_type = 26)
    THEN len - 2
    ELSE length_by_pattern(rest, IF bare THEN 0 ELSE 2)

\* The list as far as the buffer was understood; the callers ignore the result.
parse_rjv3_buf_to_prop_list(buf, bare) ==
    LET head == IF bare THEN Header2Size ELSE HeaderSize
        skip == head - Header2Size
        from[at \in Nat] ==
            IF at + head > Len(buf) \/ SubSeq(buf, at + skip + 1, at + skip + 4) # Magic
            THEN <<>>
            ELSE LET rest == SubSeq(buf, at + head + 1, Len(buf))
                     type == buf[at + head - 1]
                     size == length_of(rest, buf[at + 1], type, buf[at + head], bare)
                 IN  <<new_rjv3_prop(type, SubSeq(rest, 1, size))>> \o from[at + head + size]
    IN  from[0]
-----------------------------------------------------------------------------
(* packet_plugin_rjv3_priv.c, the trailer *)

\* RJV3_TYPE_*, in the order of rjv3_append_common_fields.
DHCP      == 24
PWD_HASH  == 47
SEC_DNS   == 118
LL_IPV6   == 54
LL_IPV6_T == 56
GLB_IPV6  == 78
V3_HASH   == 77
SERVICE   == 57
HDD_SER   == 84
VER_STR   == 111

CommonTypes == <<DHCP, 45, PWD_HASH, SEC_DNS, 53, LL_IPV6, LL_IPV6_T, GLB_IPV6,
                 V3_HASH, SERVICE, HDD_SER, 85, 98, 112, VER_STR>>

rjv3_append_common_fields(field, append_pwd_hash) ==
    FoldLeft(LAMBDA list, type : append_rjv3_prop(list, type,
                IF type = PWD_HASH /\ ~append_pwd_hash THEN <<>> ELSE field[type]),
             <<>>, CommonTypes)

\* A frame of used bytes takes what fits, and is otherwise left as it is; nobody
\* asks append_to_frame which.
append_to_frame(bytes, used, data) ==
    IF used + Len(bytes) + Len(data) > FrameBufSize THEN bytes ELSE bytes \o data

\* rjv3_append_priv, after its header, in a frame of used bytes: whether it
\* succeeds, the length it announces and the bytes that follow.  The delta of the
\* modifications is in _single_len as well, and is counted twice.
rjv3_append_priv(field, append_pwd_hash, mods, options, used) ==
    LET common == rjv3_append_common_fields(field, append_pwd_hash)
        zeros  == [i \in 1..FrameBufSize |-> 0]
        first  == append_rjv3_prop_list_to_buffer(modify_rjv3_prop_list(common, mods), zeros, 0)
        at     == first.len + modified_delta(common, mods)
        second == append_rjv3_prop_list_to_buffer(options, first.buf, at)
        length == at + second.len
    IN  [success |-> first.len > 0 /\ second.len >= 0, length |-> length,
         bytes   |-> append_to_frame(<<>>, used + 7, SubSeq(second.buf, 1, length))]
-----------------------------------------------------------------------------
(* Conversions: misc.c, rjencode.c *)

half_reverse_table == <<0, 8, 4, 12, 2, 10, 6, 14, 1, 9, 5, 13, 3, 11, 7, 15>>

bit_reverse(b) ==
    half_reverse_table[(b % 16) + 1] * 16 + half_reverse_table[(b \div 16) + 1]

Complement(b) == 255 - b

Bit(b, mask) == (b \div mask) % 2

rj_encode(b) ==
    Complement(Bit(b, 16) * 8 + Bit(b, 32) * 4 + Bit(b, 64) * 2 + Bit(b, 128)
               + Bit(b, 8) * 16 + Bit(b, 4) * 32 + Bit(b, 2) * 64 + Bit(b, 1) * 128)

rj_decode(b) ==
    LET c == Complement(b)
    IN  Bit(c, 16) * 8 + Bit(c, 32) * 4 + Bit(c, 64) * 2 + Bit(c, 128)
        + Bit(c, 8) * 16 + Bit(c, 4) * 32 + Bit(c, 1) * 128 + Bit(c, 2) * 64
-----------------------------------------------------------------------------
(* The heartbeat: packet_plugin_rjv3_priv.c, packet_plugin_rjv3_keepalive.c.   *)
(* A uint32_t is the sequence of its bytes, the most significant first.        *)

Plus(m, n) ==
    LET sum4 == m[4] + n[4]
        sum3 == m[3] + n[3] + (sum4 \div 256)
        sum2 == m[2] + n[2] + (sum3 \div 256)
        sum1 == m[1] + n[1] + (sum2 \div 256)
    IN  <<U8(sum1), U8(sum2), U8(sum3), U8(sum4)>>

\* A word as it goes on the wire, and back.
Encoded(word) == [i \in DOMAIN word |-> Complement(bit_reverse(word[i]))]
Decoded(word) == [i \in DOMAIN word |-> bit_reverse(Complement(word[i]))]

\* The key is in bytes 6 to 9 of the first property of type 1 that has a content.
rjv3_is_echokey_prop(p) == p.type = 1 /\ p.len # 2

echokey_of(list) ==
    LET i == SelectInSeq(list, rjv3_is_echokey_prop)
    IN  IF i = 0 THEN <<>>
        ELSE Decoded(SubSeq(list[i].content, 7, 10))

\* Mutant: the first number goes without the key.
new_keepalive_frame_keyless(key, no) ==
    [num1 |-> Encoded(no),
     num2 |-> Encoded(no),
     echono |-> Plus(no, <<0, 0, 0, 1>>)]

\* The two numbers of the frame, and g_echono afterwards.
rjv3_send_new_keepalive_frame(key, no) ==
    [num1 |-> Encoded(Plus(key, no)),
     num2 |-> Encoded(no),
     echono |-> Plus(no, <<0, 0, 0, 1>>)]
-----------------------------------------------------------------------------
(* What these functions promise, of one input each. *)

\* A common property is what the last modification of its type says it is.
Wanted(field, append_pwd_hash, mods, options) ==
    LET content(type) ==
            LET of == SelectSeq(mods, LAMBDA p : p.type = type)
            IN  IF of # <<>> THEN Last(of).content
                ELSE IF type = PWD_HASH /\ ~append_pwd_hash THEN <<>> ELSE field[type]
    IN  [i \in DOMAIN CommonTypes |-> <<CommonTypes[i], content(CommonTypes[i])>>]
            \o [i \in DOMAIN options |-> <<options[i].type, options[i].content>>]

\* What is read of a list: the contents, as far as their length bytes go.
Said(list) == [i \in DOMAIN list |-> <<list[i].type, SubSeq(list[i].content, 1, list[i].len - 2)>>]

\* The longest content a length byte can count.
MostContent == 253

\* A trailer, read back, says what it was made from, and the length of all.
TrailerSays(field, md5, mods, options) ==
    LET trailer == rjv3_append_priv(field, md5, mods, options, 0)
    IN  /\ Said(parse_rjv3_buf_to_prop_list(trailer.bytes, FALSE)) = Wanted(field, md5, mods, options)
        /\ trailer.length = Len(trailer.bytes)

\* A message of properties, whatever their length bytes say, is read property by
\* property.
MessageRead(msg) ==
    LET bytes == FlattenSeq([i \in DOMAIN msg |->
                    Magic \o <<msg[i].type, msg[i].len>> \o msg[i].content])
    IN  Said(parse_rjv3_buf_to_prop_list(bytes, TRUE))
            = [i \in DOMAIN msg |-> <<msg[i].type, msg[i].content>>]

\* The key a Success gives out can be computed from the two numbers of a
\* heartbeat, and the second one counts.
KeyCarried(key, no) ==
    LET frame   == rjv3_send_new_keepalive_frame(key, no)
        given   == [i \in DOMAIN key |-> rj_encode(key[i])]
        success == <<new_rjv3_prop(1, <<>>),
                     new_rjv3_prop(1, <<0, 0, 0, 0, 0, 0>> \o given)>>
    IN  /\ Decoded(frame.num2) = no /\ Decoded(frame.num1) = Plus(key, no)
        /\ echokey_of(success) = key
        /\ frame.echono = Plus(<<0, 0, 0, 1>>, no)
        /\ [i \in DOMAIN given |-> rj_decode(given[i])] = key
=============================================================================
