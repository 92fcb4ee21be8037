------------------------------- MODULE Gbconv -------------------------------
(* The notices of the server, which are in GBK, as they are shown: gbconv.c   *)
(* and the two functions of misc.c that use it.                               *)
EXTENDS Integers, Sequences, SequencesExt

CONSTANT
    Table  \* the code point of each index, 0 if there is none

ASSUME TableAssumption == Table \in [0..24575 -> 0..65535]

Query == 63

utf8(u) ==
    IF u < 128 THEN <<u>>
    ELSE IF u < 2048 THEN <<192 + (u \div 64), 128 + (u % 64)>>
    ELSE <<224 + (u \div 4096), 128 + ((u \div 64) % 64), 128 + (u % 64)>>

\* The first case is never taken: no byte has the two highest bits of 0x10 (see
\* IndexOf).
gbk_to_index(byte1, byte2) ==
    LET twoBits == (byte2 \div 64) * 64
        result  == IF twoBits = 16 THEN ((byte1 * 64) % 16384) + (byte2 % 64)
                   ELSE byte1 * 128 + (byte2 % 128)
    IN  (result - 8192) % 65536

\* What a character of two bytes is turned into.
wide(byte1, byte2) ==
    IF byte2 % 128 = 127 \/ Table[gbk_to_index(byte1, byte2)] = 0 THEN <<Query>>
    ELSE utf8(Table[gbk_to_index(byte1, byte2)])

\* The place in src and the text so far; src goes on behind its end with the byte
\* after, which a last half of a character is joined with.
gbconv8(src, after, dstlen) ==
    LET step(acc, i) ==
            IF acc.ended \/ i < acc.next THEN acc
            ELSE LET byte2 == IF i = Len(src) THEN after ELSE src[i + 1]
                 IN  CASE src[i] = 0   -> [acc EXCEPT !.ended = TRUE]
                       [] src[i] \in 1..127 -> [acc EXCEPT !.text = Append(@, src[i]), !.next = i + 1]
                       [] src[i] > 127 /\ byte2 = 0 ->
                            [acc EXCEPT !.text = Append(@, Query), !.ended = TRUE]
                       [] OTHER -> [acc EXCEPT !.text = @ \o wide(src[i], byte2), !.next = i + 2]
        text == Append(FoldLeft(step, [text |-> <<>>, next |-> 1, ended |-> FALSE],
                                [i \in DOMAIN src |-> i]).text, 0)
    IN  [dst |-> SubSeq(text, 1, Min({dstlen, Len(text)})), len |-> Len(text)]

\* The bytes that are printed: those of a buffer of zeros, four times as long as the
\* message, up to the first zero.  Without a converter the message is copied.
pr_info_gbk(in, after, gbconv) ==
    LET size == 4 * Len(in)
        out  == IF gbconv THEN gbconv8(in, after, size).dst ELSE in
    IN  out \o [i \in 1..(size - Len(out)) |-> 0]
-----------------------------------------------------------------------------
(* What these functions promise, of one message. *)

\* Where the table has a character, as the comments beside gbk_to_index have it:
\* 1xxxxxxx 01xxxxxx is 001xxxxx xxxxxxxx, 1xxxxxxx 1xxxxxxx is 01xxxxxx xxxxxxxx,
\* both less 0x2000.  The table is laid out so.
IndexOf(byte1, byte2) ==
    IF byte2 \in 64..127 THEN (byte1 % 128) * 64 + (byte2 % 64)
    ELSE 8192 + (byte1 % 128) * 128 + (byte2 % 128)

\* A message is a sequence of characters, each [bytes, code].
Narrow(byte) == [bytes |-> <<byte>>, code |-> byte]
Wide(byte1, byte2) ==
    LET code == Table[IndexOf(byte1, byte2)]
    IN  [bytes |-> <<byte1, byte2>>,
         code  |-> IF code = 0 \/ byte2 \in {127, 255} THEN Query ELSE code]

\* The characters gbk_to_index finds: not those with a second byte of 01xxxxxx.
Found(character) == character.bytes[Len(character.bytes)] > 127 \/ Len(character.bytes) = 1

Code(text, i) ==
    CASE text[i] < 128          -> text[i]
      [] text[i] \in 192..223 -> (text[i] % 32) * 64 + (text[i + 1] % 64)
      [] text[i] > 223          -> (text[i] % 16) * 4096 + ((text[i + 1] % 64) * 64) + (text[i + 2] % 64)

\* The text is whole and ended inside the buffer, even when the message ends within
\* a character; read back as UTF-8 it has as many code points as there are
\* characters, and those among exact are the characters'.
Shown(characters, half, after, exact) ==
    LET bytes == FlattenSeq([i \in DOMAIN characters |-> characters[i].bytes]) \o half
        text  == pr_info_gbk(bytes, after, TRUE)
        end   == SelectInSeq(text, LAMBDA b : b = 0)
        heads == SelectSeq([i \in 1..(end - 1) |-> i], LAMBDA i : text[i] \notin 128..191)
    IN  bytes # <<>> =>
            /\ end # 0 /\ end = gbconv8(bytes, after, 4 * Len(bytes)).len
            /\ Len(heads) = Len(characters) + Len(half)
            /\ \A i \in DOMAIN characters :
                characters[i] \in exact => Code(text, heads[i]) = characters[i].code
            /\ SelectInSeq(pr_info_gbk(bytes, after, FALSE), LAMBDA b : b = 0) = Len(bytes) + 1
=============================================================================
