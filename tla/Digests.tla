------------------------------ MODULE Digests ------------------------------
(* How the digests cut a message into blocks: md5.c and rjv3_hashes/.         *)
(*                                                                            *)
(* A context holds the length so far, a buffer of one block and, in place of  *)
(* the chaining value, the blocks it was computed from.  The compression of a *)
(* block and the encoding of the length are abstracted; which bytes get there,*)
(* in which order, is not.  aligned is whether the C pointer is aligned: only *)
(* then a block is read where it is, without a copy.  What the answer to a     *)
(* challenge is computed from follows: checkV4.c.                             *)
EXTENDS Lists, FiniteSets

CONSTANTS
    Block,      \* bytes in a block: 64
    LengthAt,   \* where the length goes in the last block: 56
    WideAt,     \* the same for Whirlpool, whose length has 256 bits: 32
    Word        \* bytes in a word: 4

ASSUME DigestAssumption ==
    /\ Word \in Nat \ {0} /\ Block \in Nat /\ LengthAt \in Nat /\ WideAt \in Nat
    /\ WideAt <= LengthAt /\ LengthAt < Block
    /\ Block % Word = 0 /\ LengthAt % Word = 0

\* The buffer of a new context is not initialized: -1 stands for what is there.
Init_ctx == [length |-> 0, message |-> [i \in 1..Block |-> -1], hash |-> <<>>]

Zeros(n) == [i \in 1..n |-> 0]

Put(ctx, at, bytes) ==
    [ctx EXCEPT !.message =
        [i \in 1..Block |-> IF i - at \in DOMAIN bytes THEN bytes[i - at] ELSE @[i]]]

process_message(ctx) == [ctx EXCEPT !.hash = Append(@, ctx.message)]

\* The last block, or the last two if index is past at: the rest is filled with
\* zeros and the length.
finish_at(ctx, index, at) ==
    LET roomy == IF index <= at THEN Put(ctx, index, Zeros(LengthAt - index))
                 ELSE Put(process_message(Put(ctx, index, Zeros(Block - index))), 0,
                          Zeros(LengthAt))
    IN  process_message(Put(roomy, LengthAt, <<ctx.length>> \o Zeros(Block - LengthAt - 1))).hash
-----------------------------------------------------------------------------
(* rjmd5.c, rjsha1.c, rjtiger.c and rjwhirlpool.c share their update. *)

whole_blocks(ctx, msg, aligned) ==
    LET block(k) == SubSeq(msg, (k - 1) * Block + 1, k * Block)
        next(c, k) == IF aligned THEN [c EXCEPT !.hash = Append(@, block(k))]
                      ELSE process_message(Put(c, 0, block(k)))
        after[k \in 0..(Len(msg) \div Block)] ==
            IF k = 0 THEN ctx ELSE next(after[k - 1], k)
    IN  after[Len(msg) \div Block]

\* Mutant: a partial block that is just filled waits for the next byte.
rhash_md5_update_late(ctx, msg, aligned) ==
    LET index  == ctx.length % Block
        left   == Block - index
        longer == [ctx EXCEPT !.length = @ + Len(msg)]
        rest   == SubSeq(msg, left + 1, Len(msg))
    IN  IF index = 0
        THEN Put(whole_blocks(longer, msg, aligned), 0,
                 SubSeq(msg, Len(msg) - (Len(msg) % Block) + 1, Len(msg)))
        ELSE IF Len(msg) <= left THEN Put(longer, index, msg)
        ELSE Put(whole_blocks(process_message(Put(longer, index, SubSeq(msg, 1, left))),
                              rest, aligned),
                 0, SubSeq(rest, Len(rest) - (Len(rest) % Block) + 1, Len(rest)))

rhash_md5_update(ctx, msg, aligned) ==
    LET index  == ctx.length % Block
        left   == Block - index
        longer == [ctx EXCEPT !.length = @ + Len(msg)]
        rest   == IF index = 0 THEN msg ELSE SubSeq(msg, left + 1, Len(msg))
        filled == IF index = 0 THEN longer
                  ELSE process_message(Put(longer, index, SubSeq(msg, 1, left)))
    IN  IF index # 0 /\ Len(msg) < left THEN Put(longer, index, msg)
        ELSE Put(whole_blocks(filled, rest, aligned), 0,
                 SubSeq(rest, Len(rest) - (Len(rest) % Block) + 1, Len(rest)))

\* 0x80 and zeros up to the end of its word, then words of zeros.
rhash_md5_final(ctx) ==
    LET index == ctx.length % Block
        fill  == Word - 1 - (index % Word)
    IN  finish_at(Put(ctx, index, <<128>> \o Zeros(fill)), index + 1 + fill, LengthAt)

rhash_sha1_update(ctx, msg, aligned) == rhash_md5_update(ctx, msg, aligned)

rhash_sha1_final(ctx) == rhash_md5_final(ctx)

rhash_tiger_update(ctx, msg, aligned) == rhash_md5_update(ctx, msg, aligned)

rhash_tiger_final(ctx) ==
    LET index == ctx.length % Block
    IN  finish_at(Put(ctx, index, <<1>>), index + 1, LengthAt)

rhash_whirlpool_update(ctx, msg, aligned) == rhash_md5_update(ctx, msg, aligned)

rhash_whirlpool_final(ctx) ==
    LET index == ctx.length % Block
    IN  finish_at(Put(ctx, index, <<128>>), index + 1, WideAt)
-----------------------------------------------------------------------------
(* md5.c and rjripemd128.c fill the buffer first, also when it is empty. *)

MD5Update(ctx, input) ==
    LET index   == ctx.length % Block
        partLen == Block - index
        longer  == [ctx EXCEPT !.length = @ + Len(input)]
        rest    == SubSeq(input, partLen + 1, Len(input))
    IN  IF Len(input) < partLen THEN Put(longer, index, input)
        ELSE Put(whole_blocks(process_message(Put(longer, index, SubSeq(input, 1, partLen))),
                              rest, TRUE),
                 0, SubSeq(rest, Len(rest) - (Len(rest) % Block) + 1, Len(rest)))

\* The padding and the length go through MD5Update like any message.
MD5Final(ctx) ==
    LET index  == ctx.length % Block
        padLen == IF index < LengthAt THEN LengthAt - index ELSE Block + LengthAt - index
        padded == MD5Update(ctx, <<128>> \o Zeros(padLen - 1))
    IN  MD5Update(padded, <<ctx.length>> \o Zeros(Block - LengthAt - 1)).hash

ampheck_ripemd128_update(ctx, data) == MD5Update(ctx, data)

ampheck_ripemd128_finish(ctx) ==
    LET index == ctx.length % Block
    IN  finish_at(Put(ctx, index, <<128>>), index + 1, LengthAt)
-----------------------------------------------------------------------------
(* checkV4.c.  A byte of a digest is named by what it comes from, a byte of    *)
(* the seed by its place; tables are the two constants array and array_1.      *)

Size == [md5 |-> 16, sha1 |-> 20, ripemd128 |-> 16, tiger |-> 24]
Digest(alg, table) == [i \in 1..Size[alg] |-> <<alg, table, i>>]
Seed(i)            == <<"seed", i>>
SeedBytes(from, to) == [i \in 1..(to - from + 1) |-> Seed(from + i - 1)]

\* sprintf with %02x: a negative char has eight digits.
Signed(b)     == IF b > 127 THEN b - 256 ELSE b
Digits(x, n)  == [k \in 1..n |-> x]
digest_text(bytes) == FlattenSeq([i \in DOMAIN bytes |-> Digits(bytes[i], 2)])
seed_text(s, places) ==
    FlattenSeq([k \in DOMAIN places |->
                    Digits(Seed(places[k]), IF Signed(s[places[k]]) < 0 THEN 8 ELSE 2)])

\* % 5u takes a negative sum modulo 2^32, which is 1 more modulo 5.
v4_check_type(s) ==
    LET sum == Signed(s[1]) + Signed(s[4])
    IN  IF sum < 0 THEN (sum + 1) % 5 ELSE sum % 5

\* What is written to wtmp, and how much of it is hashed.
wtmp(s) ==
    CASE v4_check_type(s) = 0 ->
            digest_text(Digest("md5", "array")) \o seed_text(s, [k \in 1..8 |-> 2 * k - 1])
                \o digest_text(Digest("md5", "array_1")) \o seed_text(s, [k \in 1..8 |-> 2 * k])
      [] v4_check_type(s) = 1 ->
            Digest("sha1", "array_1") \o SeedBytes(1, 6) \o Digest("sha1", "array") \o SeedBytes(7, 16)
      [] v4_check_type(s) = 2 ->
            Digest("sha1", "array_1") \o SeedBytes(1, 6) \o Digest("ripemd128", "array") \o SeedBytes(7, 16)
      [] v4_check_type(s) = 3 ->
            Digest("tiger", "array") \o SeedBytes(1, 10) \o Digest("ripemd128", "array_1") \o SeedBytes(11, 16)
      [] v4_check_type(s) = 4 ->
            Digest("tiger", "array_1") \o SeedBytes(1, 8) \o Digest("sha1", "array") \o SeedBytes(9, 16)

\* The text whose Whirlpool digest is the check value.
computeV4(s) == IF v4_check_type(s) = 0 THEN SubSeq(wtmp(s), 1, 96) ELSE wtmp(s)

\* The bytes of the MD5 digest, each with the byte it is combined with; a byte of
\* tmp that no one wrote is -1.
computePwd(md5, username, password) ==
    LET hashed  == username \o md5
        cleared == [i \in 1..40 |-> CASE i <= 16 -> 0
                                      [] i \in 17..Len(hashed) -> hashed[i]
                                      [] OTHER -> -1]
        tmp     == [i \in 1..40 |-> CASE i <= Len(password) -> password[i]
                                      [] i = Len(password) + 1 -> 0
                                      [] OTHER -> cleared[i]]
    IN  [i \in 1..16 |-> <<<<"md5", hashed, i>>, tmp[i]>>]
-----------------------------------------------------------------------------
Algorithms == {"md5", "rjmd5", "sha1", "ripemd128", "tiger", "whirlpool"}

Update(alg, ctx, msg, aligned) ==
    CASE alg = "md5"       -> MD5Update(ctx, msg)
      [] alg = "rjmd5"     -> rhash_md5_update(ctx, msg, aligned)
      [] alg = "sha1"      -> rhash_sha1_update(ctx, msg, aligned)
      [] alg = "ripemd128" -> ampheck_ripemd128_update(ctx, msg)
      [] alg = "tiger"     -> rhash_tiger_update(ctx, msg, aligned)
      [] alg = "whirlpool" -> rhash_whirlpool_update(ctx, msg, aligned)

Final(alg, ctx) ==
    CASE alg = "md5"       -> MD5Final(ctx)
      [] alg = "rjmd5"     -> rhash_md5_final(ctx)
      [] alg = "sha1"      -> rhash_sha1_final(ctx)
      [] alg = "ripemd128" -> ampheck_ripemd128_finish(ctx)
      [] alg = "tiger"     -> rhash_tiger_final(ctx)
      [] alg = "whirlpool" -> rhash_whirlpool_final(ctx)

\* Reference: the blocks of the padded message.
Blocks(alg, msg) ==
    LET at     == IF alg = "whirlpool" THEN WideAt ELSE LengthAt
        mark   == IF alg = "tiger" THEN <<1>> ELSE <<128>>
        zeros  == ((at - Len(msg) - 1) % Block) + (LengthAt - at)
        padded == msg \o mark \o Zeros(zeros) \o <<Len(msg)>> \o Zeros(Block - LengthAt - 1)
    IN  [k \in 1..(Len(padded) \div Block) |-> SubSeq(padded, (k - 1) * Block + 1, k * Block)]

\* The digest of a message does not depend on the two chunks it comes in, where
\* they lie in memory, or what the buffer held before.
DigestOf(alg, msg, cut, aligned) ==
    Final(alg, Update(alg, Update(alg, Init_ctx, SubSeq(msg, 1, cut), aligned),
                      SubSeq(msg, cut + 1, Len(msg)), aligned)) = Blocks(alg, msg)

\* Every byte of the seed is hashed, once and in order (in type 0 if none is negative),
\* and no byte that was not written is; what is written, with a NUL, fits the 160
\* bytes of wtmp (in type 0 if at most ten bytes of the seed are negative).
V4Holds(s) ==
    LET text == computeV4(s)
        seed == Select(text, {b \in ToSet(text) : b[1] = "seed"})
        wide == Cardinality({i \in 1..16 : s[i] > 127})
    IN  IF v4_check_type(s) = 0
        THEN /\ Len(text) = 96
             /\ wide = 0 => ToSet(seed) = {Seed(i) : i \in 1..16}
             /\ wide <= 10 => Len(wtmp(s)) + 1 <= 160
        ELSE seed = SeedBytes(1, 16) /\ Len(text) <= 160

\* The password is combined with the digest of what identifies this challenge: a
\* shorter one is filled up with zeros, not with the user's name.
PwdHolds(md5, username, password) ==
    computePwd(md5, username, password)
        = [i \in 1..16 |-> <<<<"md5", username \o md5, i>>,
                             IF i <= Len(password) THEN password[i] ELSE 0>>]
=============================================================================
