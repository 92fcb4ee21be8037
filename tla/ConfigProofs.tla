---------------------------- MODULE ConfigProofs ----------------------------
(* What Config promises of the configuration and of the files, for any paths,  *)
(* files, command lines, plugins and drivers, and any number of runs.  The     *)
(* lemmas are about the operators of Options and RjOptions, an option at a     *)
(* time; Course says of each step of a run what it has read by then.           *)
EXTENDS Config, WellFoundedInduction, SequenceTheorems, TLAPS

-----------------------------------------------------------------------------
(* Induction along a list, and what Select and FoldLeft do with one element
   more of it. *)

\* A set of numbers has a least one.
LEMMA Least ==
    ASSUME NEW S \in SUBSET Nat, S # {}
    PROVE  \E n \in S : \A j \in S : n <= j
<1>1. PICK n \in S : \A j \in S : ~(<<j, n>> \in OpToRel(<, Nat))
  BY NatLessThanWellFounded, WFMin
<1>2. ASSUME NEW j \in S PROVE n <= j
  <2>1. OpToRel(<, Nat) = {ss \in Nat \X Nat : ss[1] < ss[2]}
    BY DEF OpToRel
  <2>2. <<j, n>> \notin {ss \in Nat \X Nat : ss[1] < ss[2]}
    BY <1>1, <2>1
  <2>3. j \in Nat /\ n \in Nat
    OBVIOUS
  <2>4. <<j, n>> \in Nat \X Nat
    BY <2>3
  <2>5. ~(<<j, n>>[1] < <<j, n>>[2])
    BY <2>2, <2>4
  <2> QED BY <2>3, <2>5
<1> QED BY <1>2

\* Induction up to a number, for a set.
LEMMA Induct ==
    ASSUME NEW n \in Nat, NEW S, 0 \in S,
           \A i \in 1..n : i - 1 \in S => i \in S
    PROVE  \A i \in 0..n : i \in S
<1> SUFFICES ASSUME NEW k \in 0..n, k \notin S PROVE FALSE
  OBVIOUS
<1> DEFINE rest == {j \in 0..n : j \notin S}
<1>1. PICK m \in rest : \A j \in rest : m <= j
  <2>1. rest \in SUBSET Nat /\ k \in rest
    OBVIOUS
  <2> HIDE DEF rest
  <2> QED BY <2>1, Least
<1>2. m \in 1..n /\ m - 1 \in 0..n /\ m - 1 < m
  BY <1>1
<1> QED BY <1>1, <1>2

\* A list up to a place is the list up to the place before, and its element.
LEMMA Prefix ==
    ASSUME NEW T, NEW s \in Seq(T), NEW i \in 1..Len(s)
    PROVE  /\ SubSeq(s, 1, i - 1) \in Seq(T) /\ s[i] \in T
           /\ SubSeq(s, 1, i) = Append(SubSeq(s, 1, i - 1), s[i])
<1>1. 1 \in 1..Len(s) /\ i - 1 \in Int /\ 1 \in Int /\ s[i] \in T
  OBVIOUS
<1>2. SubSeq(s, 1, i - 1) \in Seq(T)
  <2>1. \A j \in 1..(i - 1) : s[j] \in T
    OBVIOUS
  <2> QED BY <1>1, <2>1, SubSeqProperties
<1>3. SubSeq(s, 1, i) = SubSeq(s, 1, i - 1) \o <<s[i]>>
  BY <1>1, SubSeqRecursiveSecond
<1> DEFINE r == SubSeq(s, 1, i - 1)
           e == s[i]
<1>4. r \in Seq(T) /\ e \in T
  BY <1>1, <1>2
<1> HIDE DEF r, e
<1>5. Append(r, e) = r \o <<e>>
  BY <1>4, AppendIsConcat
<1> QED BY <1>1, <1>2, <1>3, <1>5 DEF r, e

\* Every list is in a set that has the empty list and is closed under Append.
LEMMA ListInduct ==
    ASSUME NEW T, NEW K, <<>> \in K,
           \A s \in Seq(T), e \in T : s \in K => Append(s, e) \in K
    PROVE  \A s \in Seq(T) : s \in K
<1> SUFFICES ASSUME NEW s \in Seq(T) PROVE s \in K
  OBVIOUS
<1> DEFINE n == Len(s)
           I == {i \in 0..n : SubSeq(s, 1, i) \in K}
<1>1. n \in Nat
  OBVIOUS
<1>2. 0 \in I
  <2>1. SubSeq(s, 1, 0) = <<>>
    BY SubSeqEmpty
  <2>2. SubSeq(s, 1, 0) \in K
    BY <2>1
  <2>3. 0 \in 0..n
    BY <1>1
  <2> QED BY <2>2, <2>3
<1>3. ASSUME NEW i \in 1..n, i - 1 \in I PROVE i \in I
  <2>1. SubSeq(s, 1, i - 1) \in K
    BY <1>3
  <2>2. /\ SubSeq(s, 1, i - 1) \in Seq(T) /\ s[i] \in T
        /\ SubSeq(s, 1, i) = Append(SubSeq(s, 1, i - 1), s[i])
    BY Prefix
  <2>3. SubSeq(s, 1, i) \in K
    BY <2>1, <2>2
  <2> QED BY <2>3
<1>4. n \in I
  <2>1. \A i \in 1..n : i - 1 \in I => i \in I
    BY <1>3
  <2> HIDE DEF I, n
  <2>2. n \in 0..n
    BY <1>1
  <2> QED BY <1>1, <1>2, <2>1, <2>2, Induct
<1>5. SubSeq(s, 1, Len(s)) \in K
  BY <1>4
<1> QED BY <1>5, SubSeqFull

\* Max takes the greatest.
LEMMA MaxOf ==
    ASSUME NEW n \in Nat, NEW S \in SUBSET (1..n), S # {}
    PROVE  Max(S) \in S /\ \A j \in S : j <= Max(S)
<1> DEFINE rest == {n - j : j \in S}
<1>1. PICK k \in S : TRUE
  OBVIOUS
<1>2. n - k \in rest /\ \A j \in S : j \in Int /\ n - j \in Nat
  OBVIOUS
<1>3. rest \in SUBSET Nat
  BY <1>2
<1>4. PICK r \in rest : \A j \in rest : r <= j
  <2> HIDE DEF rest
  <2> QED BY <1>2, <1>3, Least
<1>5. PICK m \in S : r = n - m
  BY <1>4
<1>6. ASSUME NEW j \in S PROVE m >= j
  <2>1. n - j \in rest
    OBVIOUS
  <2>2. n - m <= n - j
    BY <1>4, <1>5, <2>1
  <2> QED BY <1>2, <2>2
<1>7. \E x \in S : \A y \in S : x >= y
  BY <1>6
<1>8. Max(S) \in S /\ \A y \in S : Max(S) >= y
  BY <1>7 DEF Max
<1>9. \A y \in S : y \in Int
  BY <1>2
<1> QED BY <1>8, <1>9
-----------------------------------------------------------------------------
\* A step F is a function on pairs.  Taken along a list:
Step(F, T, U) == F \in [T \X U -> T]
Chain(F, T, a, list, g) ==
    /\ g \in [0..Len(list) -> T] /\ g[0] = a
    /\ \A i \in 1..Len(list) : g[i] = F[<<g[i - 1], list[i]>>]

Along(F, T, a, list) == (CHOOSE g : Chain(F, T, a, list, g))[Len(list)]

\* The values along a list are unique.
LEMMA OneChain ==
    ASSUME NEW U, NEW list \in Seq(U), NEW T, NEW F, NEW a, NEW g, NEW h,
           Chain(F, T, a, list, g), Chain(F, T, a, list, h)
    PROVE  g = h
<1> DEFINE n == Len(list)
           K == {i \in 0..n : g[i] = h[i]}
<1>0. n \in Nat
  OBVIOUS
<1>1. 0 \in K
  BY <1>0 DEF Chain
<1>2. ASSUME NEW i \in 1..n, i - 1 \in K PROVE i \in K
  <2>1. g[i - 1] = h[i - 1] /\ i \in 0..n
    BY <1>0, <1>2
  <2>2. g[i] = F[<<g[i - 1], list[i]>>] /\ h[i] = F[<<h[i - 1], list[i]>>]
    BY DEF Chain
  <2>3. g[i] = h[i]
    BY <2>1, <2>2
  <2> QED BY <2>1, <2>3
<1>3. \A i \in 0..n : i \in K
  <2>1. \A i \in 1..n : i - 1 \in K => i \in K
    BY <1>2
  <2> HIDE DEF K, n
  <2> QED BY <1>0, <1>1, <2>1, Induct
<1>4. \A i \in 0..n : g[i] = h[i]
  BY <1>3
<1>5. g \in [0..n -> T] /\ h \in [0..n -> T]
  BY DEF Chain
<1> HIDE DEF n, K
<1>6. g = [i \in 0..n |-> g[i]] /\ h = [i \in 0..n |-> h[i]]
  BY <1>5
<1> QED BY <1>4, <1>6

\* They go on with one element more.
LEMMA ChainExtends ==
    ASSUME NEW U, NEW list \in Seq(U), NEW e \in U, NEW T, NEW F, Step(F, T, U), NEW a \in T,
           NEW g, Chain(F, T, a, list, g), NEW l, l = Append(list, e)
    PROVE  \E h : Chain(F, T, a, l, h)
<1> DEFINE n == Len(list)
           h == [i \in 0..(n + 1) |-> IF i <= n THEN g[i] ELSE F[<<g[n], e>>]]
<1>1. /\ n \in Nat /\ Len(l) = n + 1 /\ l[n + 1] = e
      /\ \A i \in 1..n : l[i] = list[i]
  OBVIOUS
<1>2. /\ g \in [0..n -> T] /\ g[0] = a
      /\ \A i \in 1..n : g[i] = F[<<g[i - 1], list[i]>>]
  BY DEF Chain
<1> HIDE DEF n
<1>3. g[n] \in T /\ F[<<g[n], e>>] \in T
  BY <1>1, <1>2 DEF Step
<1>4. \A i \in 0..n : h[i] = g[i] /\ h[i] \in T
  BY <1>1, <1>2
<1>5. h[n + 1] = F[<<g[n], e>>]
  BY <1>1
<1>6. h \in [0..(n + 1) -> T]
  BY <1>1, <1>2, <1>3
<1> HIDE DEF h
<1>7. ASSUME NEW i \in 1..(n + 1) PROVE h[i] = F[<<h[i - 1], l[i]>>]
  <2>1. CASE i = n + 1
    <3>1. i - 1 = n /\ n \in 0..n
      BY <1>1, <2>1
    <3>2. h[n] = g[n]
      BY <1>4, <3>1
    <3> QED BY <1>1, <1>5, <2>1, <3>1, <3>2
  <2>2. CASE i # n + 1
    <3>1. i \in 1..n /\ i - 1 \in 0..n /\ i \in 0..n
      BY <1>1, <2>2
    <3>2. h[i] = g[i] /\ h[i - 1] = g[i - 1] /\ l[i] = list[i]
      BY <1>1, <1>4, <3>1
    <3>3. g[i] = F[<<g[i - 1], list[i]>>]
      BY <1>2, <3>1
    <3> QED BY <3>2, <3>3
  <2> QED BY <2>1, <2>2
<1>8. h[0] = a
  BY <1>1, <1>2, <1>4
<1>9. Chain(F, T, a, l, h)
  BY <1>1, <1>6, <1>7, <1>8 DEF Chain
<1> QED BY <1>1, <1>5, <1>9 DEF n

\* They exist for every list.
LEMMA ChainExists ==
    ASSUME NEW U, NEW T, NEW F, Step(F, T, U), NEW a \in T, NEW list \in Seq(U)
    PROVE  \E g : Chain(F, T, a, list, g)
<1> DEFINE K == {s \in Seq(U) : \E g : Chain(F, T, a, s, g)}
<1>1. <<>> \in K
  <2> DEFINE g == [i \in 0..0 |-> a]
  <2>1. Len(<<>>) = 0 /\ <<>> \in Seq(U)
    OBVIOUS
  <2>2. g \in [0..0 -> T] /\ g[0] = a
    OBVIOUS
  <2> HIDE DEF g
  <2>3. Chain(F, T, a, <<>>, g)
    BY <2>1, <2>2 DEF Chain
  <2> QED BY <2>1, <2>3
<1>2. ASSUME NEW s \in Seq(U), NEW e \in U, s \in K PROVE Append(s, e) \in K
  <2>1. PICK g : Chain(F, T, a, s, g)
    BY <1>2
  <2> DEFINE l == Append(s, e)
  <2>2. l \in Seq(U)
    OBVIOUS
  <2>3. l = Append(s, e)
    OBVIOUS
  <2> HIDE DEF l
  <2>4. \E h : Chain(F, T, a, l, h)
    BY <2>1, <2>3, ChainExtends
  <2> QED BY <2>2, <2>3, <2>4
<1>3. \A s \in Seq(U) : s \in K
  <2>1. \A s \in Seq(U), e \in U : s \in K => Append(s, e) \in K
    BY <1>2
  <2> HIDE DEF K
  <2> QED BY <1>1, <2>1, ListInduct
<1> QED BY <1>3

\* Along is the last of them, whichever way they are given.
LEMMA AlongIs ==
    ASSUME NEW U, NEW T, NEW F, NEW a, NEW list \in Seq(U),
           NEW g, Chain(F, T, a, list, g)
    PROVE  Along(F, T, a, list) = g[Len(list)]
<1> DEFINE h == CHOOSE h : Chain(F, T, a, list, h)
<1>1. Chain(F, T, a, list, h)
  OBVIOUS
<1>2. Along(F, T, a, list) = h[Len(list)]
  BY DEF Along
<1> HIDE DEF h
<1>3. g = h
  BY <1>1, OneChain
<1> QED BY <1>2, <1>3

\* The empty list and Append, as the provers match them.
Nil == <<>>
Add(list, e) == Append(list, e)
At(F, x, y) == F[<<x, y>>]

\* Nothing is done along the empty list.
LEMMA AlongEmpty ==
    ASSUME NEW U, NEW T, NEW F, Step(F, T, U), NEW a \in T
    PROVE  Along(F, T, a, Nil) = a
<1> DEFINE l == <<>>
<1>0. Len(l) = 0
  OBVIOUS
<1>1. l \in Seq(U)
  OBVIOUS
<1> HIDE DEF l
<1>2. PICK g : Chain(F, T, a, l, g)
  BY <1>1, ChainExists
<1>3. g[0] = a
  BY <1>0, <1>2 DEF Chain
<1>4. Along(F, T, a, l) = g[Len(l)]
  BY <1>1, <1>2, AlongIs
<1> QED BY <1>0, <1>3, <1>4 DEF l, Nil

\* One step is done for one element more.
LEMMA AlongAppend ==
    ASSUME NEW U, NEW T, NEW F, Step(F, T, U), NEW a \in T, NEW list \in Seq(U), NEW e \in U
    PROVE  Along(F, T, a, Add(list, e)) = At(F, Along(F, T, a, list), e)
<1> DEFINE n == Len(list)
           l == Append(list, e)
<1>1. l \in Seq(U)
  OBVIOUS
<1>2. n \in Nat /\ Len(l) = n + 1 /\ l[n + 1] = e /\ \A i \in 1..n : l[i] = list[i]
  OBVIOUS
<1> HIDE DEF l
<1>3. PICK h : Chain(F, T, a, l, h)
  BY <1>1, ChainExists
<1> DEFINE g == [i \in 0..n |-> h[i]]
<1>4. Chain(F, T, a, list, g)
  <2>1. h[0] = a /\ \A i \in 0..(n + 1) : h[i] \in T
    BY <1>2, <1>3 DEF Chain
  <2>2. \A i \in 1..n : h[i] = F[<<h[i - 1], list[i]>>]
    <3> SUFFICES ASSUME NEW i \in 1..n PROVE h[i] = F[<<h[i - 1], list[i]>>]
      OBVIOUS
    <3>1. i \in 1..Len(l) /\ l[i] = list[i]
      BY <1>2
    <3> QED BY <1>3, <3>1 DEF Chain
  <2>3. g \in [0..n -> T] /\ g[0] = a
    BY <1>2, <2>1
  <2>4. ASSUME NEW i \in 1..n PROVE g[i] = F[<<g[i - 1], list[i]>>]
    <3>1. g[i] = h[i] /\ g[i - 1] = h[i - 1]
      BY <1>2
    <3> HIDE DEF g
    <3> QED BY <2>2, <3>1
  <2> HIDE DEF g
  <2> QED BY <2>3, <2>4 DEF Chain
<1>5. g[n] = h[n]
  BY <1>2
<1> HIDE DEF g
<1>6. Along(F, T, a, list) = g[Len(list)]
  BY <1>4, AlongIs
<1>7. Along(F, T, a, l) = h[Len(l)]
  BY <1>1, <1>3, AlongIs
<1>8. h[n + 1] = F[<<h[n], e>>]
  <2>1. n + 1 \in 1..Len(l) /\ (n + 1) - 1 = n
    BY <1>2
  <2> QED BY <1>2, <1>3, <2>1 DEF Chain
<1> QED BY <1>2, <1>5, <1>6, <1>7, <1>8 DEF l, Add, At

\* What the step keeps is kept along a list.
LEMMA AlongType ==
    ASSUME NEW U, NEW T, NEW F, Step(F, T, U), NEW a \in T, NEW list \in Seq(U)
    PROVE  Along(F, T, a, list) \in T
<1>1. PICK g : Chain(F, T, a, list, g)
  BY ChainExists
<1>2. g[Len(list)] \in T
  BY <1>1 DEF Chain
<1> QED BY <1>1, <1>2, AlongIs
\* The three of them, in the form that the other lemmas cite.
LEMMA AlongRules ==
    ASSUME NEW U, NEW T, NEW F, Step(F, T, U), NEW a \in T
    PROVE  /\ Along(F, T, a, Nil) = a
           /\ \A list \in Seq(U) : Along(F, T, a, list) \in T
           /\ \A list \in Seq(U), e \in U : Along(F, T, a, Add(list, e)) = At(F, Along(F, T, a, list), e)
           /\ Nil \in Seq(U) /\ \A list \in Seq(U), e \in U : Add(list, e) \in Seq(U)
<1>1. Along(F, T, a, Nil) = a
  BY AlongEmpty
<1>2. ASSUME NEW list \in Seq(U) PROVE Along(F, T, a, list) \in T
  BY AlongType
<1>3. ASSUME NEW list \in Seq(U), NEW e \in U
      PROVE  Along(F, T, a, Add(list, e)) = At(F, Along(F, T, a, list), e)
  BY AlongAppend
<1>4. Nil \in Seq(U) /\ \A list \in Seq(U), e \in U : Add(list, e) \in Seq(U)
  BY DEF Nil, Add
<1> QED BY <1>1, <1>2, <1>3, <1>4

-----------------------------------------------------------------------------
Places(seq) == 1..Len(seq)

\* FoldLeft takes the greatest member off a set of places.
Folds(F, T, a, seq, w) ==
    /\ w[{}] = a
    /\ \A s \in SUBSET Places(seq) : s # {} /\ w[s \ {Max(s)}] \in T =>
            w[s] = F[<<w[s \ {Max(s)}], seq[Max(s)]>>]

FoldsIn(F, T, a, seq, w) == w \in [SUBSET Places(seq) -> T] /\ Folds(F, T, a, seq, w)

\* A function on sets of places is as FoldLeft defines its own.
LEMMA FoldExists ==
    ASSUME NEW T, NEW U, NEW F, Step(F, T, U), NEW a \in T, NEW seq \in Seq(U)
    PROVE  \E w : FoldsIn(F, T, a, seq, w)
<1> DEFINE n == Len(seq)
           places == [i \in 1..n |-> i]
           G(s) == [p \in T \X (1..n) |-> IF p[2] \in s THEN F[<<p[1], seq[p[2]]>>] ELSE p[1]]
           g(s) == CHOOSE h : Chain(G(s), T, a, places, h)
           w == [s \in SUBSET (1..n) |-> g(s)[n]]
<1>1. n \in Nat /\ \A i \in 1..n : seq[i] \in U
  OBVIOUS
<1>2. places \in Seq(1..n) /\ Len(places) = n /\ \A i \in 1..n : places[i] = i
  BY <1>1
<1> HIDE DEF n, places
<1>3. ASSUME NEW s PROVE Step(G(s), T, 1..n)
  BY <1>1 DEF Step
<1>4. ASSUME NEW s, NEW p \in T, NEW i \in 1..n
      PROVE  G(s)[<<p, i>>] = IF i \in s THEN F[<<p, seq[i]>>] ELSE p
  OBVIOUS
<1> HIDE DEF G
<1>5. ASSUME NEW s PROVE Chain(G(s), T, a, places, g(s))
  <2> DEFINE H == G(s)
  <2>1. Step(H, T, 1..n)
    BY <1>3
  <2> HIDE DEF H
  <2>2. \E h : Chain(H, T, a, places, h)
    BY <1>2, <2>1, ChainExists
  <2>3. Chain(H, T, a, places, CHOOSE h : Chain(H, T, a, places, h))
    BY <2>2
  <2> QED BY <2>3 DEF H
<1> HIDE DEF g
<1>6. ASSUME NEW s
      PROVE  /\ g(s)[0] = a /\ \A i \in 0..n : g(s)[i] \in T
             /\ \A i \in 1..n : g(s)[i] = IF i \in s THEN F[<<g(s)[i - 1], seq[i]>>] ELSE g(s)[i - 1]
  <2> DEFINE H == G(s)
             h == g(s)
  <2>1. Chain(H, T, a, places, h)
    BY <1>5
  <2>2. \A p \in T, i \in 1..n : H[<<p, i>>] = IF i \in s THEN F[<<p, seq[i]>>] ELSE p
    BY <1>4
  <2> HIDE DEF H, h
  <2>3. h \in [0..n -> T] /\ h[0] = a /\ \A i \in 1..n : h[i] = H[<<h[i - 1], places[i]>>]
    BY <1>2, <2>1 DEF Chain
  <2>4. ASSUME NEW i \in 1..n PROVE h[i] = IF i \in s THEN F[<<h[i - 1], seq[i]>>] ELSE h[i - 1]
    <3>1. h[i - 1] \in T /\ h[i] = H[<<h[i - 1], i>>]
      BY <1>1, <1>2, <2>3
    <3> QED BY <2>2, <3>1
  <2>5. \A i \in 0..n : h[i] \in T
    BY <2>3
  <2> QED BY <2>3, <2>4, <2>5 DEF h
<1>7. w \in [SUBSET (1..n) -> T]
  <2>1. \A s \in SUBSET (1..n) : g(s)[n] \in T
    BY <1>1, <1>6
  <2> QED BY <2>1
<1>8. w[{}] = a
  <2> DEFINE K == {i \in 0..n : g({})[i] = a}
  <2>0. /\ g({})[0] = a
        /\ \A i \in 1..n : g({})[i] = g({})[i - 1]
    BY <1>6
  <2>1. 0 \in K /\ \A i \in 1..n : i - 1 \in K => i \in K
    BY <1>1, <2>0
  <2>2. \A i \in 0..n : i \in K
    <3> HIDE DEF K
    <3> QED BY <1>1, <2>1, Induct
  <2>3. g({})[n] = a
    BY <1>1, <2>2
  <2> QED BY <2>3
<1>9. ASSUME NEW s \in SUBSET (1..n), s # {}
      PROVE  w[s] = F[<<w[s \ {Max(s)}], seq[Max(s)]>>]
  <2> DEFINE m == Max(s)
             r == s \ {m}
             K == {i \in 0..n : IF i < m THEN g(s)[i] = g(r)[i] ELSE g(s)[i] = F[<<g(r)[i], seq[m]>>]}
  <2>1. m \in s /\ m \in 1..n /\ \A j \in s : j <= m
    BY <1>1, <1>9, MaxOf
  <2> HIDE DEF m
  <2>2. r \in SUBSET (1..n) /\ m \notin r /\ \A j \in r : j < m /\ j \in s
    BY <1>1, <2>1
  <2>3. 0 \in K
    BY <1>1, <1>6, <2>1
  <2>4. ASSUME NEW i \in 1..n, i - 1 \in K PROVE i \in K
    <3>1. /\ g(s)[i] = IF i \in s THEN F[<<g(s)[i - 1], seq[i]>>] ELSE g(s)[i - 1]
          /\ g(r)[i] = IF i \in r THEN F[<<g(r)[i - 1], seq[i]>>] ELSE g(r)[i - 1]
      BY <1>6
    <3>2. IF i - 1 < m THEN g(s)[i - 1] = g(r)[i - 1] ELSE g(s)[i - 1] = F[<<g(r)[i - 1], seq[m]>>]
      BY <2>4
    <3>3. CASE i < m
      <4>1. i - 1 < m /\ (i \in r <=> i \in s)
        BY <1>1, <2>1, <3>3
      <4>2. g(s)[i - 1] = g(r)[i - 1]
        BY <3>2, <4>1
      <4>3. g(s)[i] = g(r)[i]
        BY <3>1, <4>1, <4>2
      <4>4. i \in 0..n
        BY <1>1
      <4> QED BY <3>3, <4>3, <4>4
    <3>4. CASE i = m
      <4>1. i - 1 < m /\ i \in s /\ i \notin r /\ ~(i < m)
        BY <1>1, <2>1, <2>2, <3>4
      <4>2. g(s)[i] = F[<<g(s)[i - 1], seq[m]>>] /\ g(r)[i] = g(r)[i - 1] /\ g(s)[i - 1] = g(r)[i - 1]
        BY <3>1, <3>2, <3>4, <4>1
      <4>3. g(s)[i] = F[<<g(r)[i], seq[m]>>]
        BY <4>2
      <4>4. i \in 0..n
        BY <1>1
      <4> QED BY <4>1, <4>3, <4>4
    <3>5. CASE i > m
      <4>1. ~(i - 1 < m) /\ i \notin s /\ i \notin r /\ ~(i < m)
        BY <1>1, <2>1, <2>2, <3>5
      <4>2. g(s)[i] = g(s)[i - 1] /\ g(r)[i] = g(r)[i - 1] /\ g(s)[i - 1] = F[<<g(r)[i - 1], seq[m]>>]
        BY <3>1, <3>2, <4>1
      <4>3. g(s)[i] = F[<<g(r)[i], seq[m]>>]
        BY <4>2
      <4>4. i \in 0..n
        BY <1>1
      <4> QED BY <4>1, <4>3, <4>4
    <3> QED BY <1>1, <2>1, <3>3, <3>4, <3>5
  <2>5. n \in K
    <3>1. \A i \in 1..n : i - 1 \in K => i \in K
      BY <2>4
    <3> HIDE DEF K
    <3>2. n \in 0..n
      BY <1>1
    <3> QED BY <1>1, <2>3, <3>1, <3>2, Induct
  <2>6. ~(n < m)
    BY <1>1, <2>1
  <2>7. g(s)[n] = F[<<g(r)[n], seq[m]>>]
    BY <2>5, <2>6
  <2>8. w[s] = g(s)[n] /\ w[r] = g(r)[n]
    BY <2>2
  <2> HIDE DEF w, r
  <2>9. w[s] = F[<<w[r], seq[m]>>]
    BY <2>7, <2>8
  <2> QED BY <2>9 DEF r, m
<1> HIDE DEF w
<1>10. FoldsIn(F, T, a, seq, w)
  BY <1>7, <1>8, <1>9 DEF n, Places, Folds, FoldsIn
<1> QED BY <1>10

\* Any such function has the value along the list.
LEMMA FoldAlong ==
    ASSUME NEW T, NEW U, NEW F, Step(F, T, U), NEW a \in T, NEW seq \in Seq(U),
           NEW w, Folds(F, T, a, seq, w)
    PROVE  w[Places(seq)] = Along(F, T, a, seq)
<1> DEFINE n == Len(seq)
           g == [i \in 0..n |-> w[1..i]]
           K == {i \in 0..n : g[i] \in T}
<1>1. n \in Nat
  OBVIOUS
<1>2. ASSUME NEW i \in 1..n, g[i - 1] \in T PROVE g[i] = F[<<g[i - 1], seq[i]>>]
  <2> DEFINE s == 1..i
  <2>1. s \in SUBSET (1..n) /\ s # {} /\ i \in s
    <3>1. n \in Int /\ i \in Int /\ 1 <= i /\ i <= n
      BY <1>1
    <3> HIDE DEF n
    <3>2. \A j \in 1..i : j \in 1..n
      BY <3>1
    <3>3. i \in 1..i
      BY <3>1
    <3> QED BY <3>2, <3>3
  <2>2. Max(s) = i
    <3>1. \A j \in s : j <= i
      OBVIOUS
    <3>2. s \in SUBSET (1..n) /\ s \in SUBSET Int
      BY <2>1
    <3> HIDE DEF s
    <3>3. Max(s) \in s /\ \A j \in s : j <= Max(s)
      BY <1>1, <2>1, MaxOf
    <3>4. i <= Max(s) /\ Max(s) <= i /\ i \in Int /\ Max(s) \in Int
      BY <2>1, <3>1, <3>2, <3>3
    <3> QED BY <3>4
  <2>3. s \ {i} = 1..(i - 1)
    OBVIOUS
  <2> HIDE DEF s
  <2>4. w[s \ {i}] \in T => w[s] = F[<<w[s \ {i}], seq[i]>>]
    <3>1. s # {} /\ s \in SUBSET (1..Len(seq))
      BY <2>1
    <3>2. w[s \ {Max(s)}] \in T => w[s] = F[<<w[s \ {Max(s)}], seq[Max(s)]>>]
      BY <3>1 DEF Folds, Places
    <3> QED BY <2>2, <3>2
  <2>5. g[i] = w[s] /\ g[i - 1] = w[1..(i - 1)]
    BY <1>1 DEF s
  <2> QED BY <1>2, <2>3, <2>4, <2>5
<1>3. g[0] = a
  <2>1. 1..0 = {} /\ w[{}] = a
    BY DEF Folds
  <2> QED BY <1>1, <2>1
<1>4. \A i \in 1..n : seq[i] \in U
  OBVIOUS
<1> HIDE DEF g
<1>5. ASSUME NEW i \in 1..n, i - 1 \in K PROVE i \in K
  <2>1. g[i - 1] \in T
    BY <1>5
  <2>2. g[i] = F[<<g[i - 1], seq[i]>>]
    BY <1>2, <2>1
  <2>3. seq[i] \in U
    BY <1>4
  <2>4. g[i] \in T
    BY <2>1, <2>2, <2>3 DEF Step
  <2>5. i \in 0..n
    BY <1>1
  <2> QED BY <2>4, <2>5
<1>6. \A i \in 0..n : i \in K
  <2>1. 0 \in K
    BY <1>1, <1>3
  <2>2. \A i \in 1..n : i - 1 \in K => i \in K
    BY <1>5
  <2> HIDE DEF K, n
  <2> QED BY <1>1, <2>1, <2>2, Induct
<1>7. \A i \in 0..n : g[i] \in T
  BY <1>6
<1> HIDE DEF n
<1>8. Chain(F, T, a, seq, g)
  <2>1. \A i \in 1..n : g[i] = F[<<g[i - 1], seq[i]>>]
    BY <1>1, <1>2, <1>7
  <2>2. g \in [0..n -> T]
    BY <1>7 DEF g
  <2> QED BY <1>3, <2>1, <2>2 DEF Chain, n
<1>9. Along(F, T, a, seq) = g[Len(seq)]
  <2> HIDE DEF K
  <2>1. seq \in Seq(U)
    OBVIOUS
  <2> QED BY ONLY <1>8, <2>1, AlongIs
<1> QED BY <1>1, <1>9 DEF g, n, Places

\* The places of a list are its domain.
LEMMA ListPlaces ==
    ASSUME NEW U, NEW seq \in Seq(U)
    PROVE  DOMAIN seq = Places(seq)
BY DEF Places

\* The last of some places is one, and so is the rest.
LEMMA LastPlace ==
    ASSUME NEW U, NEW seq \in Seq(U), NEW s \in SUBSET Places(seq), s # {}
    PROVE  seq[Max(s)] \in U /\ s \ {Max(s)} \in SUBSET Places(seq)
<1>1. Len(seq) \in Nat
  OBVIOUS
<1>2. Max(s) \in s
  BY <1>1, MaxOf DEF Places
<1>3. \A i \in Places(seq) : seq[i] \in U
  BY DEF Places
<1> QED BY <1>2, <1>3

-----------------------------------------------------------------------------
\* Select, by the last member of the list.
LEMMA SelectAlong ==
    ASSUME NEW U, NEW S, NEW F, Step(F, Seq(U), U),
           \A p \in Seq(U), e \in U : At(F, p, e) = IF e \in S THEN Append(p, e) ELSE p,
           NEW list \in Seq(U)
    PROVE  Select(list, S) = Along(F, Seq(U), <<>>, list)
<1> DEFINE n == Len(list)
           T == Seq(U)
           Is(f) == f = [i \in 0..n |->
                            IF i = 0 THEN <<>>
                            ELSE IF list[i] \in S THEN Append(f[i - 1], list[i]) ELSE f[i - 1]]
           some == CHOOSE f : Is(f)
           K == {i \in 0..n : some[i] \in T}
<1>0. n \in Nat /\ <<>> \in T /\ \A i \in 1..n : list[i] \in U
  OBVIOUS
<1>1. Select(list, S) = some[n]
  BY DEF Select
<1>2. Is(some)
  <2>1. PICK g : Chain(F, T, <<>>, list, g)
    BY <1>0, ChainExists
  <2> HIDE DEF T
  <2>2. g \in [0..n -> T] /\ g[0] = <<>> /\ \A i \in 1..n : g[i] = F[<<g[i - 1], list[i]>>]
    BY <2>1 DEF Chain
  <2> HIDE DEF n
  <2>3. ASSUME NEW i \in 1..n
        PROVE  g[i] = IF list[i] \in S THEN Append(g[i - 1], list[i]) ELSE g[i - 1]
    <3>1. g[i - 1] \in T
      BY <1>0, <2>2
    <3> QED BY <1>0, <2>2, <3>1 DEF T, At
  <2>4. ASSUME NEW i \in 0..n
        PROVE  g[i] = IF i = 0 THEN <<>>
                      ELSE IF list[i] \in S THEN Append(g[i - 1], list[i]) ELSE g[i - 1]
    <3>1. CASE i = 0
      BY <2>2, <3>1
    <3>2. CASE i # 0
      <4>1. i \in 1..n
        BY <1>0, <3>2
      <4> QED BY <2>3, <3>2, <4>1
    <3> QED BY <3>1, <3>2
  <2>5. Is(g)
    BY <2>2, <2>4
  <2> QED BY <2>5
<1> HIDE DEF some
<1>3. some[0] = <<>>
  BY <1>0, <1>2
<1>4. ASSUME NEW i \in 1..n
      PROVE  some[i] = IF list[i] \in S THEN Append(some[i - 1], list[i]) ELSE some[i - 1]
  <2>1. i \in 0..n /\ i # 0
    BY <1>0
  <2> QED BY <1>2, <2>1
<1>5. ASSUME NEW i \in 1..n, i - 1 \in K PROVE i \in K
  <2>1. some[i - 1] \in T /\ i \in 0..n
    BY <1>0, <1>5
  <2>2. some[i] \in T
    <3> DEFINE p == some[i - 1]
    <3>1. p \in T /\ list[i] \in U /\ some[i] = IF list[i] \in S THEN Append(p, list[i]) ELSE p
      BY <1>0, <1>4, <2>1
    <3> HIDE DEF p
    <3> QED BY <3>1
  <2> QED BY <2>1, <2>2
<1>6. \A i \in 0..n : i \in K
  <2>0. some[0] \in T /\ 0 \in 0..n
    BY <1>0, <1>3
  <2>1. 0 \in K
    BY <2>0
  <2>2. \A i \in 1..n : i - 1 \in K => i \in K
    BY <1>5
  <2> HIDE DEF K, n
  <2> QED BY <1>0, <2>1, <2>2, Induct
<1>7. \A i \in 0..n : some[i] \in T
  BY <1>6
<1>8. Chain(F, T, <<>>, list, some)
  <2>1. some \in [0..n -> T]
    BY <1>2, <1>7
  <2>2. ASSUME NEW i \in 1..n PROVE some[i] = F[<<some[i - 1], list[i]>>]
    <3>1. some[i - 1] \in T
      BY <1>0, <1>7
    <3>2. At(F, some[i - 1], list[i]) = some[i]
      BY <1>0, <1>4, <3>1
    <3> QED BY <3>2 DEF At
  <2> HIDE DEF T, n
  <2> QED BY <1>3, <2>1, <2>2 DEF Chain, n
<1>9. Along(F, T, <<>>, list) = some[n]
  <2> HIDE DEF T, K
  <2> QED BY <1>8, AlongIs
<1> QED BY <1>1, <1>9

\* Select with one element more.
LEMMA SelectRules ==
    ASSUME NEW U, NEW S
    PROVE  /\ Select(Nil, S) = Nil
           /\ \A list \in Seq(U) : Select(list, S) \in Seq(U)
           /\ \A list \in Seq(U), e \in U :
                Select(Add(list, e), S) =
                    IF e \in S THEN Add(Select(list, S), e) ELSE Select(list, S)
<1> DEFINE T == Seq(U)
           F == [p \in T \X U |-> IF p[2] \in S THEN Append(p[1], p[2]) ELSE p[1]]
<1>1. Step(F, T, U)
  BY DEF Step
<1>2. \A p \in T, e \in U : At(F, p, e) = IF e \in S THEN Append(p, e) ELSE p
  BY DEF At
<1> HIDE DEF F
<1>3. \A list \in Seq(U) : Select(list, S) = Along(F, T, Nil, list)
  BY <1>1, <1>2, SelectAlong DEF Nil
<1>4. Nil \in T /\ Nil \in Seq(U) /\ \A list \in Seq(U), e \in U : Add(list, e) \in Seq(U)
  BY DEF Nil, Add
<1> HIDE DEF T
<1>5. /\ Along(F, T, Nil, Nil) = Nil
      /\ \A list \in Seq(U) : Along(F, T, Nil, list) \in T
      /\ \A list \in Seq(U), e \in U : Along(F, T, Nil, Add(list, e)) = At(F, Along(F, T, Nil, list), e)
  BY <1>1, <1>4, AlongRules
<1>6. \A list \in Seq(U), e \in U : Select(Add(list, e), S) = At(F, Select(list, S), e)
  BY <1>3, <1>4, <1>5
<1>7. \A list \in Seq(U), e \in U :
        Select(Add(list, e), S) = IF e \in S THEN Append(Select(list, S), e) ELSE Select(list, S)
  BY <1>2, <1>3, <1>5, <1>6
<1> QED BY <1>3, <1>4, <1>5, <1>7 DEF T, Add

-----------------------------------------------------------------------------
(* Texts and numbers *)

\* Min takes the least.
LEMMA MinOf ==
    ASSUME NEW S \in SUBSET Nat, S # {}
    PROVE  Min(S) \in S /\ \A j \in S : Min(S) <= j
<1>1. \E n \in S : \A j \in S : n <= j
  BY Least
<1> QED BY <1>1 DEF Min

\* The first and the last place a test finds is a place of the list, or zero.
LEMMA Found ==
    ASSUME NEW n \in Nat, NEW I \in SUBSET (1..n)
    PROVE  /\ (IF I # {} THEN Min(I) ELSE 0) \in 0..n
           /\ (IF I # {} THEN Max(I) ELSE 0) \in 0..n
<1>1. I # {} => Min(I) \in I
  <2>1. I \in SUBSET Nat
    OBVIOUS
  <2> QED BY <2>1, MinOf
<1>2. I # {} => Max(I) \in I
  BY MaxOf
<1>3. CASE I = {}
  BY <1>3
<1>4. CASE I # {}
  <2>0. \A i \in I : i \in 0..n
    OBVIOUS
  <2>1. Min(I) \in 0..n /\ Max(I) \in 0..n
    BY <1>1, <1>2, <1>4, <2>0
  <2> QED BY <1>4, <2>1
<1> QED BY <1>3, <1>4

\* A text cut to a length is the beginning of the text.
LEMMA CutType ==
    ASSUME NEW T, NEW text \in Seq(T), NEW n \in Nat
    PROVE  /\ Cut(text, n) \in Seq(T)
           /\ Len(Cut(text, n)) = IF Len(text) < n THEN Len(text) ELSE n
           /\ \A i \in 1..Len(Cut(text, n)) : Cut(text, n)[i] = text[i]
<1> DEFINE m == IF Len(text) < n THEN Len(text) ELSE n
<1>1. m \in Nat /\ m <= Len(text)
  OBVIOUS
<1>2. Cut(text, n) = SubSeq(text, 1, m)
  BY DEF Cut
<1> HIDE DEF m
<1>3. \A i \in 1..m : text[i] \in T
  BY <1>1
<1>4. SubSeq(text, 1, m) \in Seq(T)
  BY <1>1, <1>3, SubSeqProperties
<1>5. Len(SubSeq(text, 1, m)) = m
  BY <1>1
<1>6. \A i \in 1..m : SubSeq(text, 1, m)[i] = text[i]
  BY <1>1
<1> QED BY <1>2, <1>4, <1>5, <1>6 DEF m

Digits(n, text) == FoldLeft(LAMBDA v, d : 10 * v + d, n, text)

\* The digits of a text, one by one.
LEMMA DigitsAlong ==
    ASSUME NEW T, NEW U, NEW F, Step(F, T, U), NEW a \in T, NEW list \in Seq(U),
           \A x \in T, y \in U : At(F, x, y) = 10 * x + y
    PROVE  Digits(a, list) = Along(F, T, a, list)
<1> DEFINE P == SUBSET Places(list)
           Is(w) == w = [s \in P |-> IF s = {} THEN a
                                     ELSE 10 * w[s \ {Max(s)}] + list[Max(s)]]
           v == CHOOSE w : Is(w)
<1>1. Digits(a, list) = v[Places(list)]
  BY ListPlaces DEF FoldLeft, MapThenFoldSet, Digits
<1>2. \A s \in P : s # {} => list[Max(s)] \in U /\ s \ {Max(s)} \in P
  BY LastPlace
<1>3. \A x \in T, y \in U : F[<<x, y>>] = 10 * x + y
  BY DEF At
<1>4. PICK w : FoldsIn(F, T, a, list, w)
  BY FoldExists
<1>5. Is(w)
  BY <1>2, <1>3, <1>4 DEF FoldsIn, Folds
<1>6. Is(v)
  BY <1>5
<1> HIDE DEF v
<1>7. Folds(F, T, a, list, v)
  BY <1>2, <1>3, <1>6 DEF Folds
<1>8. v[Places(list)] = Along(F, T, a, list)
  BY <1>7, FoldAlong
<1> QED BY <1>1, <1>8

\* Nothing done for no element, and what one keeps all keep.
LEMMA DigitsFold ==
    ASSUME NEW T, NEW U, \A x \in T, y \in U : 10 * x + y \in T, NEW a \in T
    PROVE  /\ Digits(a, Nil) = a
           /\ \A list \in Seq(U) : Digits(a, list) \in T
<1> DEFINE F == [p \in T \X U |-> 10 * p[1] + p[2]]
<1>1. Step(F, T, U) /\ \A x \in T, y \in U : At(F, x, y) = 10 * x + y
  BY DEF Step, At
<1> HIDE DEF F
<1>2. \A list \in Seq(U) : Digits(a, list) = Along(F, T, a, list)
  BY <1>1, DigitsAlong
<1> QED BY <1>1, <1>2, AlongRules

\* atoi gives a number for every text.
LEMMA AtoiType ==
    ASSUME NEW text \in Texts
    PROVE  atoi(text) \in Int
<1> DEFINE minus  == text # <<>> /\ text[1] = Dash
           digits == IF minus THEN Tail(text) ELSE text
           I      == {i \in 1..Len(digits) : ~IsDigit(digits[i])}
           stop   == IF I # {} THEN Min(I) ELSE 0
           read   == IF stop = 0 THEN digits ELSE SubSeq(digits, 1, stop - 1)
<1>1. atoi(text) = IF minus THEN -Digits(0, read) ELSE Digits(0, read)
  BY DEF atoi, SelectInSeq, Digits
<1>2. digits \in Texts
  BY DEF Texts
<1>3. stop \in 0..Len(digits)
  <2>1. Len(digits) \in Nat /\ I \in SUBSET (1..Len(digits))
    BY <1>2 DEF Texts
  <2> HIDE DEF I, digits
  <2> QED BY <2>1, Found
<1> HIDE DEF digits, stop
<1>4. read \in Seq(Nat)
  <2>1. CASE stop = 0
    BY <1>2, <2>1 DEF Texts
  <2>2. CASE stop # 0
    <3>1. \A i \in 1..(stop - 1) : digits[i] \in Nat
      BY <1>2, <1>3 DEF Texts
    <3>2. SubSeq(digits, 1, stop - 1) \in Seq(Nat)
      BY <1>3, <3>1, SubSeqProperties
    <3> QED BY <2>2, <3>2
  <2> QED BY <2>1, <2>2
<1>5. Digits(0, read) \in Nat
  <2>1. \A x \in Nat, y \in Nat : 10 * x + y \in Nat
    OBVIOUS
  <2> HIDE DEF read
  <2> QED BY <1>4, <2>1, DigitsFold
<1> HIDE DEF read, minus
<1> QED BY <1>1, <1>5

\* A remainder is an integer, and of a number that is not negative one of those
\* below the divisor.
LEMMA RemainderType ==
    ASSUME NEW n \in Int
    PROVE  /\ CMod(n, 4) \in Int /\ CMod(n, 2) \in Int
           /\ n >= 0 => CMod(n, 4) \in 0..3 /\ CMod(n, 2) \in 0..1
BY DEF CMod

\* A trimmed text is a text.
LEMMA RtrimType ==
    ASSUME NEW text \in Texts
    PROVE  RTRIM(text) \in Texts
<1> DEFINE I == {i \in 1..Len(text) : text[i] # Blank}
           m == IF I # {} THEN Max(I) ELSE 0
<1>1. RTRIM(text) = Cut(text, m)
  BY DEF RTRIM, SelectLastInSeq
<1>2. m \in 0..Len(text)
  <2>1. Len(text) \in Nat /\ I \in SUBSET (1..Len(text))
    BY DEF Texts
  <2> HIDE DEF I
  <2> QED BY <2>1, Found
<1> HIDE DEF m
<1>3. m \in Nat /\ text \in Seq(Nat)
  BY <1>2 DEF Texts
<1> QED BY <1>1, <1>3, CutType DEF Texts

-----------------------------------------------------------------------------
(* Selections and tokens *)

\* What is selected is of the set, and of the list.
LEMMA SelectType ==
    ASSUME NEW U, NEW S, NEW list \in Seq(U)
    PROVE  Select(list, S) \in Seq(U \cap S)
<1> DEFINE K == {l \in Seq(U) : Select(l, S) \in Seq(U \cap S)}
<1>1. /\ Select(Nil, S) = Nil
      /\ \A l \in Seq(U) : Select(l, S) \in Seq(U)
      /\ \A l \in Seq(U), e \in U :
            Select(Add(l, e), S) = IF e \in S THEN Add(Select(l, S), e) ELSE Select(l, S)
  BY SelectRules
<1>2. <<>> \in K
  <2> DEFINE W == Seq(U \cap S)
             V == Seq(U)
  <2>1. Select(Nil, S) = Nil /\ Nil \in W /\ Nil \in V
    BY <1>1 DEF Nil
  <2> HIDE DEF W, V
  <2>2. Nil \in {l \in V : Select(l, S) \in W}
    BY <2>1
  <2> QED BY <2>2 DEF Nil, W, V
<1>3. ASSUME NEW l \in Seq(U), NEW e \in U, l \in K PROVE Append(l, e) \in K
  <2>1. Select(l, S) \in Seq(U \cap S) /\ Append(l, e) \in Seq(U)
    BY <1>3
  <2>2. Select(Append(l, e), S) = IF e \in S THEN Append(Select(l, S), e) ELSE Select(l, S)
    BY <1>1 DEF Add
  <2> DEFINE q == Select(l, S)
  <2>3. q \in Seq(U \cap S) /\ (e \in S => Append(q, e) \in Seq(U \cap S))
    BY <2>1
  <2>4. Select(Append(l, e), S) \in Seq(U \cap S)
    BY <2>2, <2>3
  <2> QED BY <2>1, <2>4
<1>4. \A l \in Seq(U) : l \in K
  <2>1. \A l \in Seq(U), e \in U : l \in K => Append(l, e) \in K
    BY <1>3
  <2> HIDE DEF K
  <2> QED BY <1>2, <2>1, ListInduct
<1> QED BY <1>4

\* The step of Tokens, its own there.
TokenStep(acc, c) == IF c = Colon THEN Append(acc, <<>>) ELSE [acc EXCEPT ![Len(acc)] = Append(@, c)]
Parts(acc, text) == FoldLeft(TokenStep, acc, text)

\* TokenStep along a text.
LEMMA PartsAlong ==
    ASSUME NEW T, NEW U, NEW F, Step(F, T, U), NEW a \in T, NEW list \in Seq(U),
           \A x \in T, y \in U : At(F, x, y) = TokenStep(x, y)
    PROVE  Parts(a, list) = Along(F, T, a, list)
<1> DEFINE P == SUBSET Places(list)
           Is(w) == w = [s \in P |-> IF s = {} THEN a
                                     ELSE TokenStep(w[s \ {Max(s)}], list[Max(s)])]
           v == CHOOSE w : Is(w)
<1>1. Parts(a, list) = v[Places(list)]
  BY ListPlaces DEF FoldLeft, MapThenFoldSet, Parts
<1>2. \A s \in P : s # {} => list[Max(s)] \in U /\ s \ {Max(s)} \in P
  BY LastPlace
<1>3. \A x \in T, y \in U : F[<<x, y>>] = TokenStep(x, y)
  BY DEF At
<1>4. PICK w : FoldsIn(F, T, a, list, w)
  BY FoldExists
<1>5. Is(w)
  BY <1>2, <1>3, <1>4 DEF FoldsIn, Folds
<1>6. Is(v)
  BY <1>5
<1> HIDE DEF v
<1>7. Folds(F, T, a, list, v)
  BY <1>2, <1>3, <1>6 DEF Folds
<1>8. v[Places(list)] = Along(F, T, a, list)
  BY <1>7, FoldAlong
<1> QED BY <1>1, <1>8

\* Nothing done for no element, and what one keeps all keep.
LEMMA PartsFold ==
    ASSUME NEW T, NEW U, \A x \in T, y \in U : TokenStep(x, y) \in T, NEW a \in T
    PROVE  /\ Parts(a, Nil) = a
           /\ \A list \in Seq(U) : Parts(a, list) \in T
<1> DEFINE F == [p \in T \X U |-> TokenStep(p[1], p[2])]
<1>1. Step(F, T, U) /\ \A x \in T, y \in U : At(F, x, y) = TokenStep(x, y)
  BY DEF Step, At
<1> HIDE DEF F
<1>2. \A list \in Seq(U) : Parts(a, list) = Along(F, T, a, list)
  BY <1>1, PartsAlong
<1> QED BY <1>1, <1>2, AlongRules

\* Tokens are texts, and none is empty.
LEMMA TokensType ==
    ASSUME NEW text \in Texts
    PROVE  Tokens(text) \in Seq(Texts \ {<<>>})
<1> DEFINE T == {s \in Seq(Texts) : s # <<>>}
           parts == Parts(<<<<>>>>, text)
<1>1. ASSUME NEW acc \in T, NEW c \in Nat PROVE TokenStep(acc, c) \in T
  <2>1. acc \in Seq(Texts) /\ Len(acc) \in 1..Len(acc) /\ acc[Len(acc)] \in Texts
    OBVIOUS
  <2>2. Append(acc[Len(acc)], c) \in Texts /\ <<>> \in Texts
    BY <2>1 DEF Texts
  <2>3. CASE c = Colon
    <3>1. Append(acc, <<>>) \in Seq(Texts) /\ Len(Append(acc, <<>>)) = Len(acc) + 1
      BY <2>1, <2>2
    <3>2. Append(acc, <<>>) # <<>>
      BY <2>1, <3>1
    <3> QED BY <2>3, <3>1, <3>2 DEF TokenStep
  <2>4. CASE c # Colon
    <3> DEFINE t == Append(acc[Len(acc)], c)
               q == [acc EXCEPT ![Len(acc)] = t]
    <3>1. t \in Texts
      BY <2>2
    <3>2. TokenStep(acc, c) = q
      BY <2>4 DEF TokenStep
    <3> HIDE DEF t
    <3>3. q \in Seq(Texts) /\ Len(q) = Len(acc)
      BY <2>1, <3>1
    <3>4. q # <<>>
      BY <2>1, <3>3
    <3> QED BY <3>2, <3>3, <3>4
  <2> QED BY <2>3, <2>4
<1>2. <<<<>>>> \in T
  BY DEF Texts
<1>3. parts \in T
  <2>1. text \in Seq(Nat) /\ \A x \in T, y \in Nat : TokenStep(x, y) \in T
    BY <1>1 DEF Texts
  <2> HIDE DEF T
  <2> QED BY <1>2, <2>1, PartsFold
<1>4. Tokens(text) = Select(parts, ToSet(parts) \ {<<>>})
  BY DEF Tokens, Parts, TokenStep
<1> HIDE DEF parts
<1>5. parts \in Seq(Texts)
  BY <1>3
<1> DEFINE S == ToSet(parts) \ {<<>>}
<1>6. Select(parts, S) \in Seq(Texts \cap S)
  BY <1>5, SelectType
<1>7. Texts \cap S \subseteq Texts \ {<<>>}
  OBVIOUS
<1> HIDE DEF S
<1>8. Select(parts, S) \in Seq(Texts \ {<<>>})
  BY <1>6, <1>7
<1> QED BY <1>4, <1>8 DEF S

-----------------------------------------------------------------------------
(* Numbers as digits, and lists of lists *)

\* One more digit of my_itoa, which looks up the shorter number in what it has.
LEMMA ItoaExists ==
    ASSUME NEW n \in Nat
    PROVE  \E d : /\ d \in [0..n -> Texts]
                  /\ d = [m \in 0..n |-> IF m < 10 THEN <<m>> ELSE Append(d[m \div 10], m % 10)]
<1> DEFINE T == [0..n -> Texts]
           U == 1..n
           rule(d, m) == IF m < 10 THEN <<m>> ELSE Append(d[m \div 10], m % 10)
           F == [p \in T \X U |-> [p[1] EXCEPT ![p[2]] = rule(p[1], p[2])]]
           a == [m \in 0..n |-> <<m>>]
           list == [m \in 1..n |-> m]
<1>1. ASSUME NEW m \in 1..n
      PROVE  /\ m \div 10 \in 0..(m - 1) /\ m \div 10 \in 0..n /\ m % 10 \in Nat
             /\ m \in 0..n
  <2>1. m \in Nat /\ 1 <= m /\ m <= n
    OBVIOUS
  <2>2. m \div 10 \in Int /\ 0 <= (m \div 10) /\ (m \div 10) < m
    BY <2>1
  <2>3. m % 10 \in 0..9
    BY <2>1
  <2> QED BY <2>1, <2>2, <2>3
<1>2. ASSUME NEW d \in T, NEW m \in 1..n PROVE rule(d, m) \in Texts
  <2>1. d[m \div 10] \in Seq(Nat)
    BY <1>1 DEF Texts
  <2>2. Append(d[m \div 10], m % 10) \in Seq(Nat) /\ <<m>> \in Seq(Nat)
    BY <1>1, <2>1
  <2> QED BY <2>2 DEF Texts
<1>3. Step(F, T, U)
  <2>1. ASSUME NEW d \in T, NEW m \in 1..n PROVE [d EXCEPT ![m] = rule(d, m)] \in T
    <3> DEFINE t == rule(d, m)
    <3>1. t \in Texts
      BY <1>2
    <3> HIDE DEF t
    <3>2. [d EXCEPT ![m] = t] \in T
      BY <3>1
    <3> QED BY <3>2 DEF t
  <2> HIDE DEF T, rule
  <2>2. F \in [T \X U -> T]
    BY <2>1
  <2> HIDE DEF F, U
  <2> QED BY <2>2 DEF Step
<1>4. ASSUME NEW d \in T, NEW m \in 1..n
      PROVE  F[<<d, m>>] = [d EXCEPT ![m] = rule(d, m)]
  <2> HIDE DEF rule, T
  <2> QED OBVIOUS
<1> HIDE DEF F
<1>5. a \in T
  <2>1. \A m \in 0..n : <<m>> \in Texts
    BY DEF Texts
  <2> QED BY <2>1
<1>6. list \in Seq(U) /\ Len(list) = n /\ \A i \in 1..n : list[i] = i
  OBVIOUS
<1> HIDE DEF list, a
<1>7. PICK g : Chain(F, T, a, list, g)
  BY <1>3, <1>5, <1>6, ChainExists
<1>8. g[0] = a /\ \A i \in 0..n : g[i] \in T
  BY <1>6, <1>7 DEF Chain
<1>9. ASSUME NEW i \in 1..n PROVE g[i] = [g[i - 1] EXCEPT ![i] = rule(g[i - 1], i)]
  <2>1. g[i] = F[<<g[i - 1], i>>] /\ i - 1 \in 0..n
    BY <1>6, <1>7 DEF Chain
  <2> DEFINE d == g[i - 1]
  <2>2. d \in T
    BY <1>8, <2>1
  <2> HIDE DEF d, rule, T
  <2>3. F[<<d, i>>] = [d EXCEPT ![i] = rule(d, i)]
    BY <1>4, <2>2
  <2> QED BY <2>1, <2>3 DEF d
<1> DEFINE K == {i \in 0..n : \A m \in 0..i : g[i][m] = rule(g[i], m)}
<1>10. 0 \in K
  <2>1. \A m \in 0..0 : m = 0 /\ g[0][m] = <<m>>
    BY <1>8 DEF a
  <2> QED BY <2>1
<1>11. ASSUME NEW i \in 1..n, i - 1 \in K PROVE i \in K
  <2> DEFINE d == g[i - 1]
             e == g[i]
  <2>1. d \in T /\ e \in T /\ i - 1 \in 0..n
    BY <1>8
  <2>2. e = [d EXCEPT ![i] = rule(d, i)]
    BY <1>9
  <2>3. \A m \in 0..(i - 1) : d[m] = rule(d, m)
    BY <1>11
  <2> HIDE DEF d, e
  <2>4. /\ e[i] = rule(d, i)
        /\ \A m \in 0..(i - 1) : e[m] = d[m]
    <3> HIDE DEF rule
    <3>1. i \in 0..n /\ \A m \in 0..(i - 1) : m \in 0..n /\ m # i
      OBVIOUS
    <3> QED BY <2>1, <2>2, <3>1
  <2>5. ASSUME NEW m \in 1..i PROVE rule(e, m) = rule(d, m)
    <3>1. m \in 1..n
      OBVIOUS
    <3>2. m \div 10 \in 0..(m - 1)
      BY <1>1, <3>1
    <3>3. m \div 10 \in 0..(i - 1)
      BY <3>2
    <3>4. e[m \div 10] = d[m \div 10]
      BY <2>4, <3>3
    <3> QED BY <3>4
  <2>6. rule(e, 0) = rule(d, 0)
    OBVIOUS
  <2>7. ASSUME NEW m \in 0..i PROVE e[m] = rule(e, m)
    <3>1. rule(e, m) = rule(d, m)
      <4> HIDE DEF rule
      <4>1. m = 0 \/ m \in 1..i
        OBVIOUS
      <4> QED BY <2>5, <2>6, <4>1
    <3> HIDE DEF rule
    <3>2. m = i \/ m \in 0..(i - 1)
      OBVIOUS
    <3> QED BY <2>3, <2>4, <3>1, <3>2
  <2> HIDE DEF rule
  <2>8. i \in 0..n
    OBVIOUS
  <2> QED BY <2>7, <2>8 DEF e
<1> HIDE DEF rule
<1>12. n \in K
  <2>1. \A i \in 1..n : i - 1 \in K => i \in K
    BY <1>11
  <2>2. n \in 0..n
    OBVIOUS
  <2> HIDE DEF K
  <2> QED BY <1>10, <2>1, <2>2, Induct
<1> DEFINE d == g[n]
<1>13. d \in T /\ \A m \in 0..n : d[m] = rule(d, m)
  BY <1>8, <1>12
<1> HIDE DEF d
<1>14. d = [m \in 0..n |-> rule(d, m)]
  BY <1>13
<1> QED BY <1>13, <1>14 DEF rule

\* my_itoa gives a text for every number.
LEMMA ItoaType ==
    ASSUME NEW val \in Int
    PROVE  my_itoa(val) \in Texts
<1> DEFINE n == IF val < 0 THEN -val ELSE val
           Is(d) == d = [m \in 0..n |-> IF m < 10 THEN <<m>> ELSE Append(d[m \div 10], m % 10)]
           digits == CHOOSE d : Is(d)
           K == {i \in 0..n : \A m \in 0..i : digits[m] \in Texts}
<1>1. n \in Nat
  OBVIOUS
<1>2. my_itoa(val) = digits[n]
  BY DEF my_itoa
<1> HIDE DEF n
<1>3. Is(digits)
  <2>1. \E d : Is(d)
    BY <1>1, ItoaExists
  <2> QED BY <2>1
<1> HIDE DEF digits
<1>4. ASSUME NEW m \in 0..n
      PROVE  digits[m] = IF m < 10 THEN <<m>> ELSE Append(digits[m \div 10], m % 10)
  BY <1>3
<1>5. 0 \in K
  <2>1. digits[0] \in Texts
    <3>0. 0 \in 0..n /\ 0 < 10
      BY <1>1
    <3>1. digits[0] = <<0>>
      <4>1. digits[0] = IF 0 < 10 THEN <<0>> ELSE Append(digits[0 \div 10], 0 % 10)
        BY <1>4, <3>0
      <4> QED BY <3>0, <4>1
    <3>2. <<0>> \in Texts
      BY DEF Texts
    <3> QED BY <3>1, <3>2
  <2>2. \A m \in 0..0 : m = 0
    OBVIOUS
  <2> QED BY <1>1, <2>1, <2>2
<1>6. ASSUME NEW i \in 1..n, i - 1 \in K PROVE i \in K
  <2>1. i \in Nat /\ i <= n /\ 1 <= i /\ i \in 0..n
    BY <1>1
  <2>2. (i \div 10) \in 0..(i - 1) /\ (i % 10) \in Nat
    BY <2>1
  <2>3. digits[i \div 10] \in Seq(Nat)
    BY <1>6, <2>2 DEF Texts
  <2>4. <<i>> \in Seq(Nat) /\ Append(digits[i \div 10], i % 10) \in Seq(Nat)
    BY <2>1, <2>2, <2>3
  <2>5. digits[i] \in Texts
    BY <1>4, <2>1, <2>4 DEF Texts
  <2>6. \A m \in 0..i : m = i \/ m \in 0..(i - 1)
    BY <2>1
  <2>7. \A m \in 0..(i - 1) : digits[m] \in Texts
    BY <1>6
  <2> QED BY <2>1, <2>5, <2>6, <2>7
<1>7. n \in K
  <2>1. \A i \in 1..n : i - 1 \in K => i \in K
    BY <1>6
  <2>2. n \in 0..n
    BY <1>1
  <2> HIDE DEF K
  <2> QED BY <1>1, <1>5, <2>1, <2>2, Induct
<1>8. digits[n] \in Texts
  BY <1>1, <1>7
<1> QED BY <1>2, <1>8

\* FlattenSeq is concatenation along the list.
LEMMA FlattenAlong ==
    ASSUME NEW T, NEW F, Step(F, Seq(T), Seq(T)),
           \A p \in Seq(T), e \in Seq(T) : At(F, p, e) = p \o e,
           NEW list \in Seq(Seq(T))
    PROVE  FlattenSeq(list) = Along(F, Seq(T), Nil, list)
<1> DEFINE n == Len(list)
           V == Seq(T)
           Is(f) == f = [i \in 1..n |-> IF i = 1 THEN list[i] ELSE f[i - 1] \o list[i]]
           flat == CHOOSE f : Is(f)
<1>1. n \in Nat /\ Nil \in V /\ \A i \in 1..n : list[i] \in V
  BY DEF Nil
<1>2. FlattenSeq(list) = IF n = 0 THEN list ELSE flat[n]
  BY DEF FlattenSeq
<1>3. PICK g : Chain(F, V, Nil, list, g)
  BY <1>1, ChainExists
<1>4. Along(F, V, Nil, list) = g[Len(list)]
  BY <1>3, AlongIs
<1>5. CASE n = 0
  <2>1. list = <<>>
    BY <1>5
  <2>2. g[0] = Nil
    BY <1>3 DEF Chain
  <2> QED BY <1>2, <1>4, <1>5, <2>1, <2>2 DEF Nil
<1>6. CASE n # 0
  <2>1. /\ g[0] = <<>> /\ \A i \in 0..n : g[i] \in V
        /\ \A i \in 1..n : g[i] = F[<<g[i - 1], list[i]>>]
    BY <1>3 DEF Chain, Nil
  <2> HIDE DEF n
  <2>2. ASSUME NEW i \in 1..n PROVE g[i] = g[i - 1] \o list[i]
    <3>1. g[i - 1] \in V /\ list[i] \in V
      BY <1>1, <2>1
    <3>2. F[<<g[i - 1], list[i]>>] = g[i - 1] \o list[i]
      BY <3>1 DEF At
    <3> QED BY <2>1, <3>2
  <2>3. 1 \in 1..n /\ g[1] = list[1]
    <3>1. 1 \in 1..n /\ 1 - 1 = 0
      BY <1>1, <1>6
    <3>2. g[1] = <<>> \o list[1] /\ list[1] \in Seq(T)
      BY <1>1, <2>1, <2>2, <3>1
    <3> QED BY <3>1, <3>2
  <2> DEFINE f == [i \in 1..n |-> g[i]]
  <2>4. Is(f)
    <3>1. ASSUME NEW i \in 1..n, i # 1 PROVE f[i] = f[i - 1] \o list[i]
      <4>1. i - 1 \in 1..n
        BY <1>1, <3>1
      <4>2. f[i] = g[i] /\ f[i - 1] = g[i - 1]
        BY <4>1
      <4> HIDE DEF f
      <4> QED BY <2>2, <4>2
    <3>2. f[1] = list[1]
      BY <2>3
    <3>3. f = [i \in 1..n |-> f[i]]
      OBVIOUS
    <3> HIDE DEF f
    <3> QED BY <3>1, <3>2, <3>3
  <2>5. Is(flat)
    BY <2>4
  <2> HIDE DEF flat, f
  <2> DEFINE K == {i \in 0..n : i = 0 \/ flat[i] = g[i]}
  <2>6. ASSUME NEW i \in 1..n, i - 1 \in K PROVE i \in K
    <3>1. flat[i] = IF i = 1 THEN list[i] ELSE flat[i - 1] \o list[i]
      BY <2>5
    <3>2. i # 1 => flat[i - 1] = g[i - 1]
      BY <2>6
    <3>3. flat[i] = g[i]
      <4>1. CASE i = 1
        BY <2>3, <3>1, <4>1
      <4>2. CASE i # 1
        BY <2>2, <3>1, <3>2, <4>2
      <4> QED BY <4>1, <4>2
    <3>4. i \in 0..n
      BY <1>1
    <3> QED BY <3>3, <3>4
  <2>7. n \in K
    <3>1. 0 \in K /\ n \in 0..n
      BY <1>1
    <3>2. \A i \in 1..n : i - 1 \in K => i \in K
      BY <2>6
    <3> HIDE DEF K
    <3> QED BY <1>1, <3>1, <3>2, Induct
  <2>8. flat[n] = g[n]
    BY <1>6, <2>7
  <2> QED BY <1>2, <1>4, <1>6, <2>8 DEF n
<1> QED BY <1>5, <1>6

\* FlattenSeq, by the last of the lists.
LEMMA FlattenRules ==
    ASSUME NEW T
    PROVE  /\ FlattenSeq(Nil) = Nil
           /\ \A list \in Seq(Seq(T)) : FlattenSeq(list) \in Seq(T)
           /\ \A list \in Seq(Seq(T)), e \in Seq(T) :
                FlattenSeq(Add(list, e)) = FlattenSeq(list) \o e
<1> DEFINE V == Seq(T)
           F == [p \in V \X V |-> p[1] \o p[2]]
<1>0. \A p \in V, e \in V : p \o e \in V
  OBVIOUS
<1> HIDE DEF V
<1>1. Step(F, V, V) /\ \A p \in V, e \in V : F[<<p, e>>] = p \o e
  BY <1>0 DEF Step
<1> HIDE DEF F
<1>2. \A p \in V, e \in V : At(F, p, e) = p \o e
  BY <1>1 DEF At
<1>3. \A list \in Seq(V) : FlattenSeq(list) = Along(F, V, Nil, list)
  BY <1>1, <1>2, FlattenAlong DEF V
<1>4. Nil \in V
  BY DEF Nil, V
<1>5. /\ Along(F, V, Nil, Nil) = Nil
      /\ \A list \in Seq(V) : Along(F, V, Nil, list) \in V
      /\ \A list \in Seq(V), e \in V : Along(F, V, Nil, Add(list, e)) = At(F, Along(F, V, Nil, list), e)
      /\ Nil \in Seq(V) /\ \A list \in Seq(V), e \in V : Add(list, e) \in Seq(V)
  BY <1>1, <1>4, AlongRules
<1>6. ASSUME NEW list \in Seq(V), NEW e \in V
      PROVE  FlattenSeq(Add(list, e)) = FlattenSeq(list) \o e
  <2> DEFINE p == Along(F, V, Nil, list)
             l == Add(list, e)
  <2>1. p \in V /\ l \in Seq(V) /\ FlattenSeq(list) = p /\ FlattenSeq(l) = Along(F, V, Nil, l)
    BY <1>3, <1>5
  <2>2. Along(F, V, Nil, l) = At(F, p, e)
    BY <1>5
  <2> HIDE DEF p, l
  <2>3. At(F, p, e) = p \o e
    BY <1>2, <2>1
  <2>4. FlattenSeq(l) = FlattenSeq(list) \o e
    BY <2>1, <2>2, <2>3
  <2> QED BY <2>4 DEF l
<1> QED BY <1>3, <1>5, <1>6 DEF V

-----------------------------------------------------------------------------
(* Lines of the file, words of the command line *)

\* A list that is made place by place of another.
LEMMA MapType ==
    ASSUME NEW U, NEW V, NEW list \in Seq(U), NEW m,
           m = [i \in DOMAIN list |-> m[i]], \A i \in DOMAIN list : m[i] \in V
    PROVE  m \in Seq(V) /\ Len(m) = Len(list)
<1>1. DOMAIN list = 1..Len(list) /\ Len(list) \in Nat
  OBVIOUS
<1> DEFINE n == Len(list)
<1>2. n \in Nat /\ m = [i \in 1..n |-> m[i]] /\ \A i \in 1..n : m[i] \in V
  BY <1>1
<1> HIDE DEF n
<1>3. m \in Seq(V) /\ Len(m) = n
  BY <1>2
<1> QED BY <1>3 DEF n

Pair    == [key : Names, value : Texts]
Opt(V)  == [key : Names, value : V]
OneText == [1..1 -> Texts]

\* None is no text, and Some(t) is one.
LEMMA SomeText ==
    /\ \A t \in Texts : Some(t) \in OneText /\ Some(t)[1] = t /\ Some(t) # None
    /\ \A v \in OneText : v[1] \in Texts /\ v # None
    /\ Maybe(Texts) = {None} \cup OneText
<1>1. \A t \in Texts : Some(t) \in OneText /\ Some(t)[1] = t /\ Some(t) # None
  BY DEF Some, None, OneText
<1>2. \A v \in OneText : v[1] \in Texts /\ v # None
  BY DEF Some, None, OneText
<1> QED BY <1>1, <1>2 DEF Maybe, None, OneText

\* The lines that make options.
LEMMA ParseNowType ==
    ASSUME NEW file \in Lines
    PROVE  conf_parser_parse_now(file) \in Lines
<1> DEFINE S == {line \in ToSet(file) : line.key \notin {NoKey, Comment}}
           pairs == Select(file, S)
           left(line) == MAX_LINE_LEN - 1 - Len(line.key) - 1
           room(line) == IF left(line) \in Nat THEN left(line) ELSE 0
           value(p) == RTRIM(Cut(p.value, room(p)))
           m == [i \in DOMAIN pairs |-> [pairs[i] EXCEPT !.value = value(pairs[i])]]
<1>1. conf_parser_parse_now(file) = m
  BY DEF conf_parser_parse_now
<1>2. pairs \in Seq(Pair)
  <2>1. file \in Seq(Pair)
    BY DEF Lines, Pair
  <2> HIDE DEF S
  <2>2. \A l \in Seq(Pair) : Select(l, S) \in Seq(Pair)
    BY SelectRules
  <2> QED BY <2>1, <2>2
<1> HIDE DEF pairs
<1>3. ASSUME NEW p \in Pair PROVE value(p) \in Texts
  <2>1. room(p) \in Nat
    OBVIOUS
  <2> HIDE DEF room
  <2>2. p.value \in Seq(Nat)
    BY DEF Pair, Texts
  <2>3. Cut(p.value, room(p)) \in Texts
    BY <2>1, <2>2, CutType DEF Texts
  <2> QED BY <2>3, RtrimType
<1> HIDE DEF value
<1>4. ASSUME NEW i \in DOMAIN pairs PROVE m[i] \in Pair
  <2>1. pairs[i] \in Pair
    BY <1>2
  <2>2. value(pairs[i]) \in Texts
    BY <1>3, <2>1
  <2>3. m[i] = [pairs[i] EXCEPT !.value = value(pairs[i])]
    OBVIOUS
  <2> HIDE DEF m
  <2> QED BY <2>1, <2>2, <2>3 DEF Pair
<1>5. m = [i \in DOMAIN pairs |-> m[i]]
  OBVIOUS
<1> HIDE DEF m
<1>6. m \in Seq(Pair)
  BY <1>2, <1>4, <1>5, MapType
<1> QED BY <1>1, <1>6 DEF Lines, Pair

\* The options of a file have a value.
LEMMA TraverserType ==
    ASSUME NEW lines \in Lines
    PROVE  parser_traverser(lines) \in Seq(Opt(OneText))
<1> DEFINE S == {pair \in ToSet(lines) : pair.value # <<>>}
           pairs == Select(lines, S)
           m == [i \in DOMAIN pairs |-> [key |-> pairs[i].key, value |-> Some(pairs[i].value)]]
<1>1. parser_traverser(lines) = m
  BY DEF parser_traverser
<1>2. pairs \in Seq(Pair)
  <2>1. lines \in Seq(Pair)
    BY DEF Lines, Pair
  <2> HIDE DEF S
  <2>2. \A l \in Seq(Pair) : Select(l, S) \in Seq(Pair)
    BY SelectRules
  <2> QED BY <2>1, <2>2
<1> HIDE DEF pairs
<1>3. ASSUME NEW i \in DOMAIN pairs PROVE m[i] \in Opt(OneText)
  <2>1. pairs[i] \in Pair
    BY <1>2
  <2>2. pairs[i].key \in Names /\ pairs[i].value \in Texts
    BY <2>1 DEF Pair
  <2>3. m[i] = [key |-> pairs[i].key, value |-> Some(pairs[i].value)]
    OBVIOUS
  <2>4. Some(pairs[i].value) \in OneText
    BY <2>2, SomeText
  <2> HIDE DEF m
  <2> QED BY <2>2, <2>3, <2>4 DEF Opt
<1>4. m = [i \in DOMAIN pairs |-> m[i]]
  OBVIOUS
<1> HIDE DEF m
<1>5. m \in Seq(Opt(OneText))
  BY <1>2, <1>3, <1>4, MapType
<1> QED BY <1>1, <1>5

\* The step of getopt_long, its own there.
ReadWord(arguments, acc, w) ==
    IF acc.owner # <<>>
    THEN [opts  |-> Append(acc.opts, [key |-> acc.owner[1].name, value |-> Some(TextOf(w))]),
          owner |-> <<>>]
    ELSE IF w.form = "text" \/ arguments[w] = "unknown" THEN acc
    ELSE IF arguments[w] = "none" /\ w.glued # None THEN acc
    ELSE IF arguments[w] = "required" /\ w.glued = None THEN [acc EXCEPT !.owner = <<w>>]
    ELSE [acc EXCEPT !.opts = Append(@, [key |-> w.name, value |-> w.glued])]
ReadWords(arguments, acc, words) == FoldLeft(LAMBDA a, w : ReadWord(arguments, a, w), acc, words)
Unread == [opts |-> <<>>, owner |-> <<>>]

\* ReadWord along a command line.
LEMMA ReadAlong ==
    ASSUME NEW arguments, NEW T, NEW U, NEW F, Step(F, T, U), NEW a \in T, NEW list \in Seq(U),
           \A x \in T, y \in U : At(F, x, y) = ReadWord(arguments, x, y)
    PROVE  ReadWords(arguments, a, list) = Along(F, T, a, list)
<1> DEFINE P == SUBSET Places(list)
           Is(w) == w = [s \in P |-> IF s = {} THEN a
                                     ELSE ReadWord(arguments, w[s \ {Max(s)}], list[Max(s)])]
           v == CHOOSE w : Is(w)
<1>1. ReadWords(arguments, a, list) = v[Places(list)]
  BY ListPlaces DEF FoldLeft, MapThenFoldSet, ReadWords
<1>2. \A s \in P : s # {} => list[Max(s)] \in U /\ s \ {Max(s)} \in P
  BY LastPlace
<1>3. \A x \in T, y \in U : F[<<x, y>>] = ReadWord(arguments, x, y)
  BY DEF At
<1>4. PICK w : FoldsIn(F, T, a, list, w)
  BY FoldExists
<1>5. Is(w)
  BY <1>2, <1>3, <1>4 DEF FoldsIn, Folds
<1>6. Is(v)
  BY <1>5
<1> HIDE DEF v
<1>7. Folds(F, T, a, list, v)
  BY <1>2, <1>3, <1>6 DEF Folds
<1>8. v[Places(list)] = Along(F, T, a, list)
  BY <1>7, FoldAlong
<1> QED BY <1>1, <1>8

\* Nothing done for no element, and what one keeps all keep.
LEMMA ReadFold ==
    ASSUME NEW arguments, NEW T, NEW U, \A x \in T, y \in U : ReadWord(arguments, x, y) \in T, NEW a \in T
    PROVE  /\ ReadWords(arguments, a, Nil) = a
           /\ \A list \in Seq(U) : ReadWords(arguments, a, list) \in T
<1> DEFINE F == [p \in T \X U |-> ReadWord(arguments, p[1], p[2])]
<1>1. Step(F, T, U) /\ \A x \in T, y \in U : At(F, x, y) = ReadWord(arguments, x, y)
  BY DEF Step, At
<1> HIDE DEF F
<1>2. \A list \in Seq(U) : ReadWords(arguments, a, list) = Along(F, T, a, list)
  BY <1>1, ReadAlong
<1> QED BY <1>1, <1>2, AlongRules

\* What getopt_long has read of a command line.
ReadSoFar(V) == [opts : Seq(Opt(V)), owner : Maybe(Words)]

\* One word keeps what getopt_long has read a list of options.
LEMMA ReadWordType ==
    ASSUME NEW V, OneText \subseteq V, NEW arguments, NEW acc \in ReadSoFar(V), NEW w \in Words,
           arguments[w] \in {"required", "unknown"} \/ w.glued \in V
    PROVE  ReadWord(arguments, acc, w) \in ReadSoFar(V)
<1>1. acc.opts \in Seq(Opt(V)) /\ acc.owner \in Maybe(Words)
  BY DEF ReadSoFar
<1>2. /\ w.name \in Names /\ w.glued \in Maybe(Texts)
      /\ w.form = "text" => w.glued \in OneText
  <2>1. CASE w \in [form : {"long", "short"}, name : Names, glued : Maybe(Texts)]
    BY <2>1
  <2>2. CASE w \in [form : {"text"}, name : Names, glued : [1..1 -> Texts]]
    BY <2>2, SomeText DEF OneText
  <2> QED BY <2>1, <2>2 DEF Words
<1>3. CASE acc.owner # <<>>
  <2> DEFINE owner == acc.owner[1]
             text  == TextOf(w)
             opt   == [key |-> owner.name, value |-> Some(text)]
  <2>1. owner \in Words
    BY <1>1, <1>3 DEF Maybe
  <2>2. owner.name \in Names
    BY <2>1 DEF Words
  <2>3. text \in Texts
    <3>1. CASE w.form = "text"
      BY <1>2, <3>1, SomeText DEF TextOf
    <3>2. CASE w.form # "text"
      BY <3>2 DEF TextOf, Texts, Dash
    <3> QED BY <3>1, <3>2
  <2> HIDE DEF owner, text
  <2>4. opt \in Opt(V)
    <3>1. Some(text) \in V
      BY <2>3, SomeText
    <3> QED BY <2>2, <3>1 DEF Opt
  <2>5. ReadWord(arguments, acc, w) = [opts |-> Append(acc.opts, opt), owner |-> <<>>]
    BY <1>3 DEF ReadWord, owner, text
  <2> HIDE DEF opt
  <2>6. Append(acc.opts, opt) \in Seq(Opt(V)) /\ <<>> \in Maybe(Words)
    BY <1>1, <2>4 DEF Maybe
  <2> QED BY <2>5, <2>6 DEF ReadSoFar
<1>4. CASE acc.owner = <<>> /\ (w.form = "text" \/ arguments[w] = "unknown")
  BY <1>4 DEF ReadWord
<1>5. CASE acc.owner = <<>> /\ ~(w.form = "text" \/ arguments[w] = "unknown")
  <2>0. CASE arguments[w] = "none" /\ w.glued # None
    BY <1>5, <2>0 DEF ReadWord
  <2>1. CASE arguments[w] = "required" /\ w.glued = None
    <3>1. ReadWord(arguments, acc, w) = [acc EXCEPT !.owner = <<w>>]
      BY <1>5, <2>1 DEF ReadWord
    <3>2. <<w>> \in Maybe(Words)
      BY DEF Maybe
    <3> QED BY <3>1, <3>2 DEF ReadSoFar
  <2>2. CASE ~(arguments[w] = "required" /\ w.glued = None) /\ ~(arguments[w] = "none" /\ w.glued # None)
    <3> DEFINE opt == [key |-> w.name, value |-> w.glued]
    <3>1. ReadWord(arguments, acc, w) = [acc EXCEPT !.opts = Append(@, opt)]
      BY <1>5, <2>2 DEF ReadWord
    <3>2. w.glued \in V
      BY <1>2, <1>5, <2>2, SomeText
    <3>3. opt \in Opt(V)
      BY <1>2, <3>2 DEF Opt
    <3> HIDE DEF opt
    <3>4. Append(acc.opts, opt) \in Seq(Opt(V))
      BY <1>1, <3>3
    <3> QED BY <3>1, <3>4 DEF ReadSoFar
  <2> QED BY <2>0, <2>1, <2>2
<1> QED BY <1>3, <1>4, <1>5

\* The options of a command line are options.
LEMMA GetoptType ==
    ASSUME NEW V, OneText \subseteq V, NEW words \in Seq(Words), NEW arguments,
           \A w \in ToSet(words) : arguments[w] \in {"required", "unknown"} \/ w.glued \in V
    PROVE  /\ getopt_long(words, arguments).opts = ReadWords(arguments, Unread, words).opts
           /\ getopt_long(words, arguments).opts \in Seq(Opt(V))
           /\ getopt_long(words, arguments).missing \in BOOLEAN
<1> DEFINE end == ReadWords(arguments, Unread, words)
           U == ToSet(words)
           T == ReadSoFar(V)
<1>1. getopt_long(words, arguments) = [opts |-> end.opts, missing |-> end.owner # <<>>]
  BY DEF getopt_long, ReadWords, ReadWord, Unread
<1>2. words \in Seq(U) /\ U \subseteq Words
  BY DEF ToSet
<1> HIDE DEF U
<1>3. \A x \in T, y \in U : ReadWord(arguments, x, y) \in T
  BY <1>2, ReadWordType DEF U
<1>4. Unread \in T
  BY DEF Unread, ReadSoFar, Maybe
<1> HIDE DEF T
<1>5. end \in T
  BY <1>2, <1>3, <1>4, ReadFold
<1> QED BY <1>1, <1>5 DEF T, ReadSoFar

-----------------------------------------------------------------------------
(* One option of the program *)

Configs == {c \in PROG_CONFIG : ConfigFits(c)}
Arg(opt) == IF opt.value = None THEN <<>> ELSE opt.value[1]

\* The argument of an option is a text.
LEMMA ArgType ==
    ASSUME NEW opt \in Opt(Maybe(Texts))
    PROVE  opt.key \in Names /\ Arg(opt) \in Texts /\ opt.value \in Maybe(Texts)
<1>1. opt.key \in Names /\ opt.value \in Maybe(Texts)
  BY DEF Opt
<1>2. <<>> \in Texts
  BY DEF Texts
<1> QED BY <1>1, <1>2, SomeText DEF Arg

\* Every buffer has a length.
LEMMA MaxLens ==
    \A o \in TextOptions : MaxLen(o) \in Nat
BY DEF TextOptions, MaxLen

\* A text that is set fits its buffer.
LEMMA CopyType ==
    ASSUME NEW c \in Configs, NEW o \in TextOptions, NEW text \in Texts
    PROVE  COPY_N_ARG_TO(c, o, text) \in Configs
<1> DEFINE d == COPY_N_ARG_TO(c, o, text)
           v == Some(Cut(text, MaxLen(o)))
           texts == [c.text EXCEPT ![o] = v]
<1>1. c \in PROG_CONFIG /\ ConfigFits(c)
  BY DEF Configs
<1>2. v \in Maybe(Texts) /\ Len(v[1]) <= MaxLen(o) /\ v # None
  <2> DEFINE t == Cut(text, MaxLen(o))
  <2>0. MaxLen(o) \in Nat /\ text \in Seq(Nat) /\ Len(text) \in Nat
    BY MaxLens DEF Texts
  <2>1. t \in Texts /\ Len(t) <= MaxLen(o)
    <3>1. t \in Seq(Nat) /\ Len(t) = IF Len(text) < MaxLen(o) THEN Len(text) ELSE MaxLen(o)
      BY <2>0, CutType
    <3> HIDE DEF t
    <3> QED BY <2>0, <3>1 DEF Texts
  <2> HIDE DEF t
  <2>2. Some(t) \in OneText /\ Some(t)[1] = t /\ Some(t) # None
    BY <2>1, SomeText
  <2> QED BY <2>1, <2>2, SomeText DEF t
<1> HIDE DEF v
<1>3. c.text \in [TextOptions -> Maybe(Texts)]
  BY <1>1 DEF PROG_CONFIG
<1>4. texts \in [TextOptions -> Maybe(Texts)]
  BY <1>2, <1>3
<1>5. \A p \in TextOptions : texts[p] # None => Len(texts[p][1]) <= MaxLen(p)
  BY <1>1, <1>2, <1>3 DEF ConfigFits
<1>6. d = [c EXCEPT !.text = texts]
  BY <1>1 DEF v, PROG_CONFIG, COPY_N_ARG_TO
<1> HIDE DEF texts, d
<1>7. d \in PROG_CONFIG /\ d.text = texts /\ d.num = c.num
  BY <1>1, <1>4, <1>6 DEF PROG_CONFIG
<1> QED BY <1>1, <1>5, <1>7 DEF ConfigFits, Configs, d

\* A number that is set is a number.
LEMMA SetNumberType ==
    ASSUME NEW c \in Configs, NEW o \in NumOptions, NEW n \in Int
    PROVE  SetNumber(c, o, n) \in Configs
<1> DEFINE d == SetNumber(c, o, n)
           nums == [c.num EXCEPT ![o] = n]
<1>1. c \in PROG_CONFIG /\ ConfigFits(c)
  BY DEF Configs
<1>2. c.num \in [NumOptions -> Int]
  BY <1>1 DEF PROG_CONFIG
<1>3. nums \in [NumOptions -> Int]
  BY <1>2
<1>4. d = [c EXCEPT !.num = nums]
  BY <1>1 DEF PROG_CONFIG, SetNumber
<1> HIDE DEF nums, d
<1>5. d \in PROG_CONFIG /\ d.text = c.text
  BY <1>1, <1>3, <1>4 DEF PROG_CONFIG
<1> QED BY <1>1, <1>5 DEF ConfigFits, Configs, d

\* The other fields have no limit of their own.
LEMMA SetOther ==
    ASSUME NEW c \in Configs, NEW d \in PROG_CONFIG, d.text = c.text, d.num = c.num
    PROVE  d \in Configs
BY DEF Configs, ConfigFits

\* parse_one_opt keeps the texts in their buffers.
LEMMA ParseType ==
    ASSUME NEW c \in Configs, NEW opt \in Opt(Maybe(Texts))
    PROVE  parse_one_opt(c, opt) \in Configs
<1> DEFINE arg == Arg(opt)
           d == parse_one_opt(c, opt)
<1>1. opt.key \in Names /\ arg \in Texts /\ opt.value \in Maybe(Texts)
  BY ArgType
<1>2. c \in PROG_CONFIG
  BY DEF Configs
<1>3. CASE opt.key \in TextOptions
  <2> DEFINE e == COPY_N_ARG_TO(c, opt.key, arg)
  <2>1. e \in Configs
    BY <1>1, <1>3, CopyType
  <2>2. CASE opt.key = "proxy-lan-iface"
    <3>1. d = [e EXCEPT !.proxy_on = TRUE]
      BY <2>2 DEF parse_one_opt, TextOptions, NumOptions, ModuleOptions, Arg
    <3> HIDE DEF e, d
    <3>2. d \in PROG_CONFIG /\ d.text = e.text /\ d.num = e.num
      BY <2>1, <3>1 DEF Configs, PROG_CONFIG
    <3> QED BY <2>1, <3>2, SetOther DEF d
  <2>3. CASE opt.key # "proxy-lan-iface"
    <3>1. d = e
      BY <1>3, <2>3 DEF parse_one_opt, TextOptions, NumOptions, ModuleOptions, Arg
    <3> QED BY <2>1, <3>1
  <2> QED BY <2>2, <2>3
<1>4. CASE opt.key = "password-env"
  <2>1. CASE c.environ = None
    <3>1. d = c
      BY <1>4, <2>1 DEF parse_one_opt, TextOptions, NumOptions, ModuleOptions, Arg
    <3> QED BY <3>1
  <2>2. CASE c.environ # None
    <3> DEFINE e == COPY_N_ARG_TO(c, "password", c.environ[1])
    <3>1. c.environ[1] \in Texts /\ "password" \in TextOptions
      BY <1>2, <2>2, SomeText DEF PROG_CONFIG, TextOptions
    <3>2. e \in Configs
      BY <3>1, CopyType
    <3>3. d = [e EXCEPT !.environ = None]
      BY <1>4, <2>2 DEF parse_one_opt, TextOptions, NumOptions, ModuleOptions, Arg
    <3> HIDE DEF e, d
    <3>4. d \in PROG_CONFIG /\ d.text = e.text /\ d.num = e.num
      BY <3>2, <3>3, SomeText DEF Configs, PROG_CONFIG
    <3> QED BY <3>2, <3>4, SetOther DEF d
  <2> QED BY <2>1, <2>2
<1>5. CASE opt.key = "daemonize"
  <2>1. DaemonType(arg) \in Int
    BY <1>1, AtoiType, RemainderType DEF DaemonType
  <2>2. d = SetNumber(c, "daemonize", DaemonType(arg))
    BY <1>5 DEF parse_one_opt, TextOptions, NumOptions, ModuleOptions, Arg
  <2> HIDE DEF d, arg
  <2>3. "daemonize" \in NumOptions
    BY DEF NumOptions
  <2> QED BY <2>1, <2>2, <2>3, SetNumberType DEF d
<1>6. CASE opt.key \in NumOptions \ {"daemonize"}
  <2>1. atoi(arg) \in Int
    BY <1>1, AtoiType
  <2>2. d = SetNumber(c, opt.key, atoi(arg))
    BY <1>6 DEF parse_one_opt, TextOptions, NumOptions, ModuleOptions, Arg
  <2> HIDE DEF d, arg
  <2> QED BY <1>6, <2>1, <2>2, SetNumberType DEF d
<1>7. CASE opt.key \notin TextOptions \cup NumOptions \cup {"password-env"}
  <2>1. d \in PROG_CONFIG /\ d.text = c.text /\ d.num = c.num
    <3>1. CASE opt.key \in ModuleOptions
      <4>1. d = [c EXCEPT !.modules = Append(@, arg)]
        BY <1>7, <3>1 DEF parse_one_opt, TextOptions, NumOptions, ModuleOptions, Arg
      <4> HIDE DEF d, arg
      <4>2. Append(c.modules, arg) \in Seq(Texts)
        BY <1>1, <1>2 DEF PROG_CONFIG
      <4> QED BY <1>2, <4>1, <4>2 DEF PROG_CONFIG
    <3>2. CASE opt.key \notin ModuleOptions
      <4>1. d \in {c, [c EXCEPT !.save_now = TRUE], [c EXCEPT !.restart_on_logoff = FALSE],
                   [c EXCEPT !.logoff_before_start = (opt.value = None \/ atoi(arg) # 0)],
                   [c EXCEPT !.kill_type = "KILL_ONLY"], [c EXCEPT !.kill_type = "KILL_AND_START"]}
        BY <1>7, <3>2 DEF parse_one_opt, TextOptions, NumOptions, ModuleOptions, Arg
      <4> HIDE DEF d, arg
      <4>2. {"KILL_ONLY", "KILL_AND_START"} \subseteq KILL_TYPE
        BY DEF KILL_TYPE
      <4> QED BY <1>2, <4>1, <4>2 DEF PROG_CONFIG
    <3> QED BY <3>1, <3>2
  <2> HIDE DEF d
  <2> QED BY <2>1, SetOther DEF d
<1> QED BY <1>3, <1>4, <1>5, <1>6, <1>7

-----------------------------------------------------------------------------
(* The program's options of a file and of a command line *)

ParseAll(c, opts) == FoldLeft(parse_one_opt, c, opts)

\* parse_one_opt along a list of options.
LEMMA ParseAlong ==
    ASSUME NEW T, NEW U, NEW F, Step(F, T, U), NEW a \in T, NEW list \in Seq(U),
           \A x \in T, y \in U : At(F, x, y) = parse_one_opt(x, y)
    PROVE  ParseAll(a, list) = Along(F, T, a, list)
<1> DEFINE P == SUBSET Places(list)
           Is(w) == w = [s \in P |-> IF s = {} THEN a
                                     ELSE parse_one_opt(w[s \ {Max(s)}], list[Max(s)])]
           v == CHOOSE w : Is(w)
<1>1. ParseAll(a, list) = v[Places(list)]
  BY ListPlaces DEF FoldLeft, MapThenFoldSet, ParseAll
<1>2. \A s \in P : s # {} => list[Max(s)] \in U /\ s \ {Max(s)} \in P
  BY LastPlace
<1>3. \A x \in T, y \in U : F[<<x, y>>] = parse_one_opt(x, y)
  BY DEF At
<1>4. PICK w : FoldsIn(F, T, a, list, w)
  BY FoldExists
<1>5. Is(w)
  BY <1>2, <1>3, <1>4 DEF FoldsIn, Folds
<1>6. Is(v)
  BY <1>5
<1> HIDE DEF v
<1>7. Folds(F, T, a, list, v)
  BY <1>2, <1>3, <1>6 DEF Folds
<1>8. v[Places(list)] = Along(F, T, a, list)
  BY <1>7, FoldAlong
<1> QED BY <1>1, <1>8

\* Nothing done for no element, and what one keeps all keep.
LEMMA ParseFold ==
    ASSUME NEW T, NEW U, \A x \in T, y \in U : parse_one_opt(x, y) \in T, NEW a \in T
    PROVE  /\ ParseAll(a, Nil) = a
           /\ \A list \in Seq(U) : ParseAll(a, list) \in T
<1> DEFINE F == [p \in T \X U |-> parse_one_opt(p[1], p[2])]
<1>1. Step(F, T, U) /\ \A x \in T, y \in U : At(F, x, y) = parse_one_opt(x, y)
  BY DEF Step, At
<1> HIDE DEF F
<1>2. \A list \in Seq(U) : ParseAll(a, list) = Along(F, T, a, list)
  BY <1>1, ParseAlong
<1> QED BY <1>1, <1>2, AlongRules

\* One element more.
LEMMA ParseAdd ==
    ASSUME NEW T, NEW U, \A x \in T, y \in U : parse_one_opt(x, y) \in T, NEW a \in T
    PROVE  \A list \in Seq(U), e \in U :
                ParseAll(a, Add(list, e)) = parse_one_opt(ParseAll(a, list), e)
<1> DEFINE F == [p \in T \X U |-> parse_one_opt(p[1], p[2])]
<1>1. Step(F, T, U) /\ \A x \in T, y \in U : At(F, x, y) = parse_one_opt(x, y)
  BY DEF Step, At
<1> HIDE DEF F
<1>2. \A list \in Seq(U) : ParseAll(a, list) = Along(F, T, a, list)
  BY <1>1, ParseAlong
<1> QED BY <1>1, <1>2, AlongRules

\* So does the file.
LEMMA ParseFileType ==
    ASSUME NEW c \in Configs, NEW lines \in Lines
    PROVE  parse_config_file(c, lines) \in Configs
<1> DEFINE U == Opt(OneText)
           opts == parser_traverser(lines)
<1>1. opts \in Seq(U)
  BY TraverserType
<1>2. \A x \in Configs, y \in U : parse_one_opt(x, y) \in Configs
  <2>1. U \subseteq Opt(Maybe(Texts))
    BY SomeText DEF Opt
  <2> HIDE DEF U
  <2> QED BY <2>1, ParseType
<1> HIDE DEF U, opts
<1>3. ParseAll(c, opts) \in Configs
  BY <1>1, <1>2, ParseFold
<1> QED BY <1>3 DEF ParseAll, parse_config_file, opts

\* The step of parse_cmdline_opts, its own there.
ParseWord(acc, opt) ==
    IF opt.key \in ModuleOptions /\ ~acc.reset
    THEN [cfg |-> parse_one_opt([acc.cfg EXCEPT !.modules = <<>>], opt), reset |-> TRUE]
    ELSE [acc EXCEPT !.cfg = parse_one_opt(@, opt)]
ParseWords(acc, opts) == FoldLeft(ParseWord, acc, opts)

\* ParseWord along a list of options.
LEMMA WordsAlong ==
    ASSUME NEW T, NEW U, NEW F, Step(F, T, U), NEW a \in T, NEW list \in Seq(U),
           \A x \in T, y \in U : At(F, x, y) = ParseWord(x, y)
    PROVE  ParseWords(a, list) = Along(F, T, a, list)
<1> DEFINE P == SUBSET Places(list)
           Is(w) == w = [s \in P |-> IF s = {} THEN a
                                     ELSE ParseWord(w[s \ {Max(s)}], list[Max(s)])]
           v == CHOOSE w : Is(w)
<1>1. ParseWords(a, list) = v[Places(list)]
  BY ListPlaces DEF FoldLeft, MapThenFoldSet, ParseWords
<1>2. \A s \in P : s # {} => list[Max(s)] \in U /\ s \ {Max(s)} \in P
  BY LastPlace
<1>3. \A x \in T, y \in U : F[<<x, y>>] = ParseWord(x, y)
  BY DEF At
<1>4. PICK w : FoldsIn(F, T, a, list, w)
  BY FoldExists
<1>5. Is(w)
  BY <1>2, <1>3, <1>4 DEF FoldsIn, Folds
<1>6. Is(v)
  BY <1>5
<1> HIDE DEF v
<1>7. Folds(F, T, a, list, v)
  BY <1>2, <1>3, <1>6 DEF Folds
<1>8. v[Places(list)] = Along(F, T, a, list)
  BY <1>7, FoldAlong
<1> QED BY <1>1, <1>8

\* Nothing done for no element, and what one keeps all keep.
LEMMA WordsFold ==
    ASSUME NEW T, NEW U, \A x \in T, y \in U : ParseWord(x, y) \in T, NEW a \in T
    PROVE  /\ ParseWords(a, Nil) = a
           /\ \A list \in Seq(U) : ParseWords(a, list) \in T
<1> DEFINE F == [p \in T \X U |-> ParseWord(p[1], p[2])]
<1>1. Step(F, T, U) /\ \A x \in T, y \in U : At(F, x, y) = ParseWord(x, y)
  BY DEF Step, At
<1> HIDE DEF F
<1>2. \A list \in Seq(U) : ParseWords(a, list) = Along(F, T, a, list)
  BY <1>1, WordsAlong
<1> QED BY <1>1, <1>2, AlongRules

\* One element more.
LEMMA WordsAdd ==
    ASSUME NEW T, NEW U, \A x \in T, y \in U : ParseWord(x, y) \in T, NEW a \in T
    PROVE  \A list \in Seq(U), e \in U :
                ParseWords(a, Add(list, e)) = ParseWord(ParseWords(a, list), e)
<1> DEFINE F == [p \in T \X U |-> ParseWord(p[1], p[2])]
<1>1. Step(F, T, U) /\ \A x \in T, y \in U : At(F, x, y) = ParseWord(x, y)
  BY DEF Step, At
<1> HIDE DEF F
<1>2. \A list \in Seq(U) : ParseWords(a, list) = Along(F, T, a, list)
  BY <1>1, WordsAlong
<1> QED BY <1>1, <1>2, AlongRules

Parsed == [cfg : Configs, reset : BOOLEAN]

\* So does a word of the command line.
LEMMA ParseWordType ==
    ASSUME NEW acc \in Parsed, NEW opt \in Opt(Maybe(Texts))
    PROVE  ParseWord(acc, opt) \in Parsed
<1>1. acc.cfg \in Configs /\ acc.reset \in BOOLEAN
  BY DEF Parsed
<1>2. \A x \in Configs : [x EXCEPT !.modules = <<>>] \in Configs
  <2> SUFFICES ASSUME NEW x \in Configs PROVE [x EXCEPT !.modules = <<>>] \in Configs
    OBVIOUS
  <2> DEFINE e == [x EXCEPT !.modules = <<>>]
  <2>1. x \in PROG_CONFIG
    BY DEF Configs
  <2>2. <<>> \in Seq(Texts)
    OBVIOUS
  <2>3. e \in PROG_CONFIG
    BY <2>1, <2>2 DEF PROG_CONFIG
  <2>4. e.text = x.text /\ e.num = x.num
    BY <2>1 DEF PROG_CONFIG
  <2> HIDE DEF e
  <2>5. e \in Configs
    BY <2>3, <2>4, SetOther
  <2> QED BY <2>5 DEF e
<1>3. \A x \in Configs : /\ [cfg |-> x, reset |-> TRUE] \in Parsed
                         /\ [acc EXCEPT !.cfg = x] \in Parsed
  BY DEF Parsed
<1>4. ASSUME opt.key \in ModuleOptions, ~acc.reset PROVE ParseWord(acc, opt) \in Parsed
  <2> DEFINE e == [acc.cfg EXCEPT !.modules = <<>>]
             d == parse_one_opt(e, opt)
  <2>1. d \in Configs
    <3>1. e \in Configs
      BY <1>1, <1>2
    <3> HIDE DEF e
    <3> QED BY <3>1, ParseType
  <2>2. ParseWord(acc, opt) = [cfg |-> d, reset |-> TRUE]
    BY <1>4 DEF ParseWord
  <2> HIDE DEF d
  <2> QED BY <1>3, <2>1, <2>2
<1>5. ASSUME ~(opt.key \in ModuleOptions /\ ~acc.reset) PROVE ParseWord(acc, opt) \in Parsed
  <2> DEFINE d == parse_one_opt(acc.cfg, opt)
  <2>1. d \in Configs
    BY <1>1, ParseType
  <2>2. ParseWord(acc, opt) = [acc EXCEPT !.cfg = d]
    BY <1>5 DEF ParseWord
  <2> HIDE DEF d
  <2> QED BY <1>3, <2>1, <2>2
<1> QED BY <1>4, <1>5

\* The options the program finds on a command line.
LEMMA GivenType ==
    ASSUME NEW words \in Seq(Words)
    PROVE  /\ getopt_long(words, MainArguments(words)).opts \in Seq(Opt(Maybe(Texts)))
           /\ getopt_long(words, MainArguments(words)).missing \in BOOLEAN
<1> DEFINE V == Maybe(Texts)
<1>1. OneText \subseteq V
  BY SomeText
<1>2. \A w \in ToSet(words) : w.glued \in V
  <2>1. \A w \in Words : w.glued \in V
    BY SomeText DEF Words, OneText
  <2> QED BY <2>1 DEF ToSet
<1> HIDE DEF V
<1> QED BY <1>1, <1>2, GetoptType DEF V

\* The command line keeps the configuration in range.
LEMMA ParseCmdlineType ==
    ASSUME NEW c \in Configs, NEW words \in Seq(Words)
    PROVE  parse_cmdline_opts(c, words).cfg \in Configs
<1> DEFINE opts == getopt_long(words, MainArguments(words)).opts
           U    == Opt(Maybe(Texts))
           a    == [cfg |-> c, reset |-> FALSE]
<1>1. opts \in Seq(U)
  BY GivenType
<1>2. parse_cmdline_opts(c, words).cfg = ParseWords(a, opts).cfg
  BY DEF parse_cmdline_opts, ParseWords, ParseWord
<1>3. a \in Parsed
  BY DEF Parsed
<1>4. \A x \in Parsed, y \in U : ParseWord(x, y) \in Parsed
  BY ParseWordType
<1> HIDE DEF opts, U, a
<1>5. ParseWords(a, opts) \in Parsed
  BY <1>1, <1>3, <1>4, WordsFold
<1> QED BY <1>2, <1>5 DEF Parsed

-----------------------------------------------------------------------------
(* One option of rjv3 *)

Privs == {p \in RJV3_PRIV : PrivFits(p)}

\* The property that the parts of an argument say.
RjProp(part) ==
    [type |-> char2hex(Cut(part[1], 2), 1),
     content |-> [i \in 1..((Len(Cut(part[2], MAX_PROP_LEN)) + 1) \div 2) |->
                        char2hex(part[2], 2 * i - 1)]]

\* char2hex gives a number.
LEMMA HexType ==
    ASSUME NEW text \in Texts, NEW at \in 1..Len(text)
    PROVE  char2hex(text, at) \in Nat
<1>1. Len(text) \in Nat /\ \A i \in 1..Len(text) : text[i] \in Nat
  BY DEF Texts
<1>2. CASE at = Len(text)
  BY <1>1, <1>2 DEF char2hex
<1>3. CASE at # Len(text)
  <2>1. at + 1 \in 1..Len(text)
    BY <1>1, <1>3
  <2>2. text[at] \in Nat /\ text[at + 1] \in Nat
    BY <1>1, <2>1
  <2>3. char2hex(text, at) = (16 * text[at] + text[at + 1]) % 256
    BY <1>3 DEF char2hex
  <2> DEFINE n == 16 * text[at] + text[at + 1]
  <2>4. n \in Nat
    BY <2>2
  <2> HIDE DEF n
  <2>5. n % 256 \in Nat
    BY <2>4
  <2> QED BY <2>3, <2>5 DEF n
<1> QED BY <1>2, <1>3

\* A property that an argument says is not longer than MAX_PROP_LEN.
LEMMA RjPropType ==
    ASSUME NEW part \in Seq(Texts \ {<<>>}), Len(part) >= 2
    PROVE  RjProp(part) \in RjProps
<1>1. part[1] \in Texts /\ part[1] # <<>> /\ part[2] \in Texts /\ part[2] # <<>>
  OBVIOUS
<1> DEFINE t == Cut(part[1], 2)
           v == part[2]
           d == Cut(v, MAX_PROP_LEN)
           n == (Len(d) + 1) \div 2
           content == [i \in 1..n |-> char2hex(v, 2 * i - 1)]
<1>2. char2hex(t, 1) \in Nat
  <2>1. part[1] \in Seq(Nat) /\ Len(part[1]) \in Nat /\ Len(part[1]) # 0
    BY <1>1 DEF Texts
  <2>2. t \in Seq(Nat) /\ Len(t) = IF Len(part[1]) < 2 THEN Len(part[1]) ELSE 2
    BY <2>1, CutType
  <2> HIDE DEF t
  <2>3. 1 \in 1..Len(t) /\ t \in Texts
    BY <2>1, <2>2 DEF Texts
  <2> QED BY <2>3, HexType
<1>3. Len(d) \in Nat /\ Len(d) <= Len(v) /\ Len(d) <= 200 /\ Len(v) \in Nat
  <2>1. v \in Seq(Nat)
    BY <1>1 DEF Texts
  <2>2. Len(v) \in Nat
    BY <2>1
  <2>3. MAX_PROP_LEN = 200
    BY DEF MAX_PROP_LEN
  <2> HIDE DEF v
  <2>4. Len(Cut(v, 200)) \in Nat /\ Len(Cut(v, 200)) = IF Len(v) < 200 THEN Len(v) ELSE 200
    <3>1. Cut(v, 200) = SubSeq(v, 1, IF Len(v) < 200 THEN Len(v) ELSE 200)
      BY DEF Cut
    <3>2. CASE Len(v) < 200
      <4>1. Cut(v, 200) = SubSeq(v, 1, Len(v))
        BY <3>1, <3>2
      <4> QED BY <2>1, <2>2, <3>2, <4>1
    <3>3. CASE ~(Len(v) < 200)
      <4>1. Cut(v, 200) = SubSeq(v, 1, 200)
        BY <3>1, <3>3
      <4> QED BY <2>1, <2>2, <3>3, <4>1
    <3> QED BY <3>2, <3>3
  <2>5. d = Cut(v, 200)
    BY <2>3
  <2> HIDE DEF d
  <2>6. Len(d) = IF Len(v) < 200 THEN Len(v) ELSE 200
    BY <2>4, <2>5
  <2> QED BY <2>2, <2>6
<1> HIDE DEF d
<1>4. n \in Nat /\ 2 * n <= Len(d) + 1 /\ n <= 100
  BY <1>3
<1> HIDE DEF n
<1>5. \A i \in 1..n : char2hex(v, 2 * i - 1) \in Nat
  <2> SUFFICES ASSUME NEW i \in 1..n PROVE char2hex(v, 2 * i - 1) \in Nat
    OBVIOUS
  <2>1. 2 * i - 1 \in 1..Len(v)
    BY <1>3, <1>4
  <2>2. v \in Texts
    BY <1>1
  <2> HIDE DEF v
  <2> QED BY <2>1, <2>2, HexType
<1>6. content \in Seq(Nat) /\ Len(content) = n
  BY <1>4, <1>5
<1>7. RjProp(part) = [type |-> char2hex(t, 1), content |-> content]
  BY DEF RjProp, n, d
<1> HIDE DEF content, t
<1> QED BY <1>2, <1>4, <1>6, <1>7 DEF RjProps, Texts, MAX_PROP_LEN

Added(p, field, prop) == [p EXCEPT ![field] = Append(@, prop)]

\* append_rj_cmdline_opt adds the property to one of the two lists, or refuses.
LEMMA AppendCases ==
    ASSUME NEW p, NEW arg
    PROVE  LET part == Tokens(arg)
               a    == append_rj_cmdline_opt(p, arg)
           IN  \/ Len(part) < 2 /\ a = [ok |-> FALSE, priv |-> p]
               \/ /\ ~(Len(part) < 2)
                  /\ a = [ok |-> TRUE, priv |-> [p EXCEPT !.mods = Append(@, RjProp(part))]]
               \/ /\ ~(Len(part) < 2)
                  /\ a = [ok |-> TRUE, priv |-> [p EXCEPT !.props = Append(@, RjProp(part))]]
BY DEF append_rj_cmdline_opt, RjProp

\* The lists of properties have no range of their own.
LEMMA RjOther ==
    ASSUME NEW p \in Privs, NEW q \in RJV3_PRIV, q.text = p.text, q.num = p.num
    PROVE  q \in Privs
BY DEF Privs, PrivFits

Answers == [ok : BOOLEAN, priv : Privs]

\* append_rj_cmdline_opt keeps the options of rjv3 in range.
LEMMA AppendType ==
    ASSUME NEW p \in Privs, NEW arg \in Texts
    PROVE  append_rj_cmdline_opt(p, arg) \in Answers
<1> DEFINE part == Tokens(arg)
           prop == RjProp(part)
           m == [p EXCEPT !.mods = Append(@, prop)]
           o == [p EXCEPT !.props = Append(@, prop)]
           a == append_rj_cmdline_opt(p, arg)
<1>1. \/ Len(part) < 2 /\ a = [ok |-> FALSE, priv |-> p]
      \/ ~(Len(part) < 2) /\ a = [ok |-> TRUE, priv |-> m]
      \/ ~(Len(part) < 2) /\ a = [ok |-> TRUE, priv |-> o]
  BY AppendCases
<1>2. part \in Seq(Texts \ {<<>>})
  BY TokensType
<1> HIDE DEF part, a
<1>3. Len(part) \in Nat
  BY <1>2
<1>4. ASSUME ~(Len(part) < 2) PROVE m \in Privs /\ o \in Privs
  <2>1. prop \in RjProps
    BY <1>2, <1>3, <1>4, RjPropType
  <2> HIDE DEF prop
  <2>2. p \in RJV3_PRIV
    BY DEF Privs
  <2>3. Append(p.mods, prop) \in Seq(RjProps) /\ Append(p.props, prop) \in Seq(RjProps)
    BY <2>1, <2>2 DEF RJV3_PRIV
  <2>4. m \in RJV3_PRIV /\ m.text = p.text /\ m.num = p.num
    BY <2>2, <2>3 DEF RJV3_PRIV
  <2>5. o \in RJV3_PRIV /\ o.text = p.text /\ o.num = p.num
    BY <2>2, <2>3 DEF RJV3_PRIV
  <2> HIDE DEF m, o
  <2> QED BY <2>4, <2>5, RjOther
<1> HIDE DEF m, o
<1>5. \A x \in Privs, y \in BOOLEAN : [ok |-> y, priv |-> x] \in Answers
  BY DEF Answers
<1> QED BY <1>1, <1>4, <1>5 DEF a

RjNumberOf(o, arg) == CASE o = "eap-bcast-addr" -> CMod(atoi(arg), 2)
                        [] o = "dhcp-type" -> CMod(atoi(arg), 4)
                        [] OTHER -> atoi(arg)
SetRjNumber(p, o, n) == [p EXCEPT !.num[o] = n]
SetRjText(p, o, t)   == [p EXCEPT !.text[o] = Some(t)]

\* What one option does to the options of rjv3.
LEMMA RjCases ==
    ASSUME NEW p, NEW opt
    PROVE  LET arg == opt.value[1]
               a   == rjv3_parse_one_opt(p, opt)
           IN  /\ opt.key = "rj-option" => a = append_rj_cmdline_opt(p, arg)
               /\ opt.key \in RjNumOptions =>
                    a = [ok |-> TRUE, priv |-> SetRjNumber(p, opt.key, RjNumberOf(opt.key, arg))]
               /\ opt.key \in RjTextOptions =>
                    a = [ok |-> TRUE, priv |-> SetRjText(p, opt.key, Cut(arg, RjMaxLen(opt.key)))]
               /\ opt.key \notin RjNumOptions \cup RjTextOptions \cup {"rj-option"} =>
                    a = [ok |-> TRUE, priv |-> p]
<1> DEFINE arg == opt.value[1]
           a   == rjv3_parse_one_opt(p, opt)
<1>1. CASE opt.key = "rj-option"
  BY <1>1 DEF rjv3_parse_one_opt, RjNumOptions, RjTextOptions
<1>2. CASE opt.key \in RjNumOptions
  BY <1>2 DEF rjv3_parse_one_opt, RjNumOptions, RjTextOptions, SetRjNumber, RjNumberOf
<1>3. CASE opt.key \in RjTextOptions
  BY <1>3 DEF rjv3_parse_one_opt, RjNumOptions, RjTextOptions, SetRjText
<1>4. CASE opt.key \notin RjNumOptions \cup RjTextOptions \cup {"rj-option"}
  BY <1>4 DEF rjv3_parse_one_opt, RjNumOptions, RjTextOptions
<1> HIDE DEF a
<1> QED BY <1>1, <1>2, <1>3, <1>4 DEF a, RjNumOptions, RjTextOptions

\* Every buffer of rjv3 has a length.
LEMMA RjMaxLens ==
    \A o \in RjTextOptions : RjMaxLen(o) \in Nat
BY DEF RjTextOptions, RjMaxLen, MAX_PROP_LEN

\* A text that is set fits its buffer.
LEMMA SetRjTextType ==
    ASSUME NEW p \in Privs, NEW o \in RjTextOptions, NEW text \in Texts
    PROVE  SetRjText(p, o, Cut(text, RjMaxLen(o))) \in Privs
<1> DEFINE d == SetRjText(p, o, Cut(text, RjMaxLen(o)))
           v == Some(Cut(text, RjMaxLen(o)))
           texts == [p.text EXCEPT ![o] = v]
<1>1. p \in RJV3_PRIV /\ PrivFits(p)
  BY DEF Privs
<1>2. v \in Maybe(Texts) /\ Len(v[1]) <= RjMaxLen(o) /\ v # None
  <2> DEFINE t == Cut(text, RjMaxLen(o))
  <2>0. RjMaxLen(o) \in Nat /\ text \in Seq(Nat) /\ Len(text) \in Nat
    BY RjMaxLens DEF Texts
  <2>1. t \in Texts /\ Len(t) <= RjMaxLen(o)
    <3>1. t \in Seq(Nat) /\ Len(t) = IF Len(text) < RjMaxLen(o) THEN Len(text) ELSE RjMaxLen(o)
      BY <2>0, CutType
    <3> HIDE DEF t
    <3> QED BY <2>0, <3>1 DEF Texts
  <2> HIDE DEF t
  <2>2. Some(t) \in OneText /\ Some(t)[1] = t /\ Some(t) # None
    BY <2>1, SomeText
  <2> QED BY <2>1, <2>2, SomeText DEF t
<1>3. p.text \in [RjTextOptions -> Maybe(Texts)]
  BY <1>1 DEF RJV3_PRIV
<1>4. d = [p EXCEPT !.text = texts]
  BY <1>1 DEF RJV3_PRIV, SetRjText
<1> HIDE DEF v
<1>5. texts \in [RjTextOptions -> Maybe(Texts)]
  BY <1>2, <1>3
<1>6. \A n \in RjTextOptions : texts[n] # None => Len(texts[n][1]) <= RjMaxLen(n)
  BY <1>1, <1>2, <1>3 DEF PrivFits
<1> HIDE DEF texts, d
<1>7. d \in RJV3_PRIV /\ d.text = texts /\ d.num = p.num
  BY <1>1, <1>4, <1>5 DEF RJV3_PRIV
<1> QED BY <1>1, <1>6, <1>7 DEF PrivFits, Privs, d

\* A number that is set is a number.
LEMMA SetRjNumberType ==
    ASSUME NEW p \in Privs, NEW o \in RjNumOptions, NEW arg \in Texts
    PROVE  SetRjNumber(p, o, RjNumberOf(o, arg)) \in Privs
<1> DEFINE n == RjNumberOf(o, arg)
           d == SetRjNumber(p, o, n)
           nums == [p.num EXCEPT ![o] = n]
<1>1. p \in RJV3_PRIV /\ PrivFits(p)
  BY DEF Privs
<1>2. n \in Int
  <2>1. atoi(arg) \in Int
    BY AtoiType
  <2>2. CMod(atoi(arg), 4) \in Int /\ CMod(atoi(arg), 2) \in Int
    BY <2>1, RemainderType
  <2> QED BY <2>1, <2>2 DEF RjNumberOf
<1> HIDE DEF n
<1>3. p.num \in [RjNumOptions -> Int]
  BY <1>1 DEF RJV3_PRIV
<1>4. nums \in [RjNumOptions -> Int]
  BY <1>2, <1>3
<1>6. d = [p EXCEPT !.num = nums]
  BY <1>1 DEF RJV3_PRIV, SetRjNumber
<1> HIDE DEF nums, d
<1>7. d \in RJV3_PRIV /\ d.text = p.text
  BY <1>1, <1>4, <1>6 DEF RJV3_PRIV
<1> QED BY <1>1, <1>7 DEF PrivFits, Privs, d, n

\* rjv3_parse_one_opt keeps the options of rjv3 in range.
LEMMA RjParseType ==
    ASSUME NEW p \in Privs, NEW opt \in Opt(OneText)
    PROVE  rjv3_parse_one_opt(p, opt) \in Answers
<1> DEFINE arg == opt.value[1]
           a   == rjv3_parse_one_opt(p, opt)
<1>1. arg \in Texts
  BY SomeText DEF Opt
<1>2. \A x \in Privs : [ok |-> TRUE, priv |-> x] \in Answers
  BY DEF Answers
<1>3. CASE opt.key = "rj-option"
  BY <1>1, <1>3, RjCases, AppendType
<1>4. CASE opt.key \in RjNumOptions
  BY <1>1, <1>2, <1>4, RjCases, SetRjNumberType
<1>5. CASE opt.key \in RjTextOptions
  BY <1>1, <1>2, <1>5, RjCases, SetRjTextType
<1>6. CASE opt.key \notin RjNumOptions \cup RjTextOptions \cup {"rj-option"}
  BY <1>2, <1>6, RjCases
<1> QED BY <1>3, <1>4, <1>5, <1>6

-----------------------------------------------------------------------------
(* rjv3's options, and the hooks of the plugins *)

RjParseAll(p, opts) == FoldLeft(LAMBDA q, pair : rjv3_parse_one_opt(q, pair).priv, p, opts)

\* rjv3_parse_one_opt along the options of a file.
LEMMA RjParseAlong ==
    ASSUME NEW T, NEW U, NEW F, Step(F, T, U), NEW a \in T, NEW list \in Seq(U),
           \A x \in T, y \in U : At(F, x, y) = rjv3_parse_one_opt(x, y).priv
    PROVE  RjParseAll(a, list) = Along(F, T, a, list)
<1> DEFINE P == SUBSET Places(list)
           Is(w) == w = [s \in P |-> IF s = {} THEN a
                                     ELSE rjv3_parse_one_opt(w[s \ {Max(s)}], list[Max(s)]).priv]
           v == CHOOSE w : Is(w)
<1>1. RjParseAll(a, list) = v[Places(list)]
  BY ListPlaces DEF FoldLeft, MapThenFoldSet, RjParseAll
<1>2. \A s \in P : s # {} => list[Max(s)] \in U /\ s \ {Max(s)} \in P
  BY LastPlace
<1>3. \A x \in T, y \in U : F[<<x, y>>] = rjv3_parse_one_opt(x, y).priv
  BY DEF At
<1>4. PICK w : FoldsIn(F, T, a, list, w)
  BY FoldExists
<1>5. Is(w)
  BY <1>2, <1>3, <1>4 DEF FoldsIn, Folds
<1>6. Is(v)
  BY <1>5
<1> HIDE DEF v
<1>7. Folds(F, T, a, list, v)
  BY <1>2, <1>3, <1>6 DEF Folds
<1>8. v[Places(list)] = Along(F, T, a, list)
  BY <1>7, FoldAlong
<1> QED BY <1>1, <1>8

\* Nothing done for no element, and what one keeps all keep.
LEMMA RjParseFold ==
    ASSUME NEW T, NEW U, \A x \in T, y \in U : rjv3_parse_one_opt(x, y).priv \in T, NEW a \in T
    PROVE  /\ RjParseAll(a, Nil) = a
           /\ \A list \in Seq(U) : RjParseAll(a, list) \in T
<1> DEFINE F == [p \in T \X U |-> rjv3_parse_one_opt(p[1], p[2]).priv]
<1>1. Step(F, T, U) /\ \A x \in T, y \in U : At(F, x, y) = rjv3_parse_one_opt(x, y).priv
  BY DEF Step, At
<1> HIDE DEF F
<1>2. \A list \in Seq(U) : RjParseAll(a, list) = Along(F, T, a, list)
  BY <1>1, RjParseAlong
<1> QED BY <1>1, <1>2, AlongRules

\* One element more.
LEMMA RjParseAdd ==
    ASSUME NEW T, NEW U, \A x \in T, y \in U : rjv3_parse_one_opt(x, y).priv \in T, NEW a \in T
    PROVE  \A list \in Seq(U), e \in U :
                RjParseAll(a, Add(list, e)) = rjv3_parse_one_opt(RjParseAll(a, list), e).priv
<1> DEFINE F == [p \in T \X U |-> rjv3_parse_one_opt(p[1], p[2]).priv]
<1>1. Step(F, T, U) /\ \A x \in T, y \in U : At(F, x, y) = rjv3_parse_one_opt(x, y).priv
  BY DEF Step, At
<1> HIDE DEF F
<1>2. \A list \in Seq(U) : RjParseAll(a, list) = Along(F, T, a, list)
  BY <1>1, RjParseAlong
<1> QED BY <1>1, <1>2, AlongRules

\* So does the file.
LEMMA RjFileType ==
    ASSUME NEW p \in Privs, NEW lines \in Lines
    PROVE  /\ rjv3_process_config_file(p, lines) = RjParseAll(p, parser_traverser(lines))
           /\ rjv3_process_config_file(p, lines) \in Privs
<1> DEFINE U == Opt(OneText)
           opts == parser_traverser(lines)
<1>1. opts \in Seq(U)
  BY TraverserType
<1>2. \A x \in Privs, y \in U : rjv3_parse_one_opt(x, y).priv \in Privs
  BY RjParseType DEF Answers
<1>3. rjv3_process_config_file(p, lines) = RjParseAll(p, opts)
  BY DEF rjv3_process_config_file, RjParseAll
<1> HIDE DEF U, opts
<1>4. RjParseAll(p, opts) \in Privs
  BY <1>1, <1>2, RjParseFold
<1> QED BY <1>3, <1>4 DEF opts

RjWord(acc, opt) == IF acc.ok THEN rjv3_parse_one_opt(acc.priv, opt) ELSE acc
RjWords(acc, opts) == FoldLeft(RjWord, acc, opts)

\* The step of rjv3_process_cmdline_opts along a list of options.
LEMMA RjWordsAlong ==
    ASSUME NEW T, NEW U, NEW F, Step(F, T, U), NEW a \in T, NEW list \in Seq(U),
           \A x \in T, y \in U : At(F, x, y) = RjWord(x, y)
    PROVE  RjWords(a, list) = Along(F, T, a, list)
<1> DEFINE P == SUBSET Places(list)
           Is(w) == w = [s \in P |-> IF s = {} THEN a
                                     ELSE RjWord(w[s \ {Max(s)}], list[Max(s)])]
           v == CHOOSE w : Is(w)
<1>1. RjWords(a, list) = v[Places(list)]
  BY ListPlaces DEF FoldLeft, MapThenFoldSet, RjWords
<1>2. \A s \in P : s # {} => list[Max(s)] \in U /\ s \ {Max(s)} \in P
  BY LastPlace
<1>3. \A x \in T, y \in U : F[<<x, y>>] = RjWord(x, y)
  BY DEF At
<1>4. PICK w : FoldsIn(F, T, a, list, w)
  BY FoldExists
<1>5. Is(w)
  BY <1>2, <1>3, <1>4 DEF FoldsIn, Folds
<1>6. Is(v)
  BY <1>5
<1> HIDE DEF v
<1>7. Folds(F, T, a, list, v)
  BY <1>2, <1>3, <1>6 DEF Folds
<1>8. v[Places(list)] = Along(F, T, a, list)
  BY <1>7, FoldAlong
<1> QED BY <1>1, <1>8

\* Nothing done for no element, and what one keeps all keep.
LEMMA RjWordsFold ==
    ASSUME NEW T, NEW U, \A x \in T, y \in U : RjWord(x, y) \in T, NEW a \in T
    PROVE  /\ RjWords(a, Nil) = a
           /\ \A list \in Seq(U) : RjWords(a, list) \in T
<1> DEFINE F == [p \in T \X U |-> RjWord(p[1], p[2])]
<1>1. Step(F, T, U) /\ \A x \in T, y \in U : At(F, x, y) = RjWord(x, y)
  BY DEF Step, At
<1> HIDE DEF F
<1>2. \A list \in Seq(U) : RjWords(a, list) = Along(F, T, a, list)
  BY <1>1, RjWordsAlong
<1> QED BY <1>1, <1>2, AlongRules

\* One element more.
LEMMA RjWordsAdd ==
    ASSUME NEW T, NEW U, \A x \in T, y \in U : RjWord(x, y) \in T, NEW a \in T
    PROVE  \A list \in Seq(U), e \in U :
                RjWords(a, Add(list, e)) = RjWord(RjWords(a, list), e)
<1> DEFINE F == [p \in T \X U |-> RjWord(p[1], p[2])]
<1>1. Step(F, T, U) /\ \A x \in T, y \in U : At(F, x, y) = RjWord(x, y)
  BY DEF Step, At
<1> HIDE DEF F
<1>2. \A list \in Seq(U) : RjWords(a, list) = Along(F, T, a, list)
  BY <1>1, RjWordsAlong
<1> QED BY <1>1, <1>2, AlongRules

\* So does a word of the command line.
LEMMA RjWordType ==
    ASSUME NEW acc \in Answers, NEW opt \in Opt(OneText)
    PROVE  RjWord(acc, opt) \in Answers
BY RjParseType DEF RjWord, Answers

\* The options rjv3 finds on a command line all have a value.
LEMMA RjGivenType ==
    ASSUME NEW words \in Seq(Words)
    PROVE  /\ getopt_long(words, RjArguments(words)).opts \in Seq(Opt(OneText))
           /\ getopt_long(words, RjArguments(words)).missing \in BOOLEAN
<1> DEFINE V == OneText
           a == RjArguments(words)
<1>1. \A w \in ToSet(words) : a[w] \in {"required", "unknown"} \/ w.glued \in V
  BY DEF RjArguments, RjArgument
<1>2. OneText \subseteq V
  OBVIOUS
<1> HIDE DEF a
<1>3. getopt_long(words, a).opts \in Seq(Opt(V)) /\ getopt_long(words, a).missing \in BOOLEAN
  BY <1>1, <1>2, GetoptType
<1> QED BY <1>3 DEF a

\* The command line keeps the options of rjv3 in range.
LEMMA RjCmdlineType ==
    ASSUME NEW p \in Privs, NEW words \in Seq(Words)
    PROVE  LET got == getopt_long(words, RjArguments(words))
               end == RjWords([ok |-> TRUE, priv |-> p], got.opts)
           IN  /\ rjv3_process_cmdline_opts(p, words) = [end EXCEPT !.ok = @ /\ ~got.missing]
               /\ end \in Answers
               /\ rjv3_process_cmdline_opts(p, words) \in Answers
<1> DEFINE got == getopt_long(words, RjArguments(words))
           a == [ok |-> TRUE, priv |-> p]
           opts == got.opts
           end == RjWords(a, opts)
           U == Opt(OneText)
<1>1. rjv3_process_cmdline_opts(p, words) = [end EXCEPT !.ok = @ /\ ~got.missing]
  BY DEF rjv3_process_cmdline_opts, RjWords, RjWord
<1>2. opts \in Seq(U) /\ got.missing \in BOOLEAN
  BY RjGivenType
<1>3. a \in Answers
  BY DEF Answers
<1>4. \A x \in Answers, y \in U : RjWord(x, y) \in Answers
  BY RjWordType
<1>5. end \in Answers
  <2> HIDE DEF opts, U, a
  <2> QED BY <1>2, <1>3, <1>4, RjWordsFold
<1> HIDE DEF end
<1>6. [end EXCEPT !.ok = @ /\ ~got.missing] \in Answers
  BY <1>2, <1>5 DEF Answers
<1> QED BY <1>1, <1>5, <1>6 DEF end

PluginFile(lines, q, name) == IF name = Rjv3 THEN rjv3_process_config_file(q, lines) ELSE q
PluginFiles(lines, p, names) == FoldLeft(LAMBDA q, name : PluginFile(lines, q, name), p, names)

\* The plugins read the file, one after another.
LEMMA PluginFilesAlong ==
    ASSUME NEW lines, NEW T, NEW U, NEW F, Step(F, T, U), NEW a \in T, NEW list \in Seq(U),
           \A x \in T, y \in U : At(F, x, y) = PluginFile(lines, x, y)
    PROVE  PluginFiles(lines, a, list) = Along(F, T, a, list)
<1> DEFINE P == SUBSET Places(list)
           Is(w) == w = [s \in P |-> IF s = {} THEN a
                                     ELSE PluginFile(lines, w[s \ {Max(s)}], list[Max(s)])]
           v == CHOOSE w : Is(w)
<1>1. PluginFiles(lines, a, list) = v[Places(list)]
  BY ListPlaces DEF FoldLeft, MapThenFoldSet, PluginFiles
<1>2. \A s \in P : s # {} => list[Max(s)] \in U /\ s \ {Max(s)} \in P
  BY LastPlace
<1>3. \A x \in T, y \in U : F[<<x, y>>] = PluginFile(lines, x, y)
  BY DEF At
<1>4. PICK w : FoldsIn(F, T, a, list, w)
  BY FoldExists
<1>5. Is(w)
  BY <1>2, <1>3, <1>4 DEF FoldsIn, Folds
<1>6. Is(v)
  BY <1>5
<1> HIDE DEF v
<1>7. Folds(F, T, a, list, v)
  BY <1>2, <1>3, <1>6 DEF Folds
<1>8. v[Places(list)] = Along(F, T, a, list)
  BY <1>7, FoldAlong
<1> QED BY <1>1, <1>8

\* Nothing done for no element, and what one keeps all keep.
LEMMA PluginFilesFold ==
    ASSUME NEW lines, NEW T, NEW U, \A x \in T, y \in U : PluginFile(lines, x, y) \in T, NEW a \in T
    PROVE  /\ PluginFiles(lines, a, Nil) = a
           /\ \A list \in Seq(U) : PluginFiles(lines, a, list) \in T
<1> DEFINE F == [p \in T \X U |-> PluginFile(lines, p[1], p[2])]
<1>1. Step(F, T, U) /\ \A x \in T, y \in U : At(F, x, y) = PluginFile(lines, x, y)
  BY DEF Step, At
<1> HIDE DEF F
<1>2. \A list \in Seq(U) : PluginFiles(lines, a, list) = Along(F, T, a, list)
  BY <1>1, PluginFilesAlong
<1> QED BY <1>1, <1>2, AlongRules

\* One element more.
LEMMA PluginFilesAdd ==
    ASSUME NEW lines, NEW T, NEW U, \A x \in T, y \in U : PluginFile(lines, x, y) \in T, NEW a \in T
    PROVE  \A list \in Seq(U), e \in U :
                PluginFiles(lines, a, Add(list, e)) = PluginFile(lines, PluginFiles(lines, a, list), e)
<1> DEFINE F == [p \in T \X U |-> PluginFile(lines, p[1], p[2])]
<1>1. Step(F, T, U) /\ \A x \in T, y \in U : At(F, x, y) = PluginFile(lines, x, y)
  BY DEF Step, At
<1> HIDE DEF F
<1>2. \A list \in Seq(U) : PluginFiles(lines, a, list) = Along(F, T, a, list)
  BY <1>1, PluginFilesAlong
<1> QED BY <1>1, <1>2, AlongRules

\* So do the plugins, however often rjv3 is among them.
LEMMA PluginFilesType ==
    ASSUME NEW lines \in Lines, NEW p \in Privs, NEW names \in Seq(Texts)
    PROVE  PluginFiles(lines, p, names) \in Privs
<1>1. \A x \in Privs, y \in Texts : PluginFile(lines, x, y) \in Privs
  BY RjFileType DEF PluginFile
<1> QED BY <1>1, PluginFilesFold

PluginWord(words, acc, name) ==
    IF name = Rjv3 /\ acc.ok THEN rjv3_process_cmdline_opts(acc.priv, words) ELSE acc
PluginWords(words, acc, names) == FoldLeft(LAMBDA a, name : PluginWord(words, a, name), acc, names)

\* The plugins read the command line, one after another.
LEMMA PluginWordsAlong ==
    ASSUME NEW words, NEW T, NEW U, NEW F, Step(F, T, U), NEW a \in T, NEW list \in Seq(U),
           \A x \in T, y \in U : At(F, x, y) = PluginWord(words, x, y)
    PROVE  PluginWords(words, a, list) = Along(F, T, a, list)
<1> DEFINE P == SUBSET Places(list)
           Is(w) == w = [s \in P |-> IF s = {} THEN a
                                     ELSE PluginWord(words, w[s \ {Max(s)}], list[Max(s)])]
           v == CHOOSE w : Is(w)
<1>1. PluginWords(words, a, list) = v[Places(list)]
  BY ListPlaces DEF FoldLeft, MapThenFoldSet, PluginWords
<1>2. \A s \in P : s # {} => list[Max(s)] \in U /\ s \ {Max(s)} \in P
  BY LastPlace
<1>3. \A x \in T, y \in U : F[<<x, y>>] = PluginWord(words, x, y)
  BY DEF At
<1>4. PICK w : FoldsIn(F, T, a, list, w)
  BY FoldExists
<1>5. Is(w)
  BY <1>2, <1>3, <1>4 DEF FoldsIn, Folds
<1>6. Is(v)
  BY <1>5
<1> HIDE DEF v
<1>7. Folds(F, T, a, list, v)
  BY <1>2, <1>3, <1>6 DEF Folds
<1>8. v[Places(list)] = Along(F, T, a, list)
  BY <1>7, FoldAlong
<1> QED BY <1>1, <1>8

\* Nothing done for no element, and what one keeps all keep.
LEMMA PluginWordsFold ==
    ASSUME NEW words, NEW T, NEW U, \A x \in T, y \in U : PluginWord(words, x, y) \in T, NEW a \in T
    PROVE  /\ PluginWords(words, a, Nil) = a
           /\ \A list \in Seq(U) : PluginWords(words, a, list) \in T
<1> DEFINE F == [p \in T \X U |-> PluginWord(words, p[1], p[2])]
<1>1. Step(F, T, U) /\ \A x \in T, y \in U : At(F, x, y) = PluginWord(words, x, y)
  BY DEF Step, At
<1> HIDE DEF F
<1>2. \A list \in Seq(U) : PluginWords(words, a, list) = Along(F, T, a, list)
  BY <1>1, PluginWordsAlong
<1> QED BY <1>1, <1>2, AlongRules

\* One element more.
LEMMA PluginWordsAdd ==
    ASSUME NEW words, NEW T, NEW U, \A x \in T, y \in U : PluginWord(words, x, y) \in T, NEW a \in T
    PROVE  \A list \in Seq(U), e \in U :
                PluginWords(words, a, Add(list, e)) = PluginWord(words, PluginWords(words, a, list), e)
<1> DEFINE F == [p \in T \X U |-> PluginWord(words, p[1], p[2])]
<1>1. Step(F, T, U) /\ \A x \in T, y \in U : At(F, x, y) = PluginWord(words, x, y)
  BY DEF Step, At
<1> HIDE DEF F
<1>2. \A list \in Seq(U) : PluginWords(words, a, list) = Along(F, T, a, list)
  BY <1>1, PluginWordsAlong
<1> QED BY <1>1, <1>2, AlongRules

\* And on the command line.
LEMMA PluginWordsType ==
    ASSUME NEW words \in Seq(Words), NEW acc \in Answers, NEW names \in Seq(Texts)
    PROVE  PluginWords(words, acc, names) \in Answers
<1>1. ASSUME NEW x \in Answers, NEW y \in Texts PROVE PluginWord(words, x, y) \in Answers
  <2>1. x.priv \in Privs
    BY DEF Answers
  <2> QED BY <2>1, RjCmdlineType DEF PluginWord
<1> QED BY <1>1, PluginWordsFold

-----------------------------------------------------------------------------
(* What a save writes, and the defaults *)

\* Two digits of a byte, and the text of a property.
LEMMA HexDigits == \A n \in Nat : hex2char(n) \in Texts
<1> SUFFICES ASSUME NEW n \in Nat PROVE hex2char(n) \in Texts
  OBVIOUS
<1>1. n \div 16 \in Nat /\ n % 16 \in Nat
  OBVIOUS
<1> QED BY <1>1 DEF hex2char, Texts

\* A property is written as a text.
LEMMA SavedProp ==
    ASSUME NEW prop \in RjProps, NEW is_mod
    PROVE  rjv3_save_one_prop(prop, is_mod) \in Texts
<1> DEFINE content == prop.content
           m == [i \in DOMAIN content |-> hex2char(content[i])]
           V == Texts
<1>1. prop.type \in Nat /\ content \in Seq(Nat)
  BY DEF RjProps, Texts
<1> HIDE DEF content
<1>2. m \in Seq(V)
  <2>1. m = [i \in DOMAIN content |-> m[i]]
    OBVIOUS
  <2>2. \A i \in DOMAIN content : m[i] \in V
    BY <1>1, HexDigits
  <2> HIDE DEF m, V
  <2> QED BY <1>1, <2>1, <2>2, MapType
<1> DEFINE f == FlattenSeq(m)
           mark == IF is_mod THEN <<Colon, R>> ELSE <<>>
<1>3. f \in Texts
  <2>1. m \in Seq(Seq(Nat))
    BY <1>2 DEF Texts
  <2> HIDE DEF m
  <2>2. f \in Seq(Nat)
    BY <2>1, FlattenRules
  <2> QED BY <2>2 DEF Texts
<1>4. mark \in Texts /\ <<Colon>> \in Texts
  BY DEF Texts, Colon, R
<1>5. hex2char(prop.type) \in Texts
  BY <1>1, HexDigits
<1>6. rjv3_save_one_prop(prop, is_mod) = hex2char(prop.type) \o <<Colon>> \o f \o mark
  BY DEF rjv3_save_one_prop, content
<1> HIDE DEF f, mark
<1> QED BY <1>3, <1>4, <1>5, <1>6 DEF Texts

\* One line more is a line.
LEMMA AddValueType ==
    ASSUME NEW list \in Lines, NEW key \in Names, NEW value \in Maybe(Texts)
    PROVE  conf_parser_add_value(list, key, value) \in Lines
<1>1. CASE value = None
  BY <1>1 DEF conf_parser_add_value
<1>2. CASE value # None
  <2>1. value[1] \in Texts
    BY <1>2, SomeText
  <2> DEFINE pair == [key |-> key, value |-> value[1]]
  <2>2. pair \in Pair
    BY <2>1 DEF Pair
  <2>3. conf_parser_add_value(list, key, value) = Append(list, pair)
    BY <1>2 DEF conf_parser_add_value
  <2> HIDE DEF pair
  <2> QED BY <2>2, <2>3 DEF Lines, Pair
<1> QED BY <1>1, <1>2

\* One key with a list of values.
LEMMA AddAllAlong ==
    ASSUME NEW key, NEW T, NEW U, NEW F, Step(F, T, U), NEW a \in T, NEW list \in Seq(U),
           \A x \in T, y \in U : At(F, x, y) = conf_parser_add_value(x, key, Some(y))
    PROVE  AddAll(a, key, list) = Along(F, T, a, list)
<1> DEFINE P == SUBSET Places(list)
           Is(w) == w = [s \in P |-> IF s = {} THEN a
                                     ELSE conf_parser_add_value(w[s \ {Max(s)}], key, Some(list[Max(s)]))]
           v == CHOOSE w : Is(w)
<1>1. AddAll(a, key, list) = v[Places(list)]
  BY ListPlaces DEF FoldLeft, MapThenFoldSet, AddAll
<1>2. \A s \in P : s # {} => list[Max(s)] \in U /\ s \ {Max(s)} \in P
  BY LastPlace
<1>3. \A x \in T, y \in U : F[<<x, y>>] = conf_parser_add_value(x, key, Some(y))
  BY DEF At
<1>4. PICK w : FoldsIn(F, T, a, list, w)
  BY FoldExists
<1>5. Is(w)
  BY <1>2, <1>3, <1>4 DEF FoldsIn, Folds
<1>6. Is(v)
  BY <1>5
<1> HIDE DEF v
<1>7. Folds(F, T, a, list, v)
  BY <1>2, <1>3, <1>6 DEF Folds
<1>8. v[Places(list)] = Along(F, T, a, list)
  BY <1>7, FoldAlong
<1> QED BY <1>1, <1>8

\* Nothing done for no element, and what one keeps all keep.
LEMMA AddAllFold ==
    ASSUME NEW key, NEW T, NEW U, \A x \in T, y \in U : conf_parser_add_value(x, key, Some(y)) \in T, NEW a \in T
    PROVE  /\ AddAll(a, key, Nil) = a
           /\ \A list \in Seq(U) : AddAll(a, key, list) \in T
<1> DEFINE F == [p \in T \X U |-> conf_parser_add_value(p[1], key, Some(p[2]))]
<1>1. Step(F, T, U) /\ \A x \in T, y \in U : At(F, x, y) = conf_parser_add_value(x, key, Some(y))
  BY DEF Step, At
<1> HIDE DEF F
<1>2. \A list \in Seq(U) : AddAll(a, key, list) = Along(F, T, a, list)
  BY <1>1, AddAllAlong
<1> QED BY <1>1, <1>2, AlongRules

AddPair(list, pair) == conf_parser_add_value(list, pair[1], pair[2])

\* A list of keys and values.
LEMMA AddEachAlong ==
    ASSUME NEW T, NEW U, NEW F, Step(F, T, U), NEW a \in T, NEW list \in Seq(U),
           \A x \in T, y \in U : At(F, x, y) = AddPair(x, y)
    PROVE  AddEach(a, list) = Along(F, T, a, list)
<1> DEFINE P == SUBSET Places(list)
           Is(w) == w = [s \in P |-> IF s = {} THEN a
                                     ELSE AddPair(w[s \ {Max(s)}], list[Max(s)])]
           v == CHOOSE w : Is(w)
<1>1. AddEach(a, list) = v[Places(list)]
  BY ListPlaces DEF FoldLeft, MapThenFoldSet, AddEach, AddPair
<1>2. \A s \in P : s # {} => list[Max(s)] \in U /\ s \ {Max(s)} \in P
  BY LastPlace
<1>3. \A x \in T, y \in U : F[<<x, y>>] = AddPair(x, y)
  BY DEF At
<1>4. PICK w : FoldsIn(F, T, a, list, w)
  BY FoldExists
<1>5. Is(w)
  BY <1>2, <1>3, <1>4 DEF FoldsIn, Folds
<1>6. Is(v)
  BY <1>5
<1> HIDE DEF v
<1>7. Folds(F, T, a, list, v)
  BY <1>2, <1>3, <1>6 DEF Folds
<1>8. v[Places(list)] = Along(F, T, a, list)
  BY <1>7, FoldAlong
<1> QED BY <1>1, <1>8

\* Nothing done for no element, and what one keeps all keep.
LEMMA AddEachFold ==
    ASSUME NEW T, NEW U, \A x \in T, y \in U : AddPair(x, y) \in T, NEW a \in T
    PROVE  /\ AddEach(a, Nil) = a
           /\ \A list \in Seq(U) : AddEach(a, list) \in T
<1> DEFINE F == [p \in T \X U |-> AddPair(p[1], p[2])]
<1>1. Step(F, T, U) /\ \A x \in T, y \in U : At(F, x, y) = AddPair(x, y)
  BY DEF Step, At
<1> HIDE DEF F
<1>2. \A list \in Seq(U) : AddEach(a, list) = Along(F, T, a, list)
  BY <1>1, AddEachAlong
<1> QED BY <1>1, <1>2, AlongRules

\* Lines of one key.
LEMMA AddAllType ==
    ASSUME NEW list \in Lines, NEW key \in Names, NEW values \in Seq(Texts)
    PROVE  AddAll(list, key, values) \in Lines
<1>1. \A x \in Lines, y \in Texts : conf_parser_add_value(x, key, Some(y)) \in Lines
  BY AddValueType, SomeText
<1> QED BY <1>1, AddAllFold

Saved == Names \X Maybe(Texts)

\* A key and its value.
LEMMA SavedPair == \A o \in Names, v \in Maybe(Texts) : <<o, v>> \in Saved
BY DEF Saved

\* Lines of several keys.
LEMMA AddEachType ==
    ASSUME NEW list \in Lines, NEW pairs \in Seq(Saved)
    PROVE  AddEach(list, pairs) \in Lines
<1>1. \A x \in Lines, y \in Saved : AddPair(x, y) \in Lines
  BY AddValueType DEF Saved, AddPair
<1> QED BY <1>1, AddEachFold

\* A number is written as a text.
LEMMA SomeNumber == \A n \in Int : Some(my_itoa(n)) \in Maybe(Texts)
BY ItoaType, SomeText

\* What save_config_file writes are lines.
LEMMA SaveType ==
    ASSUME NEW c \in Configs, NEW names \in Seq(Texts), NEW name \in Texts
    PROVE  save_config_file(c, names, name) \in Lines
<1> DEFINE num(o)   == <<o, Some(my_itoa(c.num[o]))>>
           text(o)  == <<o, c.text[o]>>
           flag(o, on) == <<o, Some(IF on THEN One ELSE Zero)>>
           l1 == <<text("username"), text("password"), text("nic")>>
           account  == AddEach(<<>>, l1)
           modules  == AddAll(account, "module", names)
           l2 == <<num("daemonize"), <<"if-impl", Some(name)>>, num("max-fail"), num("max-retries"),
              flag("no-auto-reauth", ~c.restart_on_logoff),
              flag("logoff-first", c.logoff_before_start), num("wait-after-fail"),
              num("stage-timeout"), text("proxy-lan-iface"), num("auth-round"),
              text("pid-file"), text("log-file")>>
<1>1. \A o \in TextOptions : text(o) \in Saved
  <2>1. \A o \in TextOptions : c.text[o] \in Maybe(Texts)
    BY DEF Configs, PROG_CONFIG
  <2>2. \A o \in TextOptions : o \in Names
    BY DEF Names
  <2> QED BY <2>1, <2>2, SavedPair
<1>2. \A o \in NumOptions : num(o) \in Saved
  <2>1. \A o \in NumOptions : c.num[o] \in Int
    BY DEF Configs, PROG_CONFIG
  <2>2. \A o \in NumOptions : o \in Names
    BY DEF Names
  <2> QED BY <2>1, <2>2, SomeNumber, SavedPair
<1>3. \A on : \A o \in Names : flag(o, on) \in Saved
  <2>1. Zero \in Texts /\ One \in Texts
    BY DEF Zero, One, Texts
  <2>2. \A on : Some(IF on THEN One ELSE Zero) \in Maybe(Texts)
    BY <2>1, SomeText
  <2> QED BY <2>2, SavedPair
<1>4. <<"if-impl", Some(name)>> \in Saved
  <2>1. Some(name) \in Maybe(Texts)
    BY SomeText
  <2>2. "if-impl" \in Names
    BY DEF Names, TextOptions
  <2> QED BY <2>1, <2>2, SavedPair
<1>5. save_config_file(c, names, name) = AddEach(modules, l2)
  BY DEF save_config_file
<1> HIDE DEF text, num, flag
<1>6. l1 \in Seq(Saved)
  <2>1. text("username") \in Saved /\ text("password") \in Saved /\ text("nic") \in Saved
    BY <1>1 DEF TextOptions
  <2> QED BY <2>1
<1>7. l2 \in Seq(Saved)
  <2>1. /\ text("proxy-lan-iface") \in Saved /\ text("pid-file") \in Saved
        /\ text("log-file") \in Saved
    BY <1>1 DEF TextOptions
  <2>2. /\ num("daemonize") \in Saved /\ num("max-fail") \in Saved /\ num("max-retries") \in Saved
        /\ num("wait-after-fail") \in Saved /\ num("stage-timeout") \in Saved
        /\ num("auth-round") \in Saved
    BY <1>2 DEF NumOptions
  <2>3. /\ flag("no-auto-reauth", ~c.restart_on_logoff) \in Saved
        /\ flag("logoff-first", c.logoff_before_start) \in Saved
    BY <1>3 DEF Names
  <2> QED BY <1>4, <2>1, <2>2, <2>3
<1> HIDE DEF l1, l2
<1>8. <<>> \in Lines
  BY DEF Lines
<1>9. account \in Lines
  BY <1>6, <1>8, AddEachType
<1> HIDE DEF account
<1>10. modules \in Lines
  <2>1. "module" \in Names
    BY DEF Names, ModuleOptions
  <2> QED BY <1>9, <2>1, AddAllType
<1> HIDE DEF modules
<1> QED BY <1>5, <1>7, <1>10, AddEachType

\* So is what rjv3 adds.
LEMMA RjSaveType ==
    ASSUME NEW list \in Lines, NEW p \in Privs
    PROVE  rjv3_save_config(list, p) \in Lines
<1> DEFINE num(o)   == <<o, Some(my_itoa(p.num[o]))>>
           text(o)  == <<o, p.text[o]>>
           ones == [i \in DOMAIN p.props |-> rjv3_save_one_prop(p.props[i], FALSE)]
           twos == [i \in DOMAIN p.mods |-> rjv3_save_one_prop(p.mods[i], TRUE)]
           l1 == <<num("heartbeat"), num("eap-bcast-addr"), num("dhcp-type")>>
           k == "rj-option"
           n1 == AddEach(list, l1)
           n2 == AddAll(n1, k, ones)
           n3 == AddAll(n2, k, twos)
           l2 == <<text("service"), text("version-str"), text("dhcp-script"),
                   text("fake-dns1"), text("fake-dns2"), text("fake-serial"),
                   num("max-dhcp-count")>>
<1>1. \A o \in RjTextOptions : text(o) \in Saved
  <2>1. \A o \in RjTextOptions : p.text[o] \in Maybe(Texts)
    BY DEF Privs, RJV3_PRIV
  <2>2. \A o \in RjTextOptions : o \in Names
    BY DEF Names
  <2> QED BY <2>1, <2>2, SavedPair
<1>2. \A o \in RjNumOptions : num(o) \in Saved
  <2>1. \A o \in RjNumOptions : p.num[o] \in Int
    BY DEF Privs, RJV3_PRIV
  <2>2. \A o \in RjNumOptions : o \in Names
    BY DEF Names
  <2> QED BY <2>1, <2>2, SomeNumber, SavedPair
<1>3. rjv3_save_config(list, p) = AddEach(n3, l2)
  BY DEF rjv3_save_config
<1>4. ones \in Seq(Texts)
  <2> DEFINE l == p.props
  <2>1. l \in Seq(RjProps)
    BY DEF Privs, RJV3_PRIV
  <2>2. ones = [i \in DOMAIN l |-> ones[i]]
    OBVIOUS
  <2>3. \A i \in DOMAIN l : l[i] \in RjProps
    BY <2>1
  <2>4. \A i \in DOMAIN l : ones[i] \in Texts
    BY <2>3, SavedProp
  <2> HIDE DEF ones, l
  <2> QED BY <2>1, <2>2, <2>4, MapType
<1>5. twos \in Seq(Texts)
  <2> DEFINE l == p.mods
  <2>1. l \in Seq(RjProps)
    BY DEF Privs, RJV3_PRIV
  <2>2. twos = [i \in DOMAIN l |-> twos[i]]
    OBVIOUS
  <2>3. \A i \in DOMAIN l : l[i] \in RjProps
    BY <2>1
  <2>4. \A i \in DOMAIN l : twos[i] \in Texts
    BY <2>3, SavedProp
  <2> HIDE DEF twos, l
  <2> QED BY <2>1, <2>2, <2>4, MapType
<1> HIDE DEF text, num, ones, twos
<1>6. l1 \in Seq(Saved)
  <2>1. num("heartbeat") \in Saved /\ num("eap-bcast-addr") \in Saved /\ num("dhcp-type") \in Saved
    BY <1>2 DEF RjNumOptions
  <2> QED BY <2>1
<1>7. l2 \in Seq(Saved)
  <2>1. /\ text("service") \in Saved /\ text("version-str") \in Saved
        /\ text("dhcp-script") \in Saved /\ text("fake-dns1") \in Saved
        /\ text("fake-dns2") \in Saved /\ text("fake-serial") \in Saved
    BY <1>1 DEF RjTextOptions
  <2>2. num("max-dhcp-count") \in Saved
    BY <1>2 DEF RjNumOptions
  <2> QED BY <2>1, <2>2
<1> HIDE DEF l1, l2
<1>0. k \in Names
  BY DEF Names
<1> HIDE DEF k
<1>8. n1 \in Lines
  BY <1>6, AddEachType
<1> HIDE DEF n1
<1>9. n2 \in Lines
  BY <1>0, <1>4, <1>8, AddAllType
<1> HIDE DEF n2
<1>10. n3 \in Lines
  BY <1>0, <1>5, <1>9, AddAllType
<1> HIDE DEF n3
<1> QED BY <1>3, <1>7, <1>10, AddEachType

PluginSave(r, list, name) == IF name = Rjv3 THEN rjv3_save_config(list, r) ELSE list
PluginSaves(r, list, names) == FoldLeft(LAMBDA l, name : PluginSave(r, l, name), list, names)

\* The plugins add their lines, one after another.
LEMMA PluginSavesAlong ==
    ASSUME NEW r, NEW T, NEW U, NEW F, Step(F, T, U), NEW a \in T, NEW list \in Seq(U),
           \A x \in T, y \in U : At(F, x, y) = PluginSave(r, x, y)
    PROVE  PluginSaves(r, a, list) = Along(F, T, a, list)
<1> DEFINE P == SUBSET Places(list)
           Is(w) == w = [s \in P |-> IF s = {} THEN a
                                     ELSE PluginSave(r, w[s \ {Max(s)}], list[Max(s)])]
           v == CHOOSE w : Is(w)
<1>1. PluginSaves(r, a, list) = v[Places(list)]
  BY ListPlaces DEF FoldLeft, MapThenFoldSet, PluginSaves
<1>2. \A s \in P : s # {} => list[Max(s)] \in U /\ s \ {Max(s)} \in P
  BY LastPlace
<1>3. \A x \in T, y \in U : F[<<x, y>>] = PluginSave(r, x, y)
  BY DEF At
<1>4. PICK w : FoldsIn(F, T, a, list, w)
  BY FoldExists
<1>5. Is(w)
  BY <1>2, <1>3, <1>4 DEF FoldsIn, Folds
<1>6. Is(v)
  BY <1>5
<1> HIDE DEF v
<1>7. Folds(F, T, a, list, v)
  BY <1>2, <1>3, <1>6 DEF Folds
<1>8. v[Places(list)] = Along(F, T, a, list)
  BY <1>7, FoldAlong
<1> QED BY <1>1, <1>8

\* Nothing done for no element, and what one keeps all keep.
LEMMA PluginSavesFold ==
    ASSUME NEW r, NEW T, NEW U, \A x \in T, y \in U : PluginSave(r, x, y) \in T, NEW a \in T
    PROVE  /\ PluginSaves(r, a, Nil) = a
           /\ \A list \in Seq(U) : PluginSaves(r, a, list) \in T
<1> DEFINE F == [p \in T \X U |-> PluginSave(r, p[1], p[2])]
<1>1. Step(F, T, U) /\ \A x \in T, y \in U : At(F, x, y) = PluginSave(r, x, y)
  BY DEF Step, At
<1> HIDE DEF F
<1>2. \A list \in Seq(U) : PluginSaves(r, a, list) = Along(F, T, a, list)
  BY <1>1, PluginSavesAlong
<1> QED BY <1>1, <1>2, AlongRules

\* So is what all plugins add.
LEMMA PluginSavesType ==
    ASSUME NEW r \in Privs, NEW list \in Lines, NEW names \in Seq(Texts)
    PROVE  PluginSaves(r, list, names) \in Lines
<1>1. \A x \in Lines, y \in Texts : PluginSave(r, x, y) \in Lines
  BY RjSaveType DEF PluginSave
<1> QED BY <1>1, PluginSavesFold

\* The defaults are in range.
LEMMA DefaultType ==
    ASSUME NEW e \in Maybe(Texts)
    PROVE  load_default_params(e) \in Configs
<1> DEFINE d == load_default_params(e)
<1>1. Some(Pidfile) \in Maybe(Texts) /\ Some(Logfile) \in Maybe(Texts) /\ None \in Maybe(Texts)
  <2>1. Pidfile \in Texts /\ Logfile \in Texts
    BY DEF Pidfile, Logfile, Texts
  <2> QED BY <2>1, SomeText
<1>2. Len(Some(Pidfile)[1]) <= 260 /\ Len(Some(Logfile)[1]) <= 260
  BY DEF Pidfile, Logfile, Some
<1>3. d.text \in [TextOptions -> Maybe(Texts)]
  BY <1>1 DEF load_default_params
<1>4. d.num \in [NumOptions -> Int]
  BY DEF load_default_params, NumOptions
<1>5. d \in PROG_CONFIG
  <2>1. <<>> \in Seq(Texts) /\ "KILL_NONE" \in KILL_TYPE
    BY DEF KILL_TYPE
  <2> QED BY <1>3, <1>4, <2>1 DEF load_default_params, PROG_CONFIG
<1>6. \A o \in TextOptions : d.text[o] # None => Len(d.text[o][1]) <= MaxLen(o)
  <2> SUFFICES ASSUME NEW o \in TextOptions, d.text[o] # None
               PROVE  Len(d.text[o][1]) <= MaxLen(o)
    OBVIOUS
  <2>1. d.text[o] = CASE o = "pid-file" -> Some(Pidfile) [] o = "log-file" -> Some(Logfile) [] OTHER -> None
    BY DEF load_default_params
  <2> HIDE DEF d
  <2>2. CASE o = "pid-file"
    <3>1. MaxLen(o) = 260
      BY <2>2 DEF MaxLen
    <3> QED BY <1>2, <2>1, <2>2, <3>1
  <2>3. CASE o = "log-file"
    <3>1. MaxLen(o) = 260
      BY <2>3 DEF MaxLen
    <3> QED BY <1>2, <2>1, <2>3, <3>1
  <2> QED BY <2>1, <2>2, <2>3
<1> HIDE DEF d
<1> QED BY <1>4, <1>5, <1>6 DEF Configs, ConfigFits, d

\* rjv3_priv at the start of a run is in range.
LEMMA NewPrivType == NewPriv \in Privs
<1> DEFINE d == NewPriv
<1>1. d.text \in [RjTextOptions -> Maybe(Texts)] /\ \A o \in RjTextOptions : d.text[o] = None
  BY SomeText DEF NewPriv
<1>2. d.num \in [RjNumOptions -> Int]
  BY DEF NewPriv, RjNumOptions
<1>3. d \in RJV3_PRIV
  <2>1. <<>> \in Seq(RjProps)
    OBVIOUS
  <2> QED BY <1>1, <1>2, <2>1 DEF NewPriv, RJV3_PRIV
<1> HIDE DEF d
<1> QED BY <1>1, <1>2, <1>3 DEF Privs, PrivFits, d

\* So are the defaults of rjv3.
LEMMA RjDefaultType ==
    ASSUME NEW p \in Privs
    PROVE  rjv3_load_default_params(p) \in Privs
<1> DEFINE d == rjv3_load_default_params(p)
           t == [p.text EXCEPT !["service"] = Some(Internet), !["version-str"] = Some(Version),
                               !["dhcp-script"] = Some(<<>>)]
           n == [o \in RjNumOptions |-> CASE o = "heartbeat" -> 60
                                          [] o = "eap-bcast-addr" -> 0
                                          [] o = "dhcp-type" -> 2
                                          [] o = "max-dhcp-count" -> 3]
<1>1. p \in RJV3_PRIV /\ PrivFits(p)
  BY DEF Privs
<1>2. p.text \in [RjTextOptions -> Maybe(Texts)]
  BY <1>1 DEF RJV3_PRIV
<1>3. /\ Some(Internet) \in Maybe(Texts) /\ Len(Some(Internet)[1]) = 1
      /\ Some(Version) \in Maybe(Texts) /\ Len(Some(Version)[1]) = 1
      /\ Some(<<>>) \in Maybe(Texts) /\ Len(Some(<<>>)[1]) = 0
  <2>1. Internet \in Texts /\ Version \in Texts /\ <<>> \in Texts
    BY DEF Internet, Version, Texts
  <2>2. Len(Internet) = 1 /\ Len(Version) = 1
    BY DEF Internet, Version
  <2>3. Some(Internet)[1] = Internet /\ Some(Version)[1] = Version /\ Some(<<>>)[1] = <<>>
    BY <2>1, SomeText
  <2> QED BY <2>1, <2>2, <2>3, SomeText
<1>4. d = [p EXCEPT !.text = t, !.num = n]
  BY <1>1 DEF rjv3_load_default_params, RJV3_PRIV
<1>5. n \in [RjNumOptions -> Int]
  BY DEF RjNumOptions
<1>6. t \in [RjTextOptions -> Maybe(Texts)]
  BY <1>2, <1>3
<1>7. \A o \in RjTextOptions : t[o] # None => Len(t[o][1]) <= RjMaxLen(o)
  <2>1. /\ RjMaxLen("service") >= 1 /\ RjMaxLen("version-str") >= 1
        /\ RjMaxLen("dhcp-script") >= 1
    BY DEF RjMaxLen, MAX_PROP_LEN
  <2>2. \A o \in RjTextOptions : p.text[o] # None => Len(p.text[o][1]) <= RjMaxLen(o)
    BY <1>1 DEF PrivFits
  <2> HIDE DEF n
  <2> SUFFICES ASSUME NEW o \in RjTextOptions, t[o] # None PROVE Len(t[o][1]) <= RjMaxLen(o)
    OBVIOUS
  <2>3. t[o] = IF o = "service" THEN Some(Internet) ELSE IF o = "version-str" THEN Some(Version)
               ELSE IF o = "dhcp-script" THEN Some(<<>>) ELSE p.text[o]
    BY <1>2
  <2>4. RjMaxLen(o) \in Nat
    BY RjMaxLens
  <2> DEFINE v == t[o]
  <2>5. CASE v = p.text[o]
    <3>1. v # None
      OBVIOUS
    <3> QED BY <2>2, <2>5, <3>1
  <2>6. CASE o = "service" /\ v = Some(Internet)
    BY <1>3, <2>1, <2>4, <2>6
  <2>7. CASE o = "version-str" /\ v = Some(Version)
    BY <1>3, <2>1, <2>4, <2>7
  <2>8. CASE o = "dhcp-script" /\ v = Some(<<>>)
    BY <1>3, <2>1, <2>4, <2>8
  <2>9. \/ v = p.text[o] \/ (o = "service" /\ v = Some(Internet))
        \/ (o = "version-str" /\ v = Some(Version)) \/ (o = "dhcp-script" /\ v = Some(<<>>))
    BY <2>3
  <2> HIDE DEF v
  <2> QED BY <2>5, <2>6, <2>7, <2>8, <2>9
<1> HIDE DEF t, n, d
<1>8. d \in RJV3_PRIV /\ d.text = t /\ d.num = n
  BY <1>1, <1>4, <1>5, <1>6 DEF RJV3_PRIV
<1> QED BY <1>5, <1>7, <1>8 DEF Privs, PrivFits, d

-----------------------------------------------------------------------------
(* Type correctness *)

\* TypeOK in the terms of the lemmas, with a driver in every run that came by
\* SelectImplementations.
Typed ==
    /\ files \in [Paths -> Lines] /\ before \in [Paths -> Lines]
    /\ pc \in Steps \cup {"off"} /\ runs \in 0..MaxRuns /\ refused \in BOOLEAN
    /\ argv \in Seq(Words) /\ path \in Paths /\ conf \in Lines
    /\ cfg \in Configs /\ priv \in Privs
    /\ active \in Seq(Plugins) /\ impl \in Maybe(ToSet(Impls))
    /\ (saved # None => saved[1].path \in Paths)
    /\ (pc \in {"plugins", "save"} => impl # None)

\* Names of plugins and drivers are texts.
LEMMA NamesAreTexts ==
    /\ \A l \in Seq(Plugins) : l \in Seq(Texts)
    /\ ToSet(Impls) \subseteq Texts
    /\ \A l \in Seq(Texts) : Select(l, Plugins) \in Seq(Plugins)
<1>1. Plugins \subseteq Texts /\ Impls \in Seq(Texts)
  BY ConfigAssumption
<1>2. \A l \in Seq(Plugins) : l \in Seq(Texts)
  BY <1>1
<1>3. ToSet(Impls) \subseteq Texts
  BY <1>1 DEF ToSet
<1>4. ASSUME NEW l \in Seq(Texts) PROVE Select(l, Plugins) \in Seq(Plugins)
  <2>1. Select(l, Plugins) \in Seq(Texts \cap Plugins)
    BY SelectType
  <2>2. Texts \cap Plugins = Plugins
    BY <1>1
  <2> QED BY <2>1, <2>2
<1> QED BY <1>2, <1>3, <1>4

\* What is empty is of every type.
LEMMA Nothing == <<>> \in Lines /\ None \in Maybe(Texts) /\ <<>> \in Seq(Plugins)
                 /\ None \in Maybe(ToSet(Impls)) /\ <<>> \in Seq(Words)
BY DEF Lines, None, Maybe

\* The initial states.
LEMMA InitTyped == Init => Typed
<1> SUFFICES ASSUME Init PROVE Typed
  OBVIOUS
<1>1. cfg \in Configs
  BY Nothing, DefaultType DEF Init
<1>2. priv \in Privs
  BY NewPrivType DEF Init
<1>3. files \in [Paths -> Lines] /\ path \in Paths
  BY ConfigAssumption DEF Init
<1>4. runs \in 0..MaxRuns
  BY ConfigAssumption DEF Init
<1> QED BY <1>1, <1>2, <1>3, <1>4, Nothing DEF Init, Typed, Steps

\* The steps that keep what only the type is about.
LEMMA StartTyped == Typed /\ Start => Typed'
<1> SUFFICES ASSUME Typed, Start PROVE Typed'
  OBVIOUS
<1>1. PICK words \in Argvs :
        LET p == parse_cmdline_conf_file(words) IN
        /\ argv' = words
        /\ cfg' = load_default_params(Environ)
        /\ conf' = <<>> /\ active' = <<>> /\ impl' = None /\ priv' = NewPriv
        /\ path' = IF p = None THEN path ELSE p[1]
        /\ IF p = None THEN Off(TRUE) ELSE pc' = "file" /\ refused' = FALSE
  BY DEF Start
<1>2. argv' \in Seq(Words) /\ cfg' \in Configs
  BY <1>1, ConfigAssumption, DefaultType
<1>3. priv' \in Privs
  BY <1>1, NewPrivType
<1>4. path' \in Paths
  <2> DEFINE p == parse_cmdline_conf_file(words)
  <2>1. p \in Maybe(Paths)
    BY PathAssumption
  <2>2. p # None => p[1] \in Paths
    BY <2>1 DEF Maybe, None
  <2> QED BY <1>1, <2>2 DEF Typed
<1>5. pc' \in {"off", "file"} /\ refused' \in BOOLEAN
  BY <1>1 DEF Off
<1>6. runs' \in 0..MaxRuns
  BY ConfigAssumption DEF Start, Typed
<1>7. conf' \in Lines /\ active' \in Seq(Plugins) /\ impl' \in Maybe(ToSet(Impls))
  BY <1>1, Nothing
<1>8. files' = files /\ before' = files /\ saved' = saved
  BY DEF Start
<1> QED BY <1>2, <1>3, <1>4, <1>5, <1>6, <1>7, <1>8 DEF Typed, Steps

\* Reading the file.
LEMMA ParseConfigFileTyped == Typed /\ ParseConfigFile => Typed'
<1> SUFFICES ASSUME Typed, ParseConfigFile PROVE Typed'
  OBVIOUS
<1> DEFINE pairs == IF files[path] = NoFile THEN <<>> ELSE conf_parser_parse_now(files[path])
<1>1. pairs \in Lines
  <2>1. files[path] \in Lines
    BY DEF Typed
  <2> QED BY <2>1, Nothing, ParseNowType
<1>2. conf' = pairs /\ cfg' = parse_config_file(cfg, pairs)
  BY DEF ParseConfigFile
<1>3. pc' \in {"off", "cmdline"} /\ refused' \in BOOLEAN
  BY DEF ParseConfigFile, Off, Typed
<1>4. UNCHANGED <<files, runs, argv, path, active, impl, priv, before, saved>>
  BY DEF ParseConfigFile
<1> HIDE DEF pairs
<1>5. cfg' \in Configs
  BY <1>1, <1>2, ParseFileType DEF Typed
<1> QED BY <1>1, <1>2, <1>3, <1>4, <1>5 DEF Typed, Steps

\* Reading the command line.
LEMMA ParseCmdlineOptsTyped == Typed /\ ParseCmdlineOpts => Typed'
<1> SUFFICES ASSUME Typed, ParseCmdlineOpts PROVE Typed'
  OBVIOUS
<1>1. cfg' \in Configs
  BY ParseCmdlineType DEF ParseCmdlineOpts, Typed
<1>2. pc' \in {"off", "select"} /\ refused' \in BOOLEAN
  BY DEF ParseCmdlineOpts, Off, Typed
<1>3. UNCHANGED <<files, runs, argv, path, conf, active, impl, priv, before, saved>>
  BY DEF ParseCmdlineOpts
<1> QED BY <1>1, <1>2, <1>3 DEF Typed, Steps

\* An argument that an option does not take.
LEMMA ParseArgumentTyped == Typed /\ ParseArgumentOfNone => Typed'
<1> SUFFICES ASSUME Typed, ParseArgumentOfNone PROVE Typed'
  OBVIOUS
<1>1. PICK i \in DOMAIN argv : cfg' = parse_cmdline_opts(cfg, SubSeq(argv, 1, i - 1)).cfg
  BY DEF ParseArgumentOfNone
<1>2. SubSeq(argv, 1, i - 1) \in Seq(Words)
  <2>1. argv \in Seq(Words) /\ i \in 1..Len(argv)
    BY DEF Typed
  <2> QED BY <2>1, Prefix
<1>3. cfg' \in Configs
  BY <1>1, <1>2, ParseCmdlineType DEF Typed
<1>4. pc' = "off" /\ refused' \in BOOLEAN
  BY DEF ParseArgumentOfNone, Off
<1>5. UNCHANGED <<files, runs, argv, path, conf, active, impl, priv, before, saved>>
  BY DEF ParseArgumentOfNone
<1> QED BY <1>3, <1>4, <1>5 DEF Typed, Steps

\* Selecting the plugins and the driver.
LEMMA SelectTyped == Typed /\ SelectImplementations => Typed'
<1> SUFFICES ASSUME Typed, SelectImplementations PROVE Typed'
  OBVIOUS
<1>1. cfg.modules \in Seq(Texts) /\ cfg.text["if-impl"] \in Maybe(Texts)
  BY DEF Typed, Configs, PROG_CONFIG, TextOptions
<1>2. active' \in Seq(Plugins)
  BY <1>1, NamesAreTexts DEF SelectImplementations, select_packet_plugin
<1>3. impl' \in Maybe(ToSet(Impls))
  <2> DEFINE name == cfg.text["if-impl"]
  <2>1. impl' = select_if_impl(name)
    BY DEF SelectImplementations
  <2>2. name \in Maybe(Texts)
    BY <1>1
  <2> HIDE DEF name
  <2>3. Impls[1] \in ToSet(Impls)
    BY ConfigAssumption DEF ToSet
  <2>4. Some(Impls[1]) \in Maybe(ToSet(Impls))
    BY <2>3 DEF Some, Maybe
  <2>5. name # None /\ name[1] \in ToSet(Impls) => name \in Maybe(ToSet(Impls))
    BY <2>2 DEF Maybe, None
  <2> QED BY <2>1, <2>4, <2>5, Nothing DEF select_if_impl
<1>4. (pc' = "off" \/ (pc' = "plugins" /\ impl' # None)) /\ refused' \in BOOLEAN
  BY DEF SelectImplementations, Off, Typed
<1>5. UNCHANGED <<files, runs, argv, path, conf, cfg, priv, before, saved>>
  BY DEF SelectImplementations
<1> QED BY <1>2, <1>3, <1>4, <1>5 DEF Typed, Steps

\* The plugins read theirs.
LEMMA PluginsTyped == Typed /\ InitPluginConfig => Typed'
<1> SUFFICES ASSUME Typed, InitPluginConfig PROVE Typed'
  OBVIOUS
<1> DEFINE p1 == packet_plugin_load_default_params(priv)
           p2 == PluginFiles(conf, p1, active)
           got == PluginWords(argv, [ok |-> TRUE, priv |-> p2], active)
<1>1. /\ pc = "plugins" /\ priv' = got.priv
      /\ (pc' \in {"save", "off"} /\ refused' \in BOOLEAN)
      /\ UNCHANGED <<files, runs, argv, path, conf, cfg, active, impl, before, saved>>
  BY DEF InitPluginConfig, packet_plugin_process_cmdline_opts, packet_plugin_process_config_file,
         PluginFiles, PluginFile, PluginWords, PluginWord, Off, Typed
<1>2. p1 \in Privs
  BY RjDefaultType DEF packet_plugin_load_default_params, Typed
<1>3. active \in Seq(Texts)
  BY NamesAreTexts DEF Typed
<1> HIDE DEF p1
<1>4. p2 \in Privs
  BY <1>2, <1>3, PluginFilesType DEF Typed
<1> HIDE DEF p2
<1>5. got \in Answers
  <2>1. [ok |-> TRUE, priv |-> p2] \in Answers
    BY <1>4 DEF Answers
  <2> QED BY <1>3, <2>1, PluginWordsType DEF Typed
<1> HIDE DEF got
<1>6. priv' \in Privs
  BY <1>1, <1>5 DEF Answers
<1> QED BY <1>1, <1>6 DEF Typed, Steps

\* The lines to be written.
LEMMA OpenToSaveTyped == Typed /\ OpenToSave => Typed'
<1> SUFFICES ASSUME Typed, OpenToSave PROVE Typed'
  OBVIOUS
<1>1. conf' = PluginSaves(priv, save_config_file(cfg, active, impl[1]), active)
  BY DEF OpenToSave, packet_plugin_save_config, PluginSaves, PluginSave
<1>2. impl[1] \in Texts
  <2>1. impl[1] \in ToSet(Impls)
    BY DEF OpenToSave, Typed, Maybe, None
  <2> QED BY <2>1, NamesAreTexts
<1>3. active \in Seq(Texts)
  BY NamesAreTexts DEF Typed
<1> DEFINE lines == save_config_file(cfg, active, impl[1])
<1>4. lines \in Lines
  BY <1>2, <1>3, SaveType DEF Typed
<1> HIDE DEF lines
<1>5. conf' \in Lines
  <2>1. PluginSaves(priv, lines, active) \in Lines
    BY <1>3, <1>4, PluginSavesType DEF Typed
  <2> QED BY <1>1, <2>1 DEF lines
<1>6. files' \in [Paths -> Lines]
  <2>1. files' = [files EXCEPT ![path] = <<>>]
    BY DEF OpenToSave
  <2> QED BY <2>1, Nothing DEF Typed
<1>7. saved' # None => saved'[1].path \in Paths
  BY DEF OpenToSave, Typed
<1>8. pc' = "write" /\ UNCHANGED <<runs, argv, path, cfg, active, impl, priv, before, refused>>
  BY DEF OpenToSave
<1> QED BY <1>5, <1>6, <1>7, <1>8 DEF Typed, Steps

\* The file that was written.
LEMMA SaveFileTyped == Typed /\ conf_parser_save_file => Typed'
<1> SUFFICES ASSUME Typed, conf_parser_save_file PROVE Typed'
  OBVIOUS
<1>1. files' \in [Paths -> Lines]
  <2>1. files' = [files EXCEPT ![path] = conf]
    BY DEF conf_parser_save_file
  <2> QED BY <2>1 DEF Typed
<1>2. saved'[1].path \in Paths
  <2>1. saved' = Some(Current) /\ Current.path = path
    BY DEF conf_parser_save_file, Current
  <2> QED BY <2>1 DEF Some, Typed
<1>3. conf' \in Lines
  BY Nothing DEF conf_parser_save_file
<1>4. pc' = "running" /\ UNCHANGED <<runs, argv, path, cfg, active, impl, priv, before, refused>>
  BY DEF conf_parser_save_file
<1> QED BY <1>1, <1>2, <1>3, <1>4 DEF Typed, Steps

\* Every step.
LEMMA TypedStep == Typed /\ [Next]_vars => Typed'
<1> SUFFICES ASSUME Typed, [Next]_vars PROVE Typed'
  OBVIOUS
<1>1. CASE Start
  BY <1>1, StartTyped
<1>2. CASE ParseConfigFile
  BY <1>2, ParseConfigFileTyped
<1>3. CASE ParseCmdlineOpts
  BY <1>3, ParseCmdlineOptsTyped
<1>4. CASE SelectImplementations
  BY <1>4, SelectTyped
<1>5. CASE InitPluginConfig
  BY <1>5, PluginsTyped
<1>6. CASE OpenToSave
  BY <1>6, OpenToSaveTyped
<1>7. CASE NotSaved
  <2>1. conf' \in Lines
    BY <1>7, Nothing DEF NotSaved
  <2>2. /\ pc' = "running"
        /\ UNCHANGED <<files, runs, argv, path, cfg, active, impl, priv, before, refused, saved>>
    BY <1>7 DEF NotSaved
  <2> QED BY <2>1, <2>2 DEF Typed, Steps
<1>8. CASE conf_parser_save_file
  BY <1>8, SaveFileTyped
<1>9. CASE End
  <2>1. /\ pc' = "off" /\ refused' = FALSE
        /\ UNCHANGED <<files, runs, argv, path, conf, cfg, active, impl, priv, before, saved>>
    BY <1>9 DEF End, Off, run
  <2> QED BY <2>1 DEF Typed, Steps
<1>10. CASE UNCHANGED vars
  BY <1>10 DEF vars, Typed
<1>11. CASE ParseArgumentOfNone
  BY <1>11, ParseArgumentTyped
<1> QED BY <1>1, <1>2, <1>3, <1>4, <1>5, <1>6, <1>7, <1>8, <1>9, <1>10, <1>11 DEF Next

-----------------------------------------------------------------------------
(* The values a list of options gives, and the last of them *)

\* Induction by one element more.
LEMMA AddInduct ==
    ASSUME NEW T, NEW K, Nil \in K, \A s \in Seq(T), e \in T : s \in K => Add(s, e) \in K
    PROVE  \A s \in Seq(T) : s \in K
<1>1. <<>> \in K /\ \A s \in Seq(T), e \in T : s \in K => Append(s, e) \in K
  BY DEF Nil, Add
<1> QED BY <1>1, ListInduct

\* Lists and their last elements.
LEMMA AddType ==
    ASSUME NEW T, NEW list \in Seq(T), NEW e \in T
    PROVE  /\ Add(list, e) \in Seq(T) /\ Len(Add(list, e)) = Len(list) + 1
           /\ Add(list, e)[Len(list) + 1] = e
           /\ Add(list, e) # Nil
<1>1. Len(list) \in Nat /\ DOMAIN list = 1..Len(list)
  OBVIOUS
<1>2. Append(list, e) \in Seq(T) /\ Len(Append(list, e)) = Len(list) + 1
  OBVIOUS
<1>3. Append(list, e)[Len(list) + 1] = e
  BY <1>1
<1>4. Append(list, e) # <<>>
  BY <1>1, <1>2
<1> QED BY <1>2, <1>3, <1>4 DEF Add, Nil

\* The empty list is a list of everything.
LEMMA NilType == \A T : Nil \in Seq(T)
BY DEF Nil

\* The values that a list of options gives, one option more at a time.
Options == Opt(Maybe(Texts))

\* The arguments of a list of options.
LEMMA ValuesOfMap ==
    ASSUME NEW list \in Seq(Options), NEW e \in Options, NEW m, NEW n,
           m = [i \in DOMAIN list |-> Arg(list[i])],
           n = [i \in DOMAIN Add(list, e) |-> Arg(Add(list, e)[i])]
    PROVE  m \in Seq(Texts) /\ n = Add(m, Arg(e))
<1>1. m \in Seq(Texts) /\ Len(m) = Len(list)
  <2>1. \A i \in DOMAIN list : m[i] \in Texts
    <3>1. \A i \in DOMAIN list : list[i] \in Options
      OBVIOUS
    <3>2. \A x \in Options : Arg(x) \in Texts
      BY ArgType DEF Options
    <3> QED BY <3>1, <3>2
  <2>2. m = [i \in DOMAIN list |-> m[i]]
    OBVIOUS
  <2> QED BY <2>1, <2>2, MapType
<1> DEFINE k == Len(list)
           l == Add(list, e)
           x == Arg(e)
<1>2. k \in Nat /\ DOMAIN list = 1..k
  OBVIOUS
<1>3. l \in Seq(Options) /\ Len(l) = k + 1 /\ l[k + 1] = e /\ \A i \in 1..k : l[i] = list[i]
  <2>1. /\ Add(list, e) \in Seq(Options) /\ Len(Add(list, e)) = Len(list) + 1
        /\ Add(list, e)[Len(list) + 1] = e
    BY AddType
  <2>2. \A i \in 1..k : Append(list, e)[i] = list[i]
    BY <1>2
  <2> QED BY <1>2, <2>1, <2>2 DEF Add
<1>4. DOMAIN l = 1..(k + 1)
  BY <1>2, <1>3
<1> HIDE DEF k, l, x
<1>5. n = [i \in 1..(k + 1) |-> Arg(l[i])]
  BY <1>4 DEF l
<1>6. Len(m) = k /\ \A i \in 1..k : m[i] = Arg(l[i])
  BY <1>1, <1>2, <1>3 DEF k
<1>7. Append(m, x) = [i \in 1..(k + 1) |-> IF i = k + 1 THEN x ELSE m[i]]
  BY <1>1, <1>2, <1>6
<1>8. \A i \in 1..(k + 1) : Arg(l[i]) = IF i = k + 1 THEN x ELSE m[i]
  BY <1>2, <1>3, <1>6 DEF x
<1>9. n = Append(m, x)
  BY <1>5, <1>7, <1>8
<1> QED BY <1>1, <1>9 DEF Add, x

\* Values with one option more.
LEMMA ValuesRules ==
    ASSUME NEW names
    PROVE  /\ Values(Nil, names) = Nil
           /\ \A list \in Seq(Options) : Values(list, names) \in Seq(Texts)
           /\ \A list \in Seq(Options), e \in Options :
                Values(Add(list, e), names) = IF e.key \in names THEN Add(Values(list, names), Arg(e))
                                              ELSE Values(list, names)
<1> DEFINE S == [key : names, value : Maybe(Texts)]
           M(l) == [i \in DOMAIN l |-> Arg(l[i])]
<1>1. /\ Select(Nil, S) = Nil
      /\ \A list \in Seq(Options) : Select(list, S) \in Seq(Options)
      /\ \A list \in Seq(Options), e \in Options :
            Select(Add(list, e), S) = IF e \in S THEN Add(Select(list, S), e) ELSE Select(list, S)
  BY SelectRules
<1>2. \A list : Values(list, names) = M(Select(list, S))
  BY DEF Values, Arg
<1>3. \A e \in Options : e \in S <=> e.key \in names
  BY DEF Options, Opt
<1>4. M(Nil) = Nil
  BY DEF Nil
<1>5. \A l \in Seq(Options), e \in Options : M(l) \in Seq(Texts) /\ M(Add(l, e)) = Add(M(l), Arg(e))
  BY ValuesOfMap
<1>6. \A l \in Seq(Options) : M(l) \in Seq(Texts)
  <2>1. \E e : e \in Options
    <3>1. [key |-> "module", value |-> None] \in Options
      BY SomeText DEF Options, Opt, Names, ModuleOptions
    <3> QED BY <3>1
  <2> QED BY <1>5, <2>1
<1> HIDE DEF S, M
<1> QED BY <1>1, <1>2, <1>3, <1>4, <1>5, <1>6

\* LastOf with one value more, and over a default.
LEMMA LastRules ==
    /\ \A d : LastOf(Nil, d) = d
    /\ \A values \in Seq(Texts), x \in Texts : \A d : LastOf(Add(values, x), d) = Some(x)
    /\ \A values \in Seq(Texts) : LastOf(values, None) \in Maybe(Texts)
    /\ \A values \in Seq(Texts) : values # Nil => LastOf(values, None) # None
    /\ \A values \in Seq(Texts) : \A d :
            LastOf(values, d) = IF LastOf(values, None) = None THEN d ELSE LastOf(values, None)
<1>1. \A d : LastOf(Nil, d) = d
  BY DEF LastOf, Nil
<1>2. ASSUME NEW values \in Seq(Texts), NEW x \in Texts, NEW d
      PROVE  LastOf(Add(values, x), d) = Some(x)
  <2> DEFINE l == Add(values, x)
  <2>1. Len(l) = Len(values) + 1 /\ l[Len(values) + 1] = x /\ l # Nil
    BY AddType
  <2> HIDE DEF l
  <2> QED BY <2>1 DEF LastOf, Nil, l
<1>3. ASSUME NEW values \in Seq(Texts), values # Nil
      PROVE  /\ LastOf(values, None) \in Maybe(Texts) /\ LastOf(values, None) # None
             /\ \A d : LastOf(values, d) = LastOf(values, None)
  <2>1. values # <<>> /\ Len(values) \in Nat
    BY <1>3 DEF Nil
  <2>2. values[Len(values)] \in Texts
    BY <2>1
  <2>3. \A d : LastOf(values, d) = Some(values[Len(values)])
    BY <2>1 DEF LastOf
  <2> QED BY <2>2, <2>3, SomeText
<1>4. None \in Maybe(Texts)
  BY SomeText
<1> QED BY <1>1, <1>2, <1>3, <1>4

\* What the options of a list do to those that have one value.
LastSaid(o, opts) == LastOf(Values(opts, {o}), None)

\* The last value of an option, with one option more.
LEMMA LastOpt ==
    ASSUME NEW o
    PROVE  /\ LastSaid(o, Nil) = None
           /\ \A opts \in Seq(Options) : LastSaid(o, opts) \in Maybe(Texts)
           /\ \A opts \in Seq(Options), e \in Options :
                LastSaid(o, Add(opts, e)) = IF e.key = o THEN Some(Arg(e)) ELSE LastSaid(o, opts)
<1> DEFINE names == {o}
<1>1. /\ Values(Nil, names) = Nil
      /\ \A list \in Seq(Options) : Values(list, names) \in Seq(Texts)
      /\ \A list \in Seq(Options), e \in Options :
            Values(Add(list, e), names) = IF e.key \in names THEN Add(Values(list, names), Arg(e))
                                          ELSE Values(list, names)
  BY ValuesRules
<1>2. \A e \in Options : Arg(e) \in Texts /\ (e.key \in names <=> e.key = o)
  BY ArgType DEF Options
<1>3. \A opts : LastSaid(o, opts) = LastOf(Values(opts, names), None)
  BY DEF LastSaid
<1> HIDE DEF names
<1> QED BY <1>1, <1>2, <1>3, LastRules

\* A list that gives an option has a last value of it.
LEMMA GivesIs == \A o : \A opts \in Seq(Options) : Gives(o, opts) <=> LastSaid(o, opts) # None
<1> SUFFICES ASSUME NEW o, NEW opts \in Seq(Options) PROVE Gives(o, opts) <=> LastSaid(o, opts) # None
  OBVIOUS
<1> DEFINE names == {o}
           values == Values(opts, names)
<1>1. values \in Seq(Texts)
  BY ValuesRules
<1>2. (Gives(o, opts) <=> values # Nil) /\ LastSaid(o, opts) = LastOf(values, None)
  BY DEF Gives, LastSaid, Nil
<1> HIDE DEF values
<1> QED BY <1>1, <1>2, LastRules

\* LastValue, with one option more.
LEMMA LastValueOpt ==
    ASSUME NEW o
    PROVE  /\ LastValue(o, Nil) = None
           /\ \A opts \in Seq(Options), e \in Options :
                LastValue(o, Add(opts, e)) = IF e.key = o THEN Some(e.value) ELSE LastValue(o, opts)
<1> DEFINE S == [key : {o}, value : Maybe(Texts)]
<1>1. /\ Select(Nil, S) = Nil
      /\ \A list \in Seq(Options) : Select(list, S) \in Seq(Options)
      /\ \A list \in Seq(Options), e \in Options :
            Select(Add(list, e), S) = IF e \in S THEN Add(Select(list, S), e) ELSE Select(list, S)
  BY SelectRules
<1>2. \A e \in Options : e \in S <=> e.key = o
  BY DEF Options, Opt
<1>3. \A opts : LastValue(o, opts) = IF Select(opts, S) = Nil THEN None
                                    ELSE <<Select(opts, S)[Len(Select(opts, S))].value>>
  BY DEF LastValue, Nil
<1> HIDE DEF S
<1>4. ASSUME NEW opts \in Seq(Options), NEW e \in Options
      PROVE  LastValue(o, Add(opts, e)) = IF e.key = o THEN Some(e.value) ELSE LastValue(o, opts)
  <2> DEFINE l == Select(opts, S)
             m == Select(Add(opts, e), S)
  <2>1. l \in Seq(Options) /\ m = IF e \in S THEN Add(l, e) ELSE l
    BY <1>1
  <2>2. LastValue(o, opts) = (IF l = Nil THEN None ELSE <<l[Len(l)].value>>)
        /\ LastValue(o, Add(opts, e)) = (IF m = Nil THEN None ELSE <<m[Len(m)].value>>)
    BY <1>3
  <2> HIDE DEF l, m
  <2>3. CASE e.key = o
    <3>1. m = Add(l, e)
      BY <1>2, <2>1, <2>3
    <3>2. Len(m) = Len(l) + 1 /\ m[Len(l) + 1] = e /\ m # Nil
      BY <2>1, <3>1, AddType
    <3>3. m[Len(m)] = e
      BY <3>2
    <3> QED BY <2>2, <2>3, <3>2, <3>3 DEF Some
  <2>4. CASE e.key # o
    BY <1>2, <2>1, <2>2, <2>4
  <2> QED BY <2>3, <2>4
<1> QED BY <1>1, <1>3, <1>4

Single == TextOptions \ {"password"}

\* What becomes of the options that are no number and no text, and of the password
\* where password-env has no say.
AfterFlags(c, d, opts) ==
    /\ d.kill_type = AsKillType(LastValue("kill", opts), c.kill_type)
    /\ d.logoff_before_start = AsFlag(LastValue("logoff-first", opts), c.logoff_before_start)
    /\ (d.save_now <=> c.save_now \/ LastSaid("save", opts) # None)
    /\ LastSaid("password-env", opts) = None =>
        d.text["password"] = AsText(LastSaid("password", opts), c.text["password"], MaxLen("password"))

After(c, d, opts) ==
    /\ \A o \in NumOptions : d.num[o] = AsNumber(o, LastSaid(o, opts), c.num[o])
    /\ \A o \in Single : d.text[o] = AsText(LastSaid(o, opts), c.text[o], MaxLen(o))
    /\ (d.restart_on_logoff <=> c.restart_on_logoff /\ LastSaid("no-auto-reauth", opts) = None)
    /\ AfterFlags(c, d, opts)

OneFlags(c, d, e) ==
    /\ d.kill_type = IF e.key = "kill" THEN AsKillType(Some(e.value), c.kill_type) ELSE c.kill_type
    /\ d.logoff_before_start = IF e.key = "logoff-first" THEN AsFlag(Some(e.value), c.logoff_before_start)
                               ELSE c.logoff_before_start
    /\ (d.save_now <=> c.save_now \/ e.key = "save")
    /\ e.key # "password-env" =>
        d.text["password"] = IF e.key = "password" THEN Some(Cut(Arg(e), MaxLen("password")))
                             ELSE c.text["password"]

OneStep(c, d, e) ==
    /\ \A o \in NumOptions : d.num[o] = IF e.key = o THEN NumberOf(o, Arg(e)) ELSE c.num[o]
    /\ \A o \in Single : d.text[o] = IF e.key = o THEN Some(Cut(Arg(e), MaxLen(o))) ELSE c.text[o]
    /\ (d.restart_on_logoff <=> c.restart_on_logoff /\ e.key # "no-auto-reauth")
    /\ OneFlags(c, d, e)

\* No option changes nothing.
LEMMA AfterNil == \A c \in Configs : After(c, c, Nil)
<1> SUFFICES ASSUME NEW c \in Configs PROVE After(c, c, Nil)
  OBVIOUS
<1>0. c.restart_on_logoff \in BOOLEAN /\ c.save_now \in BOOLEAN
  BY DEF Configs, PROG_CONFIG
<1>1. AfterFlags(c, c, Nil)
  BY <1>0, LastOpt, LastValueOpt DEF AfterFlags, AsKillType, AsFlag, AsText
<1> QED BY <1>0, <1>1, LastOpt DEF After, AsNumber, AsText

\* One option more is one step more.
LEMMA AfterAdd ==
    ASSUME NEW c, NEW d, NEW d2, NEW opts \in Seq(Options), NEW e \in Options,
           After(c, d, opts), OneStep(d, d2, e)
    PROVE  After(c, d2, Add(opts, e))
<1>1. Some(Arg(e)) # None /\ Some(Arg(e))[1] = Arg(e)
  BY ArgType, SomeText DEF Options
<1>2. \A o : LastSaid(o, Add(opts, e)) = IF e.key = o THEN Some(Arg(e)) ELSE LastSaid(o, opts)
  BY LastOpt
<1>3. \A o \in NumOptions : d2.num[o] = AsNumber(o, LastSaid(o, Add(opts, e)), c.num[o])
  <2> SUFFICES ASSUME NEW o \in NumOptions
               PROVE  d2.num[o] = AsNumber(o, LastSaid(o, Add(opts, e)), c.num[o])
    OBVIOUS
  <2>1. CASE e.key = o
    BY <1>1, <1>2, <2>1 DEF OneStep, AsNumber
  <2>2. CASE e.key # o
    BY <1>2, <2>2 DEF OneStep, After
  <2> QED BY <2>1, <2>2
<1>4. \A o \in Single : d2.text[o] = AsText(LastSaid(o, Add(opts, e)), c.text[o], MaxLen(o))
  <2> SUFFICES ASSUME NEW o \in Single
               PROVE  d2.text[o] = AsText(LastSaid(o, Add(opts, e)), c.text[o], MaxLen(o))
    OBVIOUS
  <2>1. CASE e.key = o
    BY <1>1, <1>2, <2>1 DEF OneStep, AsText
  <2>2. CASE e.key # o
    BY <1>2, <2>2 DEF OneStep, After
  <2> QED BY <2>1, <2>2
<1>5. d2.restart_on_logoff <=> c.restart_on_logoff /\ LastSaid("no-auto-reauth", Add(opts, e)) = None
  BY <1>1, <1>2 DEF OneStep, After
<1>6. AfterFlags(c, d2, Add(opts, e))
  <2>0. AfterFlags(c, d, opts) /\ OneFlags(d, d2, e)
    BY DEF After, OneStep
  <2>1. \A o : LastValue(o, Add(opts, e)) = IF e.key = o THEN Some(e.value) ELSE LastValue(o, opts)
    BY LastValueOpt
  <2>7. Some(e.value) # None
    BY DEF Some, None
  <2>2. d2.kill_type = AsKillType(LastValue("kill", Add(opts, e)), c.kill_type)
    <3>1. CASE e.key = "kill"
      <4>1. LastValue("kill", Add(opts, e)) = Some(e.value)
        BY <2>1, <3>1
      <4>2. d2.kill_type = AsKillType(Some(e.value), d.kill_type)
        BY <2>0, <3>1 DEF OneFlags
      <4> QED BY <2>7, <4>1, <4>2 DEF AsKillType
    <3>2. CASE e.key # "kill"
      BY <2>0, <2>1, <3>2 DEF OneFlags, AfterFlags
    <3> QED BY <3>1, <3>2
  <2>3. d2.logoff_before_start = AsFlag(LastValue("logoff-first", Add(opts, e)), c.logoff_before_start)
    <3>1. CASE e.key = "logoff-first"
      <4>1. LastValue("logoff-first", Add(opts, e)) = Some(e.value)
        BY <2>1, <3>1
      <4>2. d2.logoff_before_start = AsFlag(Some(e.value), d.logoff_before_start)
        BY <2>0, <3>1 DEF OneFlags
      <4> QED BY <2>7, <4>1, <4>2 DEF AsFlag
    <3>2. CASE e.key # "logoff-first"
      BY <2>0, <2>1, <3>2 DEF OneFlags, AfterFlags
    <3> QED BY <3>1, <3>2
  <2>4. d2.save_now <=> c.save_now \/ LastSaid("save", Add(opts, e)) # None
    BY <1>1, <1>2, <2>0 DEF OneFlags, AfterFlags
  <2>5. ASSUME LastSaid("password-env", Add(opts, e)) = None
        PROVE  d2.text["password"] = AsText(LastSaid("password", Add(opts, e)), c.text["password"], MaxLen("password"))
    <3>1. e.key # "password-env" /\ LastSaid("password-env", opts) = None
      BY <1>1, <1>2, <2>5
    <3>2. CASE e.key = "password"
      BY <1>1, <1>2, <2>0, <3>1, <3>2 DEF OneFlags, AsText
    <3>3. CASE e.key # "password"
      BY <1>2, <2>0, <3>1, <3>3 DEF OneFlags, AfterFlags
    <3> QED BY <3>2, <3>3
  <2> QED BY <2>2, <2>3, <2>4, <2>5 DEF AfterFlags
<1> QED BY <1>3, <1>4, <1>5, <1>6 DEF After

-----------------------------------------------------------------------------
(* What one option changes *)

\* The options are told apart by their names.
LEMMA NamesApart ==
    /\ \A o \in TextOptions : o \notin NumOptions \cup ModuleOptions \cup {"no-auto-reauth", "password-env"}
    /\ \A o \in NumOptions : o \notin TextOptions \cup ModuleOptions \cup {"no-auto-reauth", "password-env"}
    /\ \A o \in ModuleOptions : o # "no-auto-reauth" /\ o # "password-env"
    /\ "password" \notin Single /\ Single \subseteq TextOptions
BY DEF TextOptions, NumOptions, ModuleOptions, Single

\* What one option changes, field by field.
ParseEffect(c, d, opt) ==
    /\ d.num = IF opt.key \in NumOptions THEN [c.num EXCEPT ![opt.key] = NumberOf(opt.key, Arg(opt))]
               ELSE c.num
    /\ \A o \in Single : d.text[o] = IF opt.key = o THEN Some(Cut(Arg(opt), MaxLen(o))) ELSE c.text[o]
    /\ d.restart_on_logoff = IF opt.key = "no-auto-reauth" THEN FALSE ELSE c.restart_on_logoff
    /\ d.modules = IF opt.key \in ModuleOptions THEN Add(c.modules, Arg(opt)) ELSE c.modules

\* A text that is copied changes no other field.
LEMMA CopyEffect ==
    ASSUME NEW c \in Configs, NEW o \in TextOptions, NEW t
    PROVE  LET e == COPY_N_ARG_TO(c, o, t)
           IN  /\ e.num = c.num /\ e.restart_on_logoff = c.restart_on_logoff /\ e.modules = c.modules
               /\ \A p \in TextOptions : e.text[p] = IF p = o THEN Some(Cut(t, MaxLen(o))) ELSE c.text[p]
<1> DEFINE v == Some(Cut(t, MaxLen(o)))
           e == COPY_N_ARG_TO(c, o, t)
<1>1. c \in PROG_CONFIG
  BY DEF Configs
<1>2. c.text \in [TextOptions -> Maybe(Texts)]
  BY <1>1 DEF PROG_CONFIG
<1>3. e = [c EXCEPT !.text = [c.text EXCEPT ![o] = v]]
  BY <1>1 DEF COPY_N_ARG_TO, PROG_CONFIG
<1> HIDE DEF v, e
<1> DEFINE texts == [c.text EXCEPT ![o] = v]
<1>4. \A p \in TextOptions : texts[p] = IF p = o THEN v ELSE c.text[p]
  BY <1>2
<1>5. e = [c EXCEPT !.text = texts]
  BY <1>3
<1> HIDE DEF texts
<1>6. /\ e.text = texts /\ e.num = c.num /\ e.restart_on_logoff = c.restart_on_logoff
      /\ e.modules = c.modules
  BY <1>1, <1>5 DEF PROG_CONFIG
<1> QED BY <1>4, <1>6 DEF v, e

\* parse_one_opt does this and no more.
LEMMA ParseOne ==
    ASSUME NEW c \in Configs, NEW opt \in Options
    PROVE  ParseEffect(c, parse_one_opt(c, opt), opt)
<1> DEFINE arg == Arg(opt)
           d == parse_one_opt(c, opt)
<1>1. opt.key \in Names /\ arg \in Texts /\ opt.value \in Maybe(Texts)
  BY ArgType DEF Options
<1>2. c \in PROG_CONFIG
  BY DEF Configs
<1>3. CASE opt.key \in TextOptions
  <2> DEFINE e == COPY_N_ARG_TO(c, opt.key, arg)
  <2>1. /\ e.num = c.num /\ e.restart_on_logoff = c.restart_on_logoff /\ e.modules = c.modules
        /\ \A p \in TextOptions :
                e.text[p] = IF p = opt.key THEN Some(Cut(arg, MaxLen(opt.key))) ELSE c.text[p]
    BY <1>3, CopyEffect
  <2>2. e \in PROG_CONFIG
    BY <1>1, <1>3, CopyType DEF Configs
  <2>3. d = e \/ d = [e EXCEPT !.proxy_on = TRUE]
    <3>1. CASE opt.key = "proxy-lan-iface"
      BY <3>1 DEF parse_one_opt, TextOptions, NumOptions, ModuleOptions, Arg
    <3>2. CASE opt.key # "proxy-lan-iface"
      BY <1>3, <3>2 DEF parse_one_opt, TextOptions, NumOptions, ModuleOptions, Arg
    <3> QED BY <3>1, <3>2
  <2> HIDE DEF e, d, arg
  <2>4. /\ d.num = e.num /\ d.restart_on_logoff = e.restart_on_logoff /\ d.modules = e.modules
        /\ d.text = e.text
    BY <2>2, <2>3 DEF PROG_CONFIG
  <2> QED BY <1>3, <2>1, <2>4, NamesApart DEF ParseEffect, d, arg
<1>4. CASE opt.key = "password-env"
  <2>1. CASE c.environ = None
    <3>1. d = c
      BY <1>4, <2>1 DEF parse_one_opt, TextOptions, NumOptions, ModuleOptions, Arg
    <3> HIDE DEF d
    <3> QED BY <1>4, <3>1, NamesApart DEF ParseEffect, d
  <2>2. CASE c.environ # None
    <3> DEFINE e == COPY_N_ARG_TO(c, "password", c.environ[1])
    <3>1. c.environ[1] \in Texts /\ "password" \in TextOptions
      BY <1>2, <2>2, SomeText DEF PROG_CONFIG, TextOptions
    <3>2. e \in PROG_CONFIG
      BY <3>1, CopyType DEF Configs
    <3>3. /\ e.num = c.num /\ e.restart_on_logoff = c.restart_on_logoff /\ e.modules = c.modules
          /\ \A p \in TextOptions : p # "password" => e.text[p] = c.text[p]
      BY <3>1, CopyEffect
    <3>4. d = [e EXCEPT !.environ = None]
      BY <1>4, <2>2 DEF parse_one_opt, TextOptions, NumOptions, ModuleOptions, Arg
    <3> HIDE DEF e, d
    <3>5. /\ d.num = e.num /\ d.restart_on_logoff = e.restart_on_logoff /\ d.modules = e.modules
          /\ d.text = e.text
      BY <3>2, <3>4 DEF PROG_CONFIG
    <3> QED BY <1>4, <3>3, <3>5, NamesApart DEF ParseEffect, d, Single
  <2> QED BY <2>1, <2>2
<1>5. CASE opt.key \in NumOptions
  <2> DEFINE n == NumberOf(opt.key, arg)
             nums == [c.num EXCEPT ![opt.key] = n]
  <2>1. d = SetNumber(c, opt.key, n)
    <3>1. CASE opt.key = "daemonize"
      BY <1>5, <3>1 DEF parse_one_opt, TextOptions, NumOptions, ModuleOptions, Arg, DaemonType, NumberOf
    <3>2. CASE opt.key # "daemonize"
      BY <1>5, <3>2 DEF parse_one_opt, TextOptions, NumOptions, ModuleOptions, Arg, NumberOf
    <3> QED BY <3>1, <3>2
  <2>2. d = [c EXCEPT !.num = nums]
    BY <1>2, <2>1 DEF PROG_CONFIG, SetNumber
  <2>3. d.num = nums
    <3> HIDE DEF nums, d
    <3> QED BY <1>2, <2>2 DEF PROG_CONFIG
  <2>4. /\ d.text = c.text /\ d.restart_on_logoff = c.restart_on_logoff /\ d.modules = c.modules
    <3> HIDE DEF nums, d
    <3> QED BY <1>2, <2>2 DEF PROG_CONFIG
  <2> HIDE DEF d, n
  <2> QED BY <1>5, <2>3, <2>4, NamesApart DEF ParseEffect, d, n
<1>6. CASE opt.key \in ModuleOptions
  <2>1. d = [c EXCEPT !.modules = Append(@, arg)]
    BY <1>6 DEF parse_one_opt, TextOptions, NumOptions, ModuleOptions, Arg
  <2> HIDE DEF d, arg
  <2>2. /\ d.num = c.num /\ d.text = c.text /\ d.restart_on_logoff = c.restart_on_logoff
        /\ d.modules = Append(c.modules, arg)
    BY <1>2, <2>1 DEF PROG_CONFIG
  <2> QED BY <1>6, <2>2, NamesApart DEF ParseEffect, Add, d, arg
<1>7. CASE opt.key \notin TextOptions \cup NumOptions \cup ModuleOptions \cup {"password-env"}
  <2>1. d \in {c, [c EXCEPT !.save_now = TRUE], [c EXCEPT !.restart_on_logoff = FALSE],
               [c EXCEPT !.logoff_before_start = (opt.value = None \/ atoi(arg) # 0)],
               [c EXCEPT !.kill_type = "KILL_ONLY"], [c EXCEPT !.kill_type = "KILL_AND_START"]}
    BY <1>7 DEF parse_one_opt, TextOptions, NumOptions, ModuleOptions, Arg
  <2>2. opt.key = "no-auto-reauth" => d = [c EXCEPT !.restart_on_logoff = FALSE]
    BY <1>7 DEF parse_one_opt, TextOptions, NumOptions, ModuleOptions, Arg
  <2>3. opt.key # "no-auto-reauth" => d.restart_on_logoff = c.restart_on_logoff
    <3> SUFFICES ASSUME opt.key # "no-auto-reauth" PROVE d.restart_on_logoff = c.restart_on_logoff
      OBVIOUS
    <3>1. d \in {c, [c EXCEPT !.save_now = TRUE],
                 [c EXCEPT !.logoff_before_start = (opt.value = None \/ atoi(arg) # 0)],
                 [c EXCEPT !.kill_type = "KILL_ONLY"], [c EXCEPT !.kill_type = "KILL_AND_START"]}
      BY <1>7 DEF parse_one_opt, TextOptions, NumOptions, ModuleOptions, Arg
    <3> HIDE DEF d, arg
    <3> QED BY <1>2, <3>1 DEF PROG_CONFIG
  <2> HIDE DEF d, arg
  <2>4. d.num = c.num /\ d.text = c.text /\ d.modules = c.modules
    BY <1>2, <2>1 DEF PROG_CONFIG
  <2>5. d.restart_on_logoff = IF opt.key = "no-auto-reauth" THEN FALSE ELSE c.restart_on_logoff
    BY <1>2, <2>2, <2>3 DEF PROG_CONFIG
  <2> QED BY <1>7, <2>4, <2>5, NamesApart DEF ParseEffect, d
<1> QED BY <1>3, <1>4, <1>5, <1>6, <1>7

\* The fields that kill, logoff-first and save set.
SameFlags(c, d) ==
    d.kill_type = c.kill_type /\ d.logoff_before_start = c.logoff_before_start /\ d.save_now = c.save_now

\* A text that is copied leaves them as they are, and every other text.
LEMMA CopyFlags ==
    ASSUME NEW c \in Configs, NEW o \in TextOptions, NEW t
    PROVE  SameFlags(c, COPY_N_ARG_TO(c, o, t))
<1> DEFINE v == Some(Cut(t, MaxLen(o)))
           e == COPY_N_ARG_TO(c, o, t)
           texts == [c.text EXCEPT ![o] = v]
<1>1. c \in PROG_CONFIG
  BY DEF Configs
<1>2. e = [c EXCEPT !.text = texts]
  BY <1>1 DEF COPY_N_ARG_TO, PROG_CONFIG
<1> HIDE DEF e, texts
<1>3. /\ e.kill_type = c.kill_type /\ e.logoff_before_start = c.logoff_before_start
      /\ e.save_now = c.save_now
  BY <1>1, <1>2 DEF PROG_CONFIG
<1> QED BY <1>3 DEF SameFlags, e

\* Where they stay, and the password does, an option that is none of theirs is done.
LEMMA FlagsStay ==
    ASSUME NEW c \in Configs, NEW d, NEW opt, SameFlags(c, d),
           opt.key \notin {"kill", "logoff-first", "save", "password"},
           opt.key # "password-env" => d.text["password"] = c.text["password"]
    PROVE  OneFlags(c, d, opt)
<1>1. c.save_now \in BOOLEAN
  BY DEF Configs, PROG_CONFIG
<1> QED BY <1>1 DEF SameFlags, OneFlags

\* parse_one_opt sets them by their own options, and the password by its own or
\* password-env.
LEMMA FlagsOne ==
    ASSUME NEW c \in Configs, NEW opt \in Options
    PROVE  OneFlags(c, parse_one_opt(c, opt), opt)
<1> DEFINE arg == Arg(opt)
           d == parse_one_opt(c, opt)
<1>1. opt.key \in Names /\ arg \in Texts /\ opt.value \in Maybe(Texts)
  BY ArgType DEF Options
<1>2. c \in PROG_CONFIG /\ c.save_now \in BOOLEAN
  BY DEF Configs, PROG_CONFIG
<1>3. CASE opt.key \in TextOptions
  <2> DEFINE e == COPY_N_ARG_TO(c, opt.key, arg)
  <2>1. /\ SameFlags(c, e)
        /\ \A p \in TextOptions :
                e.text[p] = IF p = opt.key THEN Some(Cut(arg, MaxLen(opt.key))) ELSE c.text[p]
    BY <1>3, CopyEffect, CopyFlags
  <2>2. e \in PROG_CONFIG
    BY <1>1, <1>3, CopyType DEF Configs
  <2>3. d = e \/ d = [e EXCEPT !.proxy_on = TRUE]
    <3>1. CASE opt.key = "proxy-lan-iface"
      BY <3>1 DEF parse_one_opt, TextOptions, NumOptions, ModuleOptions, Arg
    <3>2. CASE opt.key # "proxy-lan-iface"
      BY <1>3, <3>2 DEF parse_one_opt, TextOptions, NumOptions, ModuleOptions, Arg
    <3> QED BY <3>1, <3>2
  <2> HIDE DEF e, d, arg
  <2>4. /\ d.kill_type = e.kill_type /\ d.logoff_before_start = e.logoff_before_start
        /\ d.save_now = e.save_now /\ d.text = e.text
    BY <2>2, <2>3 DEF PROG_CONFIG
  <2>5. SameFlags(c, d)
    BY <2>1, <2>4 DEF SameFlags
  <2>6. "password" \in TextOptions /\ opt.key \notin {"kill", "logoff-first", "save", "password-env"}
    BY <1>3 DEF TextOptions
  <2>7. CASE opt.key = "password"
    <3>1. d.text["password"] = Some(Cut(arg, MaxLen("password")))
      BY <2>1, <2>4, <2>6, <2>7
    <3> QED BY <1>2, <2>5, <2>6, <2>7, <3>1 DEF SameFlags, OneFlags, d, arg
  <2>8. CASE opt.key # "password"
    <3>1. d.text["password"] = c.text["password"]
      BY <2>1, <2>4, <2>6, <2>8
    <3>2. OneFlags(c, d, opt)
      BY <2>5, <2>6, <2>8, <3>1, FlagsStay
    <3> QED BY <3>2 DEF d
  <2> QED BY <2>7, <2>8
<1>4. CASE opt.key = "password-env"
  <2>1. SameFlags(c, d)
    <3>1. CASE c.environ = None
      <4>1. d = c
        BY <1>4, <3>1 DEF parse_one_opt, TextOptions, NumOptions, ModuleOptions, Arg
      <4> HIDE DEF d
      <4> QED BY <4>1 DEF SameFlags
    <3>2. CASE c.environ # None
      <4> DEFINE e == COPY_N_ARG_TO(c, "password", c.environ[1])
      <4>1. c.environ[1] \in Texts /\ "password" \in TextOptions
        BY <1>2, <3>2, SomeText DEF PROG_CONFIG, TextOptions
      <4>2. e \in PROG_CONFIG /\ SameFlags(c, e)
        BY <4>1, CopyType, CopyFlags DEF Configs
      <4>3. d = [e EXCEPT !.environ = None]
        BY <1>4, <3>2 DEF parse_one_opt, TextOptions, NumOptions, ModuleOptions, Arg
      <4> HIDE DEF e, d
      <4>4. /\ d.kill_type = e.kill_type /\ d.logoff_before_start = e.logoff_before_start
            /\ d.save_now = e.save_now
        BY <4>2, <4>3 DEF PROG_CONFIG
      <4> QED BY <4>2, <4>4 DEF SameFlags
    <3> QED BY <3>1, <3>2
  <2> HIDE DEF d
  <2>2. OneFlags(c, d, opt)
    BY <1>4, <2>1, FlagsStay
  <2> QED BY <2>2 DEF d
<1>5. CASE opt.key \in NumOptions \cup ModuleOptions \cup {"no-auto-reauth"}
  <2> DEFINE n == IF opt.key = "daemonize" THEN DaemonType(arg) ELSE atoi(arg)
             nums == [c.num EXCEPT ![opt.key] = n]
             modules == Append(c.modules, arg)
  <2>1. \/ d = [c EXCEPT !.num = nums]
        \/ d = [c EXCEPT !.modules = modules]
        \/ d = [c EXCEPT !.restart_on_logoff = FALSE]
    <3>1. CASE opt.key \in NumOptions
      <4>1. d = SetNumber(c, opt.key, n)
        BY <3>1 DEF parse_one_opt, TextOptions, NumOptions, ModuleOptions, Arg
      <4> QED BY <1>2, <4>1 DEF PROG_CONFIG, SetNumber
    <3>2. CASE opt.key \in ModuleOptions
      <4>1. d = [c EXCEPT !.modules = Append(@, arg)]
        BY <3>2 DEF parse_one_opt, TextOptions, NumOptions, ModuleOptions, Arg
      <4> QED BY <1>2, <4>1 DEF PROG_CONFIG
    <3>3. CASE opt.key = "no-auto-reauth"
      BY <3>3 DEF parse_one_opt, TextOptions, NumOptions, ModuleOptions, Arg
    <3> QED BY <1>5, <3>1, <3>2, <3>3
  <2> HIDE DEF d, n, nums, modules
  <2>2. /\ d.kill_type = c.kill_type /\ d.logoff_before_start = c.logoff_before_start
        /\ d.save_now = c.save_now /\ d.text = c.text
    BY <1>2, <2>1 DEF PROG_CONFIG
  <2>3. SameFlags(c, d)
    BY <2>2 DEF SameFlags
  <2>4. opt.key \notin {"kill", "logoff-first", "save", "password", "password-env"}
    BY <1>5 DEF NumOptions, ModuleOptions
  <2>5. OneFlags(c, d, opt)
    BY <2>2, <2>3, <2>4, FlagsStay
  <2> QED BY <2>5 DEF d
<1>6. CASE opt.key = "save"
  <2>1. d = [c EXCEPT !.save_now = TRUE]
    BY <1>6 DEF parse_one_opt, TextOptions, NumOptions, ModuleOptions, Arg
  <2> HIDE DEF d
  <2>2. /\ d.kill_type = c.kill_type /\ d.logoff_before_start = c.logoff_before_start
        /\ d.save_now = TRUE /\ d.text = c.text
    BY <1>2, <2>1 DEF PROG_CONFIG
  <2> QED BY <1>6, <2>2 DEF OneFlags, d
<1>7. CASE opt.key = "logoff-first"
  <2> DEFINE flag == opt.value = None \/ atoi(arg) # 0
  <2>1. d = [c EXCEPT !.logoff_before_start = flag]
    BY <1>7 DEF parse_one_opt, TextOptions, NumOptions, ModuleOptions, Arg
  <2>2. flag = AsFlag(Some(opt.value), c.logoff_before_start)
    BY DEF AsFlag, Some, None, Arg
  <2> HIDE DEF d, flag
  <2>3. /\ d.kill_type = c.kill_type /\ d.logoff_before_start = flag
        /\ d.save_now = c.save_now /\ d.text = c.text
    BY <1>2, <2>1 DEF PROG_CONFIG
  <2> QED BY <1>2, <1>7, <2>2, <2>3 DEF OneFlags, d
<1>8. CASE opt.key = "kill"
  <2> DEFINE type == IF opt.value = None THEN "KILL_ONLY" ELSE "KILL_AND_START"
  <2>1. d = [c EXCEPT !.kill_type = type]
    BY <1>8 DEF parse_one_opt, TextOptions, NumOptions, ModuleOptions, Arg
  <2>2. type = AsKillType(Some(opt.value), c.kill_type)
    BY DEF AsKillType, Some, None
  <2> HIDE DEF d, type
  <2>3. /\ d.kill_type = type /\ d.logoff_before_start = c.logoff_before_start
        /\ d.save_now = c.save_now /\ d.text = c.text
    BY <1>2, <2>1 DEF PROG_CONFIG
  <2> QED BY <1>2, <1>8, <2>2, <2>3 DEF OneFlags, d
<1>9. CASE opt.key \notin TextOptions \cup NumOptions \cup ModuleOptions
                        \cup {"password-env", "no-auto-reauth", "save", "logoff-first", "kill"}
  <2>1. d = c
    BY <1>9 DEF parse_one_opt, TextOptions, NumOptions, ModuleOptions, Arg
  <2> HIDE DEF d
  <2>2. SameFlags(c, d) /\ d.text = c.text /\ "password" \in TextOptions
    BY <2>1 DEF SameFlags, TextOptions
  <2>3. OneFlags(c, d, opt)
    BY <1>9, <2>2, FlagsStay
  <2> QED BY <2>3 DEF d
<1> QED BY <1>3, <1>4, <1>5, <1>6, <1>7, <1>8, <1>9

\* So the options that have one value make one step.
LEMMA EffectStep ==
    ASSUME NEW c \in Configs, NEW d, NEW opt, ParseEffect(c, d, opt), OneFlags(c, d, opt)
    PROVE  OneStep(c, d, opt)
<1>1. c.num \in [NumOptions -> Int] /\ c.restart_on_logoff \in BOOLEAN
  BY DEF Configs, PROG_CONFIG
<1>2. \A o \in NumOptions : d.num[o] = IF opt.key = o THEN NumberOf(o, Arg(opt)) ELSE c.num[o]
  <2>1. CASE opt.key \in NumOptions
    <3>1. d.num = [c.num EXCEPT ![opt.key] = NumberOf(opt.key, Arg(opt))]
      BY <2>1 DEF ParseEffect
    <3> QED BY <1>1, <3>1
  <2>2. CASE opt.key \notin NumOptions
    <3>1. d.num = c.num
      BY <2>2 DEF ParseEffect
    <3> QED BY <2>2, <3>1
  <2> QED BY <2>1, <2>2
<1> QED BY <1>1, <1>2 DEF ParseEffect, OneStep

\* The file: the last value of every option, the modules in order.
LEMMA FileAfter ==
    ASSUME NEW c \in Configs
    PROVE  \A opts \in Seq(Options) :
                /\ ParseAll(c, opts) \in Configs
                /\ After(c, ParseAll(c, opts), opts)
<1>1. \A x \in Configs, y \in Options : parse_one_opt(x, y) \in Configs
  BY ParseType DEF Options
<1>2. /\ ParseAll(c, Nil) = c
      /\ \A list \in Seq(Options) : ParseAll(c, list) \in Configs
      /\ \A list \in Seq(Options), e \in Options :
            ParseAll(c, Add(list, e)) = parse_one_opt(ParseAll(c, list), e)
  <2>1. ParseAll(c, Nil) = c
    BY <1>1, ParseFold
  <2>2. \A list \in Seq(Options) : ParseAll(c, list) \in Configs
    BY <1>1, ParseFold
  <2>3. \A list \in Seq(Options), e \in Options :
            ParseAll(c, Add(list, e)) = parse_one_opt(ParseAll(c, list), e)
    BY <1>1, ParseAdd
  <2> QED BY <2>1, <2>2, <2>3
<1> DEFINE K == {l \in Seq(Options) : After(c, ParseAll(c, l), l)}
<1>3. Nil \in K
  BY <1>2, AfterNil, NilType
<1>4. ASSUME NEW l \in Seq(Options), NEW e \in Options, l \in K PROVE Add(l, e) \in K
  <2> DEFINE d == ParseAll(c, l)
             d2 == ParseAll(c, Add(l, e))
  <2>1. d \in Configs /\ d2 = parse_one_opt(d, e) /\ After(c, d, l)
    BY <1>2, <1>4
  <2> HIDE DEF d, d2
  <2>2. OneStep(d, d2, e)
    BY <2>1, ParseOne, FlagsOne, EffectStep
  <2>3. After(c, d2, Add(l, e))
    BY <2>1, <2>2, AfterAdd
  <2>4. Add(l, e) \in Seq(Options)
    BY AddType
  <2> QED BY <2>3, <2>4 DEF d2
<1> HIDE DEF K
<1>5. \A l \in Seq(Options) : l \in K
  BY <1>3, <1>4, AddInduct
<1> QED BY <1>2, <1>5 DEF K

-----------------------------------------------------------------------------
(* The modules *)

\* The modules of a file, in order.
LEMMA FileModules ==
    ASSUME NEW c \in Configs, c.modules = Nil
    PROVE  \A opts \in Seq(Options) : ParseAll(c, opts).modules = Values(opts, ModuleOptions)
<1>1. \A x \in Configs, y \in Options : parse_one_opt(x, y) \in Configs
  BY ParseType DEF Options
<1>2. ParseAll(c, Nil) = c
  BY <1>1, ParseFold
<1>3. \A list \in Seq(Options) : ParseAll(c, list) \in Configs
  BY <1>1, ParseFold
<1>4. \A list \in Seq(Options), e \in Options :
            ParseAll(c, Add(list, e)) = parse_one_opt(ParseAll(c, list), e)
  BY <1>1, ParseAdd
<1> DEFINE K == {l \in Seq(Options) : ParseAll(c, l).modules = Values(l, ModuleOptions)}
<1>5. Nil \in K
  BY <1>2, ValuesRules, NilType
<1>6. ASSUME NEW l \in Seq(Options), NEW e \in Options, l \in K PROVE Add(l, e) \in K
  <2> DEFINE d == ParseAll(c, l)
             d2 == ParseAll(c, Add(l, e))
  <2>1. d \in Configs /\ d2 = parse_one_opt(d, e) /\ d.modules = Values(l, ModuleOptions)
    BY <1>3, <1>4, <1>6
  <2> HIDE DEF d, d2
  <2>2. ParseEffect(d, d2, e)
    BY <2>1, ParseOne
  <2>3. d2.modules = IF e.key \in ModuleOptions THEN Add(d.modules, Arg(e)) ELSE d.modules
    BY <2>2 DEF ParseEffect
  <2>4. Values(Add(l, e), ModuleOptions) =
            IF e.key \in ModuleOptions THEN Add(Values(l, ModuleOptions), Arg(e))
            ELSE Values(l, ModuleOptions)
    BY ValuesRules
  <2>5. Add(l, e) \in Seq(Options)
    BY AddType
  <2> QED BY <2>1, <2>3, <2>4, <2>5 DEF d2
<1> HIDE DEF K
<1>7. \A l \in Seq(Options) : l \in K
  BY <1>5, <1>6, AddInduct
<1> QED BY <1>7 DEF K

\* What a word does: the first module gives up those there are.
LEMMA ParseWordOne ==
    ASSUME NEW acc \in Parsed, NEW opt \in Options
    PROVE  LET d == ParseWord(acc, opt)
           IN  /\ d \in Parsed
               /\ OneStep(acc.cfg, d.cfg, opt)
               /\ d.reset = (acc.reset \/ opt.key \in ModuleOptions)
               /\ d.cfg.modules = IF opt.key \notin ModuleOptions THEN acc.cfg.modules
                                  ELSE Add(IF acc.reset THEN acc.cfg.modules ELSE Nil, Arg(opt))
<1> DEFINE c == acc.cfg
           d == ParseWord(acc, opt)
<1>1. c \in Configs /\ acc.reset \in BOOLEAN /\ c \in PROG_CONFIG
  BY DEF Parsed, Configs
<1>2. d \in Parsed
  BY ParseWordType DEF Options
<1>3. CASE opt.key \in ModuleOptions /\ ~acc.reset
  <2> DEFINE e == [c EXCEPT !.modules = <<>>]
             f == parse_one_opt(e, opt)
  <2>1. d = [cfg |-> f, reset |-> TRUE]
    BY <1>3 DEF ParseWord
  <2>2. /\ e \in PROG_CONFIG /\ e.num = c.num /\ e.text = c.text
        /\ e.restart_on_logoff = c.restart_on_logoff /\ e.modules = Nil
        /\ SameFlags(c, e)
    <3>1. <<>> \in Seq(Texts)
      OBVIOUS
    <3> HIDE DEF c
    <3> QED BY <1>1, <3>1 DEF PROG_CONFIG, Nil, SameFlags
  <2> HIDE DEF e, c
  <2>3. e \in Configs
    BY <1>1, <2>2, SetOther
  <2>4. ParseEffect(e, f, opt)
    BY <2>3, ParseOne
  <2>5. OneStep(e, f, opt)
    BY <2>3, <2>4, FlagsOne, EffectStep
  <2> HIDE DEF f
  <2>6. OneStep(c, f, opt)
    BY <2>2, <2>5 DEF OneStep, OneFlags, SameFlags, AsKillType, AsFlag, Some, None
  <2>7. f.modules = Add(Nil, Arg(opt))
    BY <1>3, <2>2, <2>4 DEF ParseEffect
  <2>8. d.cfg = f /\ d.reset = TRUE
    BY <2>1
  <2> HIDE DEF d
  <2> QED BY <1>2, <1>3, <2>6, <2>7, <2>8 DEF c, d
<1>4. CASE ~(opt.key \in ModuleOptions /\ ~acc.reset)
  <2> DEFINE f == parse_one_opt(c, opt)
  <2>1. d = [acc EXCEPT !.cfg = f]
    BY <1>4 DEF ParseWord
  <2>2. ParseEffect(c, f, opt)
    BY <1>1, ParseOne
  <2>3. OneStep(c, f, opt)
    BY <1>1, <2>2, FlagsOne, EffectStep
  <2> HIDE DEF f
  <2>4. f.modules = IF opt.key \in ModuleOptions THEN Add(c.modules, Arg(opt)) ELSE c.modules
    BY <2>2 DEF ParseEffect
  <2>5. d.cfg = f /\ d.reset = acc.reset
    BY <2>1 DEF Parsed
  <2> HIDE DEF d
  <2> QED BY <1>1, <1>2, <1>4, <2>3, <2>4, <2>5 DEF d
<1> QED BY <1>3, <1>4

\* The command line: the last value of every option, and its modules, if it has any,
\* in the place of those there were.
LEMMA WordsAfter ==
    ASSUME NEW c \in Configs
    PROVE  \A opts \in Seq(Options) :
                LET d == ParseWords([cfg |-> c, reset |-> FALSE], opts)
                IN  /\ d \in Parsed
                    /\ After(c, d.cfg, opts)
                    /\ d.cfg.modules = IF Values(opts, ModuleOptions) = Nil THEN c.modules
                                       ELSE Values(opts, ModuleOptions)
<1> DEFINE a == [cfg |-> c, reset |-> FALSE]
           V(l) == Values(l, ModuleOptions)
<1>0. a \in Parsed /\ a.cfg = c /\ a.reset = FALSE
  BY DEF Parsed
<1> HIDE DEF a
<1>1. \A x \in Parsed, y \in Options : ParseWord(x, y) \in Parsed
  BY ParseWordType DEF Options
<1>2. ParseWords(a, Nil) = a
  BY <1>0, <1>1, WordsFold
<1>3. \A list \in Seq(Options) : ParseWords(a, list) \in Parsed
  BY <1>0, <1>1, WordsFold
<1>4. \A list \in Seq(Options), e \in Options :
            ParseWords(a, Add(list, e)) = ParseWord(ParseWords(a, list), e)
  BY <1>0, <1>1, WordsAdd
<1> DEFINE Good(l) == LET d == ParseWords(a, l)
                      IN  /\ After(c, d.cfg, l)
                          /\ d.reset = (V(l) # Nil)
                          /\ d.cfg.modules = IF V(l) = Nil THEN c.modules ELSE V(l)
           K == {l \in Seq(Options) : Good(l)}
<1>5. Nil \in K
  <2>1. V(Nil) = Nil
    BY ValuesRules
  <2>2. After(c, c, Nil)
    BY AfterNil
  <2> HIDE DEF V
  <2> QED BY <1>0, <1>2, <2>1, <2>2, NilType
<1>6. ASSUME NEW l \in Seq(Options), NEW e \in Options, l \in K PROVE Add(l, e) \in K
  <2> DEFINE d == ParseWords(a, l)
             d2 == ParseWords(a, Add(l, e))
             m == V(Add(l, e))
             n == V(l)
  <2>1. d \in Parsed /\ d2 = ParseWord(d, e)
    BY <1>3, <1>4
  <2>2. /\ After(c, d.cfg, l)
        /\ d.reset = (n # Nil)
        /\ d.cfg.modules = IF n = Nil THEN c.modules ELSE n
    BY <1>6
  <2>3. m = IF e.key \in ModuleOptions THEN Add(n, Arg(e)) ELSE n
    BY ValuesRules
  <2>4. n \in Seq(Texts) /\ Arg(e) \in Texts
    BY ValuesRules, ArgType DEF Options
  <2>5. Add(l, e) \in Seq(Options)
    BY AddType
  <2> HIDE DEF d, d2, m, n
  <2>6. Add(n, Arg(e)) # Nil
    BY <2>4, AddType
  <2>7. /\ OneStep(d.cfg, d2.cfg, e)
        /\ d2.reset = (d.reset \/ e.key \in ModuleOptions)
        /\ d2.cfg.modules = IF e.key \notin ModuleOptions THEN d.cfg.modules
                            ELSE Add(IF d.reset THEN d.cfg.modules ELSE Nil, Arg(e))
    BY <2>1, ParseWordOne
  <2>8. After(c, d2.cfg, Add(l, e))
    BY <2>2, <2>7, AfterAdd
  <2>9. d2.reset = (m # Nil)
    BY <2>2, <2>3, <2>6, <2>7
  <2>10. d2.cfg.modules = IF m = Nil THEN c.modules ELSE m
    BY <2>2, <2>3, <2>6, <2>7
  <2>11. Good(Add(l, e))
    BY <2>8, <2>9, <2>10 DEF d2, m
  <2> QED BY <2>5, <2>11
<1> HIDE DEF K
<1>7. \A l \in Seq(Options) : l \in K
  BY <1>5, <1>6, AddInduct
<1> QED BY <1>3, <1>7 DEF K, a

-----------------------------------------------------------------------------
(* The properties of rjv3 *)

\* One argument of rj-option, and a list of them.
AddProp(p, v)        == append_rj_cmdline_opt(p, v).priv
AddProps(p, values) == FoldLeft(AddProp, p, values)

\* AddProp along a list of arguments.
LEMMA AddPropsAlong ==
    ASSUME NEW T, NEW U, NEW F, Step(F, T, U), NEW a \in T, NEW list \in Seq(U),
           \A x \in T, y \in U : At(F, x, y) = AddProp(x, y)
    PROVE  AddProps(a, list) = Along(F, T, a, list)
<1> DEFINE P == SUBSET Places(list)
           Is(w) == w = [s \in P |-> IF s = {} THEN a
                                     ELSE AddProp(w[s \ {Max(s)}], list[Max(s)])]
           v == CHOOSE w : Is(w)
<1>1. AddProps(a, list) = v[Places(list)]
  BY ListPlaces DEF FoldLeft, MapThenFoldSet, AddProps
<1>2. \A s \in P : s # {} => list[Max(s)] \in U /\ s \ {Max(s)} \in P
  BY LastPlace
<1>3. \A x \in T, y \in U : F[<<x, y>>] = AddProp(x, y)
  BY DEF At
<1>4. PICK w : FoldsIn(F, T, a, list, w)
  BY FoldExists
<1>5. Is(w)
  BY <1>2, <1>3, <1>4 DEF FoldsIn, Folds
<1>6. Is(v)
  BY <1>5
<1> HIDE DEF v
<1>7. Folds(F, T, a, list, v)
  BY <1>2, <1>3, <1>6 DEF Folds
<1>8. v[Places(list)] = Along(F, T, a, list)
  BY <1>7, FoldAlong
<1> QED BY <1>1, <1>8

\* Nothing done for no element, and what one keeps all keep.
LEMMA AddPropsFold ==
    ASSUME NEW T, NEW U, \A x \in T, y \in U : AddProp(x, y) \in T, NEW a \in T
    PROVE  /\ AddProps(a, Nil) = a
           /\ \A list \in Seq(U) : AddProps(a, list) \in T
<1> DEFINE F == [p \in T \X U |-> AddProp(p[1], p[2])]
<1>1. Step(F, T, U) /\ \A x \in T, y \in U : At(F, x, y) = AddProp(x, y)
  BY DEF Step, At
<1> HIDE DEF F
<1>2. \A list \in Seq(U) : AddProps(a, list) = Along(F, T, a, list)
  BY <1>1, AddPropsAlong
<1> QED BY <1>1, <1>2, AlongRules

\* One element more.
LEMMA AddPropsAdd ==
    ASSUME NEW T, NEW U, \A x \in T, y \in U : AddProp(x, y) \in T, NEW a \in T
    PROVE  \A list \in Seq(U), e \in U :
                AddProps(a, Add(list, e)) = AddProp(AddProps(a, list), e)
<1> DEFINE F == [p \in T \X U |-> AddProp(p[1], p[2])]
<1>1. Step(F, T, U) /\ \A x \in T, y \in U : At(F, x, y) = AddProp(x, y)
  BY DEF Step, At
<1> HIDE DEF F
<1>2. \A list \in Seq(U) : AddProps(a, list) = Along(F, T, a, list)
  BY <1>1, AddPropsAlong
<1> QED BY <1>1, <1>2, AlongRules

\* Props with one argument more.
LEMMA PropsRules ==
    /\ Props(Nil) = NewPriv
    /\ \A values \in Seq(Texts) : Props(values) \in Privs
    /\ \A values \in Seq(Texts), v \in Texts : Props(Add(values, v)) = AddProp(Props(values), v)
<1>1. \A x \in Privs, y \in Texts : AddProp(x, y) \in Privs
  BY AppendType DEF AddProp, Answers
<1>2. \A values : Props(values) = AddProps(NewPriv, values)
  BY DEF Props, AddProps, AddProp
<1>3. AddProps(NewPriv, Nil) = NewPriv
  BY <1>1, NewPrivType, AddPropsFold
<1>4. \A values \in Seq(Texts) : AddProps(NewPriv, values) \in Privs
  BY <1>1, NewPrivType, AddPropsFold
<1>5. \A values \in Seq(Texts), v \in Texts :
        AddProps(NewPriv, Add(values, v)) = AddProp(AddProps(NewPriv, values), v)
  BY <1>1, NewPrivType, AddPropsAdd
<1> QED BY <1>2, <1>3, <1>4, <1>5

\* Concatenation, as the lists of properties need it.
LEMMA ConcatRules ==
    ASSUME NEW T, NEW r \in Seq(T)
    PROVE  /\ r \o Nil = r /\ Nil \o r = r
           /\ \A s \in Seq(T) : r \o s \in Seq(T)
           /\ \A s \in Seq(T), e \in T : Add(r \o s, e) = r \o Add(s, e)
           /\ \A s \in Seq(T), t \in Seq(T) : (r \o s) \o t = r \o (s \o t)
<1>1. r \o Nil = r /\ Nil \o r = r
  BY DEF Nil
<1>2. \A s \in Seq(T) : r \o s \in Seq(T)
  OBVIOUS
<1>3. \A s \in Seq(T), t \in Seq(T) : (r \o s) \o t = r \o (s \o t)
  BY ConcatAssociative
<1>4. ASSUME NEW s \in Seq(T), NEW e \in T PROVE Add(r \o s, e) = r \o Add(s, e)
  <2>1. <<e>> \in Seq(T)
    OBVIOUS
  <2>2. Append(r \o s, e) = (r \o s) \o <<e>> /\ Append(s, e) = s \o <<e>>
    BY <1>2, AppendIsConcat
  <2>3. (r \o s) \o <<e>> = r \o (s \o <<e>>)
    BY <1>3, <2>1
  <2> QED BY <2>2, <2>3 DEF Add
<1> QED BY <1>1, <1>2, <1>3, <1>4

\* q has the properties of p and then those of r.
Then(p, r, q) == q.props = p.props \o r.props /\ q.mods = p.mods \o r.mods

\* The fields of rjv3_priv.
LEMMA PrivLists ==
    \A p \in Privs : /\ p.props \in Seq(RjProps) /\ p.mods \in Seq(RjProps)
                     /\ p.text \in [RjTextOptions -> Maybe(Texts)] /\ p.num \in [RjNumOptions -> Int]
BY DEF Privs, RJV3_PRIV

\* No properties are added to those there are.
LEMMA NewThen == \A p \in Privs : Then(p, NewPriv, p)
<1>1. NewPriv.props = Nil /\ NewPriv.mods = Nil
  BY DEF NewPriv, Nil
<1>2. \A l \in Seq(RjProps) : l \o Nil = l
  BY ConcatRules
<1> QED BY <1>1, <1>2, PrivLists DEF Then

\* What an argument adds does not depend on what is there.
LEMMA AddPropThen ==
    ASSUME NEW p \in Privs, NEW r \in Privs, NEW q \in Privs, NEW v \in Texts, Then(p, r, q)
    PROVE  /\ Then(p, AddProp(r, v), AddProp(q, v))
           /\ AddProp(q, v).num = q.num /\ AddProp(q, v).text = q.text
<1> DEFINE part == Tokens(v)
           prop == RjProp(part)
           r2 == AddProp(r, v)
           q2 == AddProp(q, v)
<1>1. part \in Seq(Texts \ {<<>>})
  BY TokensType
<1> HIDE DEF part
<1>2. Len(part) \in Nat
  BY <1>1
<1>3. ~(Len(part) < 2) => prop \in RjProps
  BY <1>1, <1>2, RjPropType
<1> HIDE DEF prop
<1>4. \/ Len(part) < 2 /\ r2 = r /\ q2 = q
      \/ /\ ~(Len(part) < 2)
         /\ r2 = [r EXCEPT !.mods = Append(@, prop)] /\ q2 = [q EXCEPT !.mods = Append(@, prop)]
      \/ /\ ~(Len(part) < 2)
         /\ r2 = [r EXCEPT !.props = Append(@, prop)] /\ q2 = [q EXCEPT !.props = Append(@, prop)]
  BY DEF append_rj_cmdline_opt, AddProp, RjProp, part, prop
<1>5. /\ r \in RJV3_PRIV /\ q \in RJV3_PRIV
  BY DEF Privs
<1>6. \A l \in Seq(RjProps), s \in Seq(RjProps), e \in RjProps : Add(l \o s, e) = l \o Add(s, e)
  BY ConcatRules
<1> HIDE DEF r2, q2
<1>7. CASE r2 = r /\ q2 = q
  BY <1>7 DEF r2, q2
<1>8. CASE ~(Len(part) < 2) /\ r2 = [r EXCEPT !.mods = Append(@, prop)]
                            /\ q2 = [q EXCEPT !.mods = Append(@, prop)]
  <2>1. /\ r2.mods = Add(r.mods, prop) /\ r2.props = r.props
        /\ q2.mods = Add(q.mods, prop) /\ q2.props = q.props
        /\ q2.num = q.num /\ q2.text = q.text
    BY <1>5, <1>8 DEF RJV3_PRIV, Add
  <2>2. Add(q.mods, prop) = p.mods \o Add(r.mods, prop)
    <3>1. p.mods \in Seq(RjProps) /\ r.mods \in Seq(RjProps) /\ prop \in RjProps
      BY <1>3, <1>8, PrivLists
    <3>2. q.mods = p.mods \o r.mods
      BY DEF Then
    <3> QED BY <1>6, <3>1, <3>2
  <2> QED BY <2>1, <2>2 DEF Then, r2, q2
<1>9. CASE ~(Len(part) < 2) /\ r2 = [r EXCEPT !.props = Append(@, prop)]
                            /\ q2 = [q EXCEPT !.props = Append(@, prop)]
  <2>1. /\ r2.props = Add(r.props, prop) /\ r2.mods = r.mods
        /\ q2.props = Add(q.props, prop) /\ q2.mods = q.mods
        /\ q2.num = q.num /\ q2.text = q.text
    BY <1>5, <1>9 DEF RJV3_PRIV, Add
  <2>2. Add(q.props, prop) = p.props \o Add(r.props, prop)
    <3>1. p.props \in Seq(RjProps) /\ r.props \in Seq(RjProps) /\ prop \in RjProps
      BY <1>3, <1>9, PrivLists
    <3>2. q.props = p.props \o r.props
      BY DEF Then
    <3> QED BY <1>6, <3>1, <3>2
  <2> QED BY <2>1, <2>2 DEF Then, r2, q2
<1> QED BY <1>4, <1>7, <1>8, <1>9

\* The options of rjv3 after a list of options.
RjAfter(p, q, opts) ==
    /\ \A o \in RjNumOptions : q.num[o] = AsNumber(o, LastSaid(o, opts), p.num[o])
    /\ \A o \in RjTextOptions : q.text[o] = AsText(LastSaid(o, opts), p.text[o], RjMaxLen(o))

Asked(opts) == Props(Values(opts, {"rj-option"}))

RjDone(p, q, opts) == RjAfter(p, q, opts) /\ Then(p, Asked(opts), q)

RjOneStep(p, q, e) ==
    /\ \A o \in RjNumOptions : q.num[o] = IF e.key = o THEN NumberOf(o, Arg(e)) ELSE p.num[o]
    /\ \A o \in RjTextOptions : q.text[o] = IF e.key = o THEN Some(Cut(Arg(e), RjMaxLen(o))) ELSE p.text[o]

OneOptions == Opt(OneText)

\* An option with a value is an option.
LEMMA OneOption ==
    /\ \A e \in OneOptions : e \in Options /\ Arg(e) = e.value[1] /\ Arg(e) \in Texts
    /\ \A l \in Seq(OneOptions) : l \in Seq(Options)
<1>1. \A e \in OneOptions : e \in Options /\ e.value # None
  BY SomeText DEF OneOptions, Options, Opt
<1>2. \A e \in OneOptions : Arg(e) \in Texts /\ Arg(e) = e.value[1]
  BY <1>1, ArgType DEF Options, Arg
<1>3. \A l \in Seq(OneOptions) : l \in Seq(Options)
  BY <1>1
<1> QED BY <1>1, <1>2, <1>3

\* rjv3's options are told apart by their names.
LEMMA RjNamesApart ==
    /\ \A o \in RjNumOptions : o # "rj-option" /\ o \notin RjTextOptions
    /\ \A o \in RjTextOptions : o # "rj-option" /\ o \notin RjNumOptions
BY DEF RjNumOptions, RjTextOptions

\* One option: its own field, or a property more.
LEMMA RjParseOne ==
    ASSUME NEW q \in Privs, NEW opt \in OneOptions
    PROVE  LET q2 == rjv3_parse_one_opt(q, opt).priv
           IN  /\ q2 \in Privs
               /\ RjOneStep(q, q2, opt)
               /\ opt.key = "rj-option" => q2 = AddProp(q, Arg(opt))
               /\ opt.key # "rj-option" => q2.props = q.props /\ q2.mods = q.mods
<1> DEFINE arg == Arg(opt)
           q2 == rjv3_parse_one_opt(q, opt).priv
<1>1. arg \in Texts /\ arg = opt.value[1]
  BY OneOption
<1>2. q2 \in Privs
  BY RjParseType DEF OneOptions, Answers
<1>3. q \in RJV3_PRIV /\ q.text \in [RjTextOptions -> Maybe(Texts)] /\ q.num \in [RjNumOptions -> Int]
  BY PrivLists DEF Privs
<1>4. CASE opt.key = "rj-option"
  <2>1. q2 = AddProp(q, arg)
    BY <1>1, <1>4, RjCases DEF AddProp
  <2>2. q2.num = q.num /\ q2.text = q.text
    <3>1. Then(q, NewPriv, q)
      BY NewThen
    <3> HIDE DEF q2, arg
    <3> QED BY <1>1, <2>1, <3>1, NewPrivType, AddPropThen
  <2> HIDE DEF q2, arg
  <2> QED BY <1>2, <1>4, <2>1, <2>2, RjNamesApart DEF RjOneStep, q2, arg
<1>5. CASE opt.key \in RjNumOptions
  <2> DEFINE n == RjNumberOf(opt.key, arg)
             nums == [q.num EXCEPT ![opt.key] = n]
  <2>1. q2 = SetRjNumber(q, opt.key, n)
    BY <1>1, <1>5, RjCases
  <2>2. q2 = [q EXCEPT !.num = nums]
    BY <1>3, <2>1 DEF RJV3_PRIV, SetRjNumber
  <2>3. n = NumberOf(opt.key, arg)
    BY <1>5 DEF NumberOf, RjNumberOf, RjNumOptions
  <2> HIDE DEF q2, n, arg
  <2>4. \A o \in RjNumOptions : nums[o] = IF opt.key = o THEN n ELSE q.num[o]
    BY <1>3, <1>5
  <2> HIDE DEF nums
  <2>5. q2.num = nums /\ q2.text = q.text /\ q2.props = q.props /\ q2.mods = q.mods
    BY <1>3, <2>2 DEF RJV3_PRIV
  <2> QED BY <1>2, <1>5, <2>3, <2>4, <2>5, RjNamesApart DEF RjOneStep, q2, arg
<1>6. CASE opt.key \in RjTextOptions
  <2> DEFINE t == Cut(arg, RjMaxLen(opt.key))
             texts == [q.text EXCEPT ![opt.key] = Some(t)]
  <2>1. q2 = SetRjText(q, opt.key, t)
    BY <1>1, <1>6, RjCases
  <2>2. q2 = [q EXCEPT !.text = texts]
    BY <1>3, <2>1 DEF RJV3_PRIV, SetRjText
  <2> HIDE DEF q2, t, arg
  <2>4. \A o \in RjTextOptions : texts[o] = IF opt.key = o THEN Some(t) ELSE q.text[o]
    BY <1>3, <1>6
  <2> HIDE DEF texts
  <2>5. q2.text = texts /\ q2.num = q.num /\ q2.props = q.props /\ q2.mods = q.mods
    BY <1>3, <2>2 DEF RJV3_PRIV
  <2> QED BY <1>2, <1>6, <2>4, <2>5, RjNamesApart DEF RjOneStep, q2, arg, t
<1>7. CASE opt.key \notin RjNumOptions \cup RjTextOptions \cup {"rj-option"}
  <2>1. q2 = q
    BY <1>7, RjCases
  <2> HIDE DEF q2
  <2> QED BY <1>2, <1>7, <2>1 DEF RjOneStep, q2
<1> HIDE DEF q2
<1> QED BY <1>4, <1>5, <1>6, <1>7 DEF q2

\* No option changes nothing.
LEMMA RjDoneNil == \A p \in Privs : RjDone(p, p, Nil)
<1>1. Asked(Nil) = NewPriv
  BY ValuesRules, PropsRules DEF Asked
<1> QED BY <1>1, NewThen, LastOpt DEF RjDone, RjAfter, AsNumber, AsText

\* One option more is one step more.
LEMMA RjDoneAdd ==
    ASSUME NEW p \in Privs, NEW q \in Privs, NEW opts \in Seq(OneOptions), NEW e \in OneOptions,
           RjDone(p, q, opts)
    PROVE  RjDone(p, rjv3_parse_one_opt(q, e).priv, Add(opts, e))
<1> DEFINE q2 == rjv3_parse_one_opt(q, e).priv
<1>1. opts \in Seq(Options) /\ e \in Options /\ Arg(e) \in Texts
  BY OneOption
<1>2. Some(Arg(e)) # None /\ Some(Arg(e))[1] = Arg(e)
  BY <1>1, SomeText
<1>3. \A o : LastSaid(o, Add(opts, e)) = IF e.key = o THEN Some(Arg(e)) ELSE LastSaid(o, opts)
  BY <1>1, LastOpt
<1>4. /\ RjOneStep(q, q2, e)
      /\ e.key = "rj-option" => q2 = AddProp(q, Arg(e))
      /\ e.key # "rj-option" => q2.props = q.props /\ q2.mods = q.mods
  BY RjParseOne
<1> HIDE DEF q2
<1>5. \A o \in RjNumOptions : q2.num[o] = AsNumber(o, LastSaid(o, Add(opts, e)), p.num[o])
  <2> SUFFICES ASSUME NEW o \in RjNumOptions
               PROVE  q2.num[o] = AsNumber(o, LastSaid(o, Add(opts, e)), p.num[o])
    OBVIOUS
  <2>1. CASE e.key = o
    BY <1>2, <1>3, <1>4, <2>1 DEF RjOneStep, AsNumber
  <2>2. CASE e.key # o
    BY <1>3, <1>4, <2>2 DEF RjOneStep, RjDone, RjAfter
  <2> QED BY <2>1, <2>2
<1>6. \A o \in RjTextOptions : q2.text[o] = AsText(LastSaid(o, Add(opts, e)), p.text[o], RjMaxLen(o))
  <2> SUFFICES ASSUME NEW o \in RjTextOptions
               PROVE  q2.text[o] = AsText(LastSaid(o, Add(opts, e)), p.text[o], RjMaxLen(o))
    OBVIOUS
  <2>1. CASE e.key = o
    BY <1>2, <1>3, <1>4, <2>1 DEF RjOneStep, AsText
  <2>2. CASE e.key # o
    BY <1>3, <1>4, <2>2 DEF RjOneStep, RjDone, RjAfter
  <2> QED BY <2>1, <2>2
<1>7. Then(p, Asked(Add(opts, e)), q2)
  <2> DEFINE v == Values(opts, {"rj-option"})
  <2>1. v \in Seq(Texts)
    BY <1>1, ValuesRules
  <2>2. Values(Add(opts, e), {"rj-option"}) = IF e.key = "rj-option" THEN Add(v, Arg(e)) ELSE v
    <3> DEFINE names == {"rj-option"}
    <3>1. Values(Add(opts, e), names) = IF e.key \in names THEN Add(Values(opts, names), Arg(e))
                                        ELSE Values(opts, names)
      BY <1>1, ValuesRules
    <3> QED BY <3>1
  <2>3. Asked(opts) = Props(v)
    BY DEF Asked
  <2>4. Asked(Add(opts, e)) = Props(IF e.key = "rj-option" THEN Add(v, Arg(e)) ELSE v)
    BY <2>2 DEF Asked
  <2> HIDE DEF v
  <2>5. Then(p, Props(v), q)
    BY <2>3 DEF RjDone
  <2>6. CASE e.key = "rj-option"
    <3>1. Props(Add(v, Arg(e))) = AddProp(Props(v), Arg(e)) /\ Props(v) \in Privs
      BY <1>1, <2>1, PropsRules
    <3>2. Then(p, AddProp(Props(v), Arg(e)), AddProp(q, Arg(e)))
      BY <1>1, <2>5, <3>1, AddPropThen
    <3> QED BY <1>4, <2>4, <2>6, <3>1, <3>2
  <2>7. CASE e.key # "rj-option"
    BY <1>4, <2>4, <2>5, <2>7 DEF Then
  <2> QED BY <2>6, <2>7
<1> QED BY <1>5, <1>6, <1>7 DEF RjDone, RjAfter, q2

-----------------------------------------------------------------------------
(* rjv3's options read several times over *)

\* The options of the file, for rjv3.
LEMMA RjFileDone ==
    ASSUME NEW p \in Privs
    PROVE  \A opts \in Seq(OneOptions) :
                RjParseAll(p, opts) \in Privs /\ RjDone(p, RjParseAll(p, opts), opts)
<1>1. \A x \in Privs, y \in OneOptions : rjv3_parse_one_opt(x, y).priv \in Privs
  BY RjParseOne
<1>2. RjParseAll(p, Nil) = p
  BY <1>1, RjParseFold
<1>3. \A list \in Seq(OneOptions) : RjParseAll(p, list) \in Privs
  BY <1>1, RjParseFold
<1>4. \A list \in Seq(OneOptions), e \in OneOptions :
            RjParseAll(p, Add(list, e)) = rjv3_parse_one_opt(RjParseAll(p, list), e).priv
  BY <1>1, RjParseAdd
<1> DEFINE K == {l \in Seq(OneOptions) : RjDone(p, RjParseAll(p, l), l)}
<1>5. Nil \in K
  BY <1>2, RjDoneNil, NilType
<1>6. ASSUME NEW l \in Seq(OneOptions), NEW e \in OneOptions, l \in K PROVE Add(l, e) \in K
  <2> DEFINE q == RjParseAll(p, l)
             q2 == RjParseAll(p, Add(l, e))
  <2>1. q \in Privs /\ q2 = rjv3_parse_one_opt(q, e).priv /\ RjDone(p, q, l)
    BY <1>3, <1>4, <1>6
  <2> HIDE DEF q, q2
  <2>2. RjDone(p, q2, Add(l, e))
    BY <2>1, RjDoneAdd
  <2>3. Add(l, e) \in Seq(OneOptions)
    BY AddType
  <2> QED BY <2>2, <2>3 DEF q2
<1> HIDE DEF K
<1>7. \A l \in Seq(OneOptions) : l \in K
  BY <1>5, <1>6, AddInduct
<1> QED BY <1>3, <1>7 DEF K

\* Those of the command line, when none is refused.
LEMMA RjWordsDone ==
    ASSUME NEW p \in Privs
    PROVE  \A opts \in Seq(OneOptions) :
                LET w == RjWords([ok |-> TRUE, priv |-> p], opts)
                IN  w \in Answers /\ (w.ok => RjDone(p, w.priv, opts))
<1> DEFINE a == [ok |-> TRUE, priv |-> p]
<1>0. a \in Answers /\ a.ok /\ a.priv = p
  BY DEF Answers
<1> HIDE DEF a
<1>1. \A x \in Answers, y \in OneOptions : RjWord(x, y) \in Answers
  BY RjWordType DEF OneOptions
<1>2. RjWords(a, Nil) = a
  BY <1>0, <1>1, RjWordsFold
<1>3. \A list \in Seq(OneOptions) : RjWords(a, list) \in Answers
  BY <1>0, <1>1, RjWordsFold
<1>4. \A list \in Seq(OneOptions), e \in OneOptions :
            RjWords(a, Add(list, e)) = RjWord(RjWords(a, list), e)
  BY <1>0, <1>1, RjWordsAdd
<1> DEFINE K == {l \in Seq(OneOptions) : RjWords(a, l).ok => RjDone(p, RjWords(a, l).priv, l)}
<1>5. Nil \in K
  BY <1>0, <1>2, RjDoneNil, NilType
<1>6. ASSUME NEW l \in Seq(OneOptions), NEW e \in OneOptions, l \in K PROVE Add(l, e) \in K
  <2> DEFINE w == RjWords(a, l)
             w2 == RjWords(a, Add(l, e))
  <2>1. w \in Answers /\ w2 = RjWord(w, e) /\ (w.ok => RjDone(p, w.priv, l))
    BY <1>3, <1>4, <1>6
  <2> HIDE DEF w, w2
  <2>2. Add(l, e) \in Seq(OneOptions)
    BY AddType
  <2>3. CASE w.ok
    <3>1. w2.priv = rjv3_parse_one_opt(w.priv, e).priv
      BY <2>1, <2>3 DEF RjWord
    <3>2. w.priv \in Privs
      BY <2>1 DEF Answers
    <3>3. RjDone(p, w2.priv, Add(l, e))
      BY <2>1, <2>3, <3>1, <3>2, RjDoneAdd
    <3> QED BY <2>2, <3>3 DEF w2
  <2>4. CASE ~w.ok
    <3>1. ~w2.ok
      BY <2>1, <2>4 DEF RjWord
    <3> QED BY <2>2, <3>1 DEF w2
  <2> QED BY <2>3, <2>4
<1> HIDE DEF K
<1>7. \A l \in Seq(OneOptions) : l \in K
  BY <1>5, <1>6, AddInduct
<1> QED BY <1>3, <1>7 DEF K, a

\* A list so many times over.
LEMMA TimesRules ==
    ASSUME NEW T, NEW list \in Seq(T)
    PROVE  /\ Times(0, list) = Nil
           /\ \A n \in Nat : Times(n, list) \in Seq(T)
           /\ \A n \in Nat : Times(n + 1, list) = Times(n, list) \o list
<1> DEFINE V == Seq(T)
           C(n) == [i \in 1..n |-> list]
<1>1. /\ FlattenSeq(Nil) = Nil
      /\ \A l \in Seq(Seq(T)) : FlattenSeq(l) \in Seq(T)
      /\ \A l \in Seq(Seq(T)), e \in Seq(T) : FlattenSeq(Add(l, e)) = FlattenSeq(l) \o e
  BY FlattenRules
<1>2. C(0) = Nil
  BY DEF Nil
<1>3. \A n \in Nat : C(n) \in Seq(V)
  OBVIOUS
<1>4. ASSUME NEW n \in Nat PROVE C(n + 1) = Add(C(n), list)
  <2>1. Append(C(n), list) = C(n + 1)
    OBVIOUS
  <2> QED BY <2>1 DEF Add
<1>5. \A n : Times(n, list) = FlattenSeq(C(n))
  BY DEF Times
<1> HIDE DEF C, V
<1>6. \A n \in Nat : C(n) \in Seq(Seq(T))
  BY <1>3 DEF V
<1>7. \A n \in Nat : Times(n, list) \in Seq(T)
  BY <1>1, <1>5, <1>6
<1>8. \A n \in Nat : Times(n + 1, list) = Times(n, list) \o list
  <2> SUFFICES ASSUME NEW n \in Nat PROVE Times(n + 1, list) = Times(n, list) \o list
    OBVIOUS
  <2>1. FlattenSeq(Add(C(n), list)) = FlattenSeq(C(n)) \o list
    BY <1>1, <1>6
  <2> QED BY <1>4, <1>5, <2>1
<1> QED BY <1>1, <1>2, <1>5, <1>7, <1>8

\* The times rjv3 is in a list of plugins.
Count(names) == Len(Select(names, {Rjv3}))

\* Count with one name more.
LEMMA CountRules ==
    /\ Count(Nil) = 0
    /\ \A names \in Seq(Texts) : Count(names) \in Nat
    /\ \A names \in Seq(Texts), e \in Texts :
            Count(Add(names, e)) = IF e = Rjv3 THEN Count(names) + 1 ELSE Count(names)
<1> DEFINE S == {Rjv3}
<1>1. /\ Select(Nil, S) = Nil
      /\ \A l \in Seq(Texts) : Select(l, S) \in Seq(Texts)
      /\ \A l \in Seq(Texts), e \in Texts :
            Select(Add(l, e), S) = IF e \in S THEN Add(Select(l, S), e) ELSE Select(l, S)
  BY SelectRules
<1>2. Len(Nil) = 0 /\ \A l \in Seq(Texts) : Len(l) \in Nat
  BY DEF Nil
<1>3. \A l \in Seq(Texts), e \in Texts : Len(Add(l, e)) = Len(l) + 1
  BY AddType
<1>4. \A l : Count(l) = Len(Select(l, S))
  BY DEF Count
<1>5. \A e : e \in S <=> e = Rjv3
  OBVIOUS
<1> HIDE DEF S
<1> QED BY <1>1, <1>2, <1>3, <1>4, <1>5

\* rjv3 is counted when it is there.
LEMMA CountIn == \A names \in Seq(Texts) : Count(names) = 0 <=> Rjv3 \notin ToSet(names)
<1> DEFINE K == {l \in Seq(Texts) : Count(l) = 0 <=> Rjv3 \notin ToSet(l)}
<1>1. Nil \in K
  <2>1. Nil \in Seq(Texts) /\ ToSet(Nil) = {}
    BY DEF Nil, ToSet
  <2> QED BY <2>1, CountRules
<1>2. ASSUME NEW l \in Seq(Texts), NEW e \in Texts, l \in K PROVE Add(l, e) \in K
  <2>1. Add(l, e) \in Seq(Texts)
    BY AddType
  <2>2. ToSet(Add(l, e)) = ToSet(l) \cup {e}
    <3>1. Len(l) \in Nat /\ DOMAIN l = 1..Len(l) /\ DOMAIN Append(l, e) = 1..(Len(l) + 1)
      OBVIOUS
    <3>2. \A i \in 1..Len(l) : Append(l, e)[i] = l[i]
      BY <3>1
    <3>3. Append(l, e)[Len(l) + 1] = e
      BY <3>1
    <3>4. 1..(Len(l) + 1) = (1..Len(l)) \cup {Len(l) + 1}
      BY <3>1
    <3> QED BY <3>1, <3>2, <3>3, <3>4 DEF ToSet, Add
  <2>3. Count(l) \in Nat /\ Count(Add(l, e)) = IF e = Rjv3 THEN Count(l) + 1 ELSE Count(l)
    BY CountRules
  <2>4. Count(l) = 0 <=> Rjv3 \notin ToSet(l)
    BY <1>2
  <2>5. Count(Add(l, e)) = 0 <=> Rjv3 \notin ToSet(Add(l, e))
    BY <2>2, <2>3, <2>4
  <2> QED BY <2>1, <2>5
<1> HIDE DEF K
<1>3. \A l \in Seq(Texts) : l \in K
  BY <1>1, <1>2, AddInduct, NilType
<1> QED BY <1>3 DEF K

\* The options of rjv3 after they were read n times over.
Rounds(p, q, n, opts) ==
    /\ n = 0 => q.num = p.num /\ q.text = p.text
    /\ n # 0 => RjAfter(p, q, opts)
    /\ q.props = p.props \o Times(n, Asked(opts).props)
    /\ q.mods = p.mods \o Times(n, Asked(opts).mods)

\* The properties that are asked for are in range.
LEMMA AskedType == \A opts \in Seq(Options) : Asked(opts) \in Privs
BY ValuesRules, PropsRules DEF Asked

\* Before the first time.
LEMMA RoundsNil ==
    ASSUME NEW p \in Privs, NEW opts \in Seq(Options)
    PROVE  Rounds(p, p, 0, opts)
<1> DEFINE r == Asked(opts)
<1>1. r \in Privs
  BY AskedType
<1> HIDE DEF r
<1>2. /\ r.props \in Seq(RjProps) /\ r.mods \in Seq(RjProps)
      /\ p.props \in Seq(RjProps) /\ p.mods \in Seq(RjProps)
  BY <1>1, PrivLists
<1>3. Times(0, r.props) = Nil /\ Times(0, r.mods) = Nil
  BY <1>2, TimesRules
<1>4. \A l \in Seq(RjProps) : l \o Nil = l
  BY ConcatRules
<1> QED BY <1>2, <1>3, <1>4 DEF Rounds, r

\* One time more: values as before, properties added once more.
LEMMA RoundsNext ==
    ASSUME NEW p \in Privs, NEW q \in Privs, NEW q2 \in Privs, NEW n \in Nat,
           NEW opts \in Seq(Options), Rounds(p, q, n, opts), RjDone(q, q2, opts)
    PROVE  Rounds(p, q2, n + 1, opts)
<1> DEFINE r == Asked(opts)
<1>1. r \in Privs
  BY AskedType
<1>2. Then(q, r, q2) /\ RjAfter(q, q2, opts)
  BY DEF RjDone
<1>3. /\ n = 0 => q.num = p.num /\ q.text = p.text
      /\ n # 0 => RjAfter(p, q, opts)
      /\ q.props = p.props \o Times(n, r.props)
      /\ q.mods = p.mods \o Times(n, r.mods)
  BY DEF Rounds
<1> HIDE DEF r
<1>4. /\ r.props \in Seq(RjProps) /\ r.mods \in Seq(RjProps)
      /\ p.props \in Seq(RjProps) /\ p.mods \in Seq(RjProps)
  BY <1>1, PrivLists
<1>5. /\ Times(n, r.props) \in Seq(RjProps) /\ Times(n, r.mods) \in Seq(RjProps)
      /\ Times(n + 1, r.props) = Times(n, r.props) \o r.props
      /\ Times(n + 1, r.mods) = Times(n, r.mods) \o r.mods
  BY <1>4, TimesRules
<1>6. ASSUME NEW a \in Seq(RjProps), NEW b \in Seq(RjProps), NEW c \in Seq(RjProps)
      PROVE  (a \o b) \o c = a \o (b \o c)
  BY ConcatAssociative
<1>7. q2.props = p.props \o Times(n + 1, r.props)
  <2>1. q2.props = (p.props \o Times(n, r.props)) \o r.props
    BY <1>2, <1>3 DEF Then
  <2>2. (p.props \o Times(n, r.props)) \o r.props = p.props \o (Times(n, r.props) \o r.props)
    BY <1>4, <1>5, <1>6
  <2> QED BY <1>5, <2>1, <2>2
<1>8. q2.mods = p.mods \o Times(n + 1, r.mods)
  <2>1. q2.mods = (p.mods \o Times(n, r.mods)) \o r.mods
    BY <1>2, <1>3 DEF Then
  <2>2. (p.mods \o Times(n, r.mods)) \o r.mods = p.mods \o (Times(n, r.mods) \o r.mods)
    BY <1>4, <1>5, <1>6
  <2> QED BY <1>5, <2>1, <2>2
<1>9. RjAfter(p, q2, opts)
  <2>1. CASE n = 0
    BY <1>2, <1>3, <2>1 DEF RjAfter
  <2>2. CASE n # 0
    <3>1. RjAfter(p, q, opts)
      BY <1>3, <2>2
    <3>2. \A o \in RjNumOptions : q2.num[o] = AsNumber(o, LastSaid(o, opts), p.num[o])
      BY <1>2, <3>1 DEF RjAfter, AsNumber
    <3>3. \A o \in RjTextOptions : q2.text[o] = AsText(LastSaid(o, opts), p.text[o], RjMaxLen(o))
      BY <1>2, <3>1 DEF RjAfter, AsText
    <3> QED BY <3>2, <3>3 DEF RjAfter
  <2> QED BY <2>1, <2>2
<1>10. n + 1 # 0
  OBVIOUS
<1> QED BY <1>7, <1>8, <1>9, <1>10 DEF Rounds, r

\* The file, for every time the plugin is selected.
LEMMA PluginFilesRounds ==
    ASSUME NEW lines \in Lines, NEW p \in Privs
    PROVE  \A names \in Seq(Texts) :
                /\ PluginFiles(lines, p, names) \in Privs
                /\ Rounds(p, PluginFiles(lines, p, names), Count(names), parser_traverser(lines))
<1> DEFINE opts == parser_traverser(lines)
<1>0. opts \in Seq(OneOptions) /\ opts \in Seq(Options)
  BY TraverserType, OneOption DEF OneOptions
<1>1. \A x \in Privs, y \in Texts : PluginFile(lines, x, y) \in Privs
  BY RjFileType DEF PluginFile
<1>2. PluginFiles(lines, p, Nil) = p
  BY <1>1, PluginFilesFold
<1>3. \A list \in Seq(Texts) : PluginFiles(lines, p, list) \in Privs
  BY <1>1, PluginFilesFold
<1>4. \A list \in Seq(Texts), e \in Texts :
            PluginFiles(lines, p, Add(list, e)) = PluginFile(lines, PluginFiles(lines, p, list), e)
  BY <1>1, PluginFilesAdd
<1>5. \A q \in Privs : PluginFile(lines, q, Rjv3) = RjParseAll(q, opts)
  BY RjFileType DEF PluginFile
<1> HIDE DEF opts
<1> DEFINE K == {l \in Seq(Texts) : Rounds(p, PluginFiles(lines, p, l), Count(l), opts)}
<1>6. Nil \in K
  <2>1. Rounds(p, p, 0, opts)
    BY <1>0, RoundsNil
  <2> QED BY <1>2, <2>1, CountRules, NilType
<1>7. ASSUME NEW l \in Seq(Texts), NEW e \in Texts, l \in K PROVE Add(l, e) \in K
  <2> DEFINE q == PluginFiles(lines, p, l)
             q2 == PluginFiles(lines, p, Add(l, e))
  <2>1. q \in Privs /\ q2 \in Privs /\ q2 = PluginFile(lines, q, e) /\ Rounds(p, q, Count(l), opts)
    <3>1. Add(l, e) \in Seq(Texts)
      BY AddType
    <3> QED BY <1>3, <1>4, <1>7, <3>1
  <2> HIDE DEF q, q2
  <2>2. Add(l, e) \in Seq(Texts)
    BY AddType
  <2>3. Count(l) \in Nat /\ Count(Add(l, e)) = IF e = Rjv3 THEN Count(l) + 1 ELSE Count(l)
    BY CountRules
  <2>4. CASE e = Rjv3
    <3>1. RjDone(q, q2, opts)
      BY <1>0, <1>5, <2>1, <2>4, RjFileDone
    <3>2. Rounds(p, q2, Count(l) + 1, opts)
      BY <1>0, <2>1, <2>3, <3>1, RoundsNext
    <3> QED BY <2>2, <2>3, <2>4, <3>2 DEF q2
  <2>5. CASE e # Rjv3
    <3>1. q2 = q
      BY <2>1, <2>5 DEF PluginFile
    <3> QED BY <2>1, <2>2, <2>3, <2>5, <3>1 DEF q2
  <2> QED BY <2>4, <2>5
<1> HIDE DEF K
<1>8. \A l \in Seq(Texts) : l \in K
  BY <1>6, <1>7, AddInduct
<1> QED BY <1>3, <1>8 DEF K, opts

\* The plugins on the command line, one more at a time.
LEMMA PluginWordsRules ==
    ASSUME NEW words \in Seq(Words), NEW acc \in Answers
    PROVE  /\ PluginWords(words, acc, Nil) = acc
           /\ \A list \in Seq(Texts) : PluginWords(words, acc, list) \in Answers
           /\ \A list \in Seq(Texts), e \in Texts :
                PluginWords(words, acc, Add(list, e)) = PluginWord(words, PluginWords(words, acc, list), e)
<1>1. \A x \in Answers, y \in Texts : PluginWord(words, x, y) \in Answers
  <2> SUFFICES ASSUME NEW x \in Answers, NEW y \in Texts PROVE PluginWord(words, x, y) \in Answers
    OBVIOUS
  <2>1. x.priv \in Privs
    BY DEF Answers
  <2> QED BY <2>1, RjCmdlineType DEF PluginWord
<1>2. PluginWords(words, acc, Nil) = acc
  <2> DEFINE F == [x \in Answers \X Texts |-> PluginWord(words, x[1], x[2])]
  <2>1. Step(F, Answers, Texts) /\ \A x \in Answers, y \in Texts : At(F, x, y) = PluginWord(words, x, y)
    BY <1>1 DEF Step, At
  <2> HIDE DEF F
  <2>2. Nil \in Seq(Texts)
    BY NilType
  <2>3. PluginWords(words, acc, Nil) = Along(F, Answers, acc, Nil)
    BY <2>1, <2>2, PluginWordsAlong
  <2> QED BY <2>1, <2>3, AlongRules
<1>3. \A list \in Seq(Texts) : PluginWords(words, acc, list) \in Answers
  BY <1>1, PluginWordsFold
<1>4. \A list \in Seq(Texts), e \in Texts :
        PluginWords(words, acc, Add(list, e)) = PluginWord(words, PluginWords(words, acc, list), e)
  BY <1>1, PluginWordsAdd
<1> QED BY <1>2, <1>3, <1>4

\* The command line, for every time, when it is never refused.
LEMMA PluginWordsRounds ==
    ASSUME NEW words \in Seq(Words), NEW p \in Privs
    PROVE  \A names \in Seq(Texts) :
                LET w == PluginWords(words, [ok |-> TRUE, priv |-> p], names)
                IN  /\ w \in Answers
                    /\ w.ok => Rounds(p, w.priv, Count(names), getopt_long(words, RjArguments(words)).opts)
<1> DEFINE a == [ok |-> TRUE, priv |-> p]
           opts == getopt_long(words, RjArguments(words)).opts
<1>0. opts \in Seq(OneOptions) /\ opts \in Seq(Options)
  BY RjGivenType, OneOption DEF OneOptions
<1>2. a \in Answers /\ a.ok /\ a.priv = p
  BY DEF Answers
<1>0a. a \in Answers
  BY <1>2
<1> HIDE DEF a
<1>3. PluginWords(words, a, Nil) = a
  BY <1>0a, PluginWordsRules
<1>4. \A list \in Seq(Texts) : PluginWords(words, a, list) \in Answers
  BY <1>0a, PluginWordsRules
<1>5. \A list \in Seq(Texts), e \in Texts :
            PluginWords(words, a, Add(list, e)) = PluginWord(words, PluginWords(words, a, list), e)
  BY <1>0a, PluginWordsRules
<1>6. ASSUME NEW q \in Privs, rjv3_process_cmdline_opts(q, words).ok
      PROVE  RjDone(q, rjv3_process_cmdline_opts(q, words).priv, opts)
  <2> DEFINE got == getopt_long(words, RjArguments(words))
             end == RjWords([ok |-> TRUE, priv |-> q], opts)
  <2>1. rjv3_process_cmdline_opts(q, words) = [end EXCEPT !.ok = @ /\ ~got.missing] /\ end \in Answers
    BY RjCmdlineType
  <2>2. end.ok => RjDone(q, end.priv, opts)
    BY <1>0, RjWordsDone
  <2> HIDE DEF end, got, opts
  <2>3. /\ rjv3_process_cmdline_opts(q, words).priv = end.priv
        /\ rjv3_process_cmdline_opts(q, words).ok = (end.ok /\ ~got.missing)
    BY <2>1 DEF Answers
  <2> QED BY <1>6, <2>2, <2>3
<1> HIDE DEF opts
<1> DEFINE K == {l \in Seq(Texts) : PluginWords(words, a, l).ok =>
                                        Rounds(p, PluginWords(words, a, l).priv, Count(l), opts)}
<1>7. Nil \in K
  <2>1. Rounds(p, p, 0, opts)
    BY <1>0, RoundsNil
  <2> QED BY <1>2, <1>3, <2>1, CountRules, NilType
<1>8. ASSUME NEW l \in Seq(Texts), NEW e \in Texts, l \in K PROVE Add(l, e) \in K
  <2> DEFINE w == PluginWords(words, a, l)
             w2 == PluginWords(words, a, Add(l, e))
  <2>1. Add(l, e) \in Seq(Texts)
    BY AddType
  <2>2. /\ w \in Answers /\ w2 \in Answers /\ w2 = PluginWord(words, w, e)
        /\ w.ok => Rounds(p, w.priv, Count(l), opts)
    BY <1>4, <1>5, <1>8, <2>1
  <2> HIDE DEF w, w2
  <2>3. Count(l) \in Nat /\ Count(Add(l, e)) = IF e = Rjv3 THEN Count(l) + 1 ELSE Count(l)
    BY CountRules
  <2>4. w.priv \in Privs /\ w2.priv \in Privs
    BY <2>2 DEF Answers
  <2>5. CASE e = Rjv3 /\ w.ok
    <3>1. w2 = rjv3_process_cmdline_opts(w.priv, words)
      BY <2>2, <2>5 DEF PluginWord
    <3>2. ASSUME w2.ok PROVE Rounds(p, w2.priv, Count(l) + 1, opts)
      <4>1. RjDone(w.priv, w2.priv, opts)
        BY <1>6, <2>4, <3>1, <3>2
      <4> QED BY <1>0, <2>2, <2>3, <2>4, <2>5, <4>1, RoundsNext
    <3> QED BY <2>1, <2>3, <2>5, <3>2 DEF w2
  <2>6. CASE ~(e = Rjv3 /\ w.ok)
    <3>1. w2 = w
      BY <2>2, <2>6 DEF PluginWord
    <3>2. w2.ok => e # Rjv3
      BY <2>6, <3>1
    <3> QED BY <2>1, <2>2, <2>3, <3>1, <3>2 DEF w2
  <2> QED BY <2>5, <2>6
<1> HIDE DEF K
<1>9. \A l \in Seq(Texts) : l \in K
  BY <1>7, <1>8, AddInduct
<1> QED BY <1>4, <1>9 DEF K, a, opts

-----------------------------------------------------------------------------
(* The file and then the command line *)

\* The file and then the command line: a value of the command line wins.
LEMMA WantedIs ==
    ASSUME NEW given \in Seq(Options), NEW read \in Seq(Options), NEW o
    PROVE  /\ Wanted(o, given, read) = IF LastSaid(o, given) = None THEN LastSaid(o, read) ELSE LastSaid(o, given)
           /\ Wanted(o, given, read) = None <=> LastSaid(o, given) = None /\ LastSaid(o, read) = None
<1> DEFINE g == Values(given, {o})
           d == LastOf(Values(read, {o}), None)
<1>1. g \in Seq(Texts)
  BY ValuesRules
<1>2. LastSaid(o, given) = LastOf(g, None) /\ LastSaid(o, read) = d
  BY DEF LastSaid
<1>3. Wanted(o, given, read) = LastOf(g, d)
  BY DEF Wanted
<1> HIDE DEF g, d
<1>4. LastOf(g, d) = IF LastOf(g, None) = None THEN d ELSE LastOf(g, None)
  BY <1>1, LastRules
<1> QED BY <1>2, <1>3, <1>4

\* A value twice replaced is the value wanted.
LEMMA AsTwice ==
    ASSUME NEW given \in Seq(Options), NEW read \in Seq(Options), NEW o, NEW d, NEW max
    PROVE  /\ AsNumber(o, LastSaid(o, given), AsNumber(o, LastSaid(o, read), d))
                = AsNumber(o, Wanted(o, given, read), d)
           /\ AsText(LastSaid(o, given), AsText(LastSaid(o, read), d, max), max)
                = AsText(Wanted(o, given, read), d, max)
BY WantedIs DEF AsNumber, AsText

\* The flags and the password, the same way.
MergedFlags(c, q, given, read) ==
    /\ q.kill_type = AsKillType(WantedValue("kill", given, read), c.kill_type)
    /\ q.logoff_before_start = AsFlag(WantedValue("logoff-first", given, read), c.logoff_before_start)
    /\ (q.save_now <=> c.save_now \/ Wanted("save", given, read) # None)
    /\ (~Gives("password-env", given) /\ (Gives("password", given) \/ ~Gives("password-env", read)))
        => q.text["password"]
            = AsText(Wanted("password", given, read), c.text["password"], MaxLen("password"))

\* Two lists of options, one after the other.
LEMMA MergedFlagsOf ==
    ASSUME NEW given \in Seq(Options), NEW read \in Seq(Options), NEW c, NEW d, NEW q,
           AfterFlags(c, d, read), AfterFlags(d, q, given)
    PROVE  MergedFlags(c, q, given, read)
<1>1. q.kill_type = AsKillType(WantedValue("kill", given, read), c.kill_type)
  BY DEF AfterFlags, AsKillType, WantedValue
<1>2. q.logoff_before_start = AsFlag(WantedValue("logoff-first", given, read), c.logoff_before_start)
  BY DEF AfterFlags, AsFlag, WantedValue
<1>3. q.save_now <=> c.save_now \/ Wanted("save", given, read) # None
  BY WantedIs DEF AfterFlags
<1>4. ASSUME ~Gives("password-env", given), Gives("password", given) \/ ~Gives("password-env", read)
      PROVE  q.text["password"]
                = AsText(Wanted("password", given, read), c.text["password"], MaxLen("password"))
  <2>0. /\ LastSaid("password-env", given) = None
        /\ (LastSaid("password", given) = None => LastSaid("password-env", read) = None)
    BY <1>4, GivesIs
  <2>1. q.text["password"] = AsText(LastSaid("password", given), d.text["password"], MaxLen("password"))
    BY <2>0 DEF AfterFlags
  <2>2. Wanted("password", given, read) = IF LastSaid("password", given) = None
                                          THEN LastSaid("password", read) ELSE LastSaid("password", given)
    BY WantedIs
  <2>3. CASE LastSaid("password", given) = None
    <3>1. d.text["password"] = AsText(LastSaid("password", read), c.text["password"], MaxLen("password"))
      BY <2>0, <2>3 DEF AfterFlags
    <3> QED BY <2>1, <2>2, <2>3, <3>1 DEF AsText
  <2>4. CASE LastSaid("password", given) # None
    BY <2>1, <2>2, <2>4 DEF AsText
  <2> QED BY <2>3, <2>4
<1> QED BY <1>1, <1>2, <1>3, <1>4 DEF MergedFlags

\* What the program's configuration is, of the defaults and what was asked for.
Merged(c, q, given, read) ==
    /\ \A o \in NumOptions : q.num[o] = AsNumber(o, Wanted(o, given, read), c.num[o])
    /\ \A o \in Single : q.text[o] = AsText(Wanted(o, given, read), c.text[o], MaxLen(o))
    /\ (q.restart_on_logoff <=> c.restart_on_logoff /\ Wanted("no-auto-reauth", given, read) = None)
    /\ MergedFlags(c, q, given, read)

\* Two lists of options, one after the other.
LEMMA MergedOf ==
    ASSUME NEW given \in Seq(Options), NEW read \in Seq(Options), NEW c, NEW d, NEW q,
           After(c, d, read), After(d, q, given)
    PROVE  Merged(c, q, given, read)
<1>1. ASSUME NEW o \in NumOptions
      PROVE  q.num[o] = AsNumber(o, Wanted(o, given, read), c.num[o])
  <2>1. /\ q.num[o] = AsNumber(o, LastSaid(o, given), d.num[o])
        /\ d.num[o] = AsNumber(o, LastSaid(o, read), c.num[o])
    BY DEF After
  <2> QED BY <2>1, AsTwice
<1>2. ASSUME NEW o \in Single
      PROVE  q.text[o] = AsText(Wanted(o, given, read), c.text[o], MaxLen(o))
  <2>1. /\ q.text[o] = AsText(LastSaid(o, given), d.text[o], MaxLen(o))
        /\ d.text[o] = AsText(LastSaid(o, read), c.text[o], MaxLen(o))
    BY DEF After
  <2> QED BY <2>1, AsTwice
<1>3. q.restart_on_logoff <=> c.restart_on_logoff /\ Wanted("no-auto-reauth", given, read) = None
  BY WantedIs DEF After
<1>4. MergedFlags(c, q, given, read)
  BY MergedFlagsOf DEF After
<1> QED BY <1>1, <1>2, <1>3, <1>4 DEF Merged

\* The program's options, from the defaults to the end of the command line.
LEMMA ConfigMerged ==
    ASSUME NEW c \in Configs, c.modules = Nil, NEW lines \in Lines, NEW words \in Seq(Words)
    PROVE  LET q     == parse_cmdline_opts(parse_config_file(c, lines), words).cfg
               given == getopt_long(words, MainArguments(words)).opts
               read  == parser_traverser(lines)
           IN  /\ Merged(c, q, given, read)
               /\ q.modules = IF Values(given, ModuleOptions) = Nil THEN Values(read, ModuleOptions)
                              ELSE Values(given, ModuleOptions)
<1> DEFINE d     == parse_config_file(c, lines)
           q     == parse_cmdline_opts(d, words).cfg
           given == getopt_long(words, MainArguments(words)).opts
           read  == parser_traverser(lines)
<1>1. given \in Seq(Options) /\ read \in Seq(Options)
  BY GivenType, TraverserType, OneOption DEF Options, OneOptions
<1>2. d = ParseAll(c, read)
  BY DEF parse_config_file, ParseAll
<1>3. q = ParseWords([cfg |-> d, reset |-> FALSE], given).cfg
  BY DEF parse_cmdline_opts, ParseWords, ParseWord
<1> HIDE DEF d, q, given, read
<1>4. d \in Configs /\ After(c, d, read)
  BY <1>1, <1>2, FileAfter
<1>5. d.modules = Values(read, ModuleOptions)
  BY <1>1, <1>2, FileModules
<1>6. /\ After(d, q, given)
      /\ q.modules = IF Values(given, ModuleOptions) = Nil THEN d.modules
                     ELSE Values(given, ModuleOptions)
  BY <1>1, <1>3, <1>4, WordsAfter
<1>7. Merged(c, q, given, read)
  BY <1>1, <1>4, <1>6, MergedOf
<1> QED BY <1>5, <1>6, <1>7 DEF d, q, given, read

\* What rjv3's configuration is.
RjMerged(p, q, given, read) ==
    /\ \A o \in RjNumOptions : q.num[o] = AsNumber(o, Wanted(o, given, read), p.num[o])
    /\ \A o \in RjTextOptions : q.text[o] = AsText(Wanted(o, given, read), p.text[o], RjMaxLen(o))

\* Two lists of options, one after the other.
LEMMA RjMergedOf ==
    ASSUME NEW given \in Seq(Options), NEW read \in Seq(Options), NEW p, NEW r, NEW q,
           RjAfter(p, r, read), RjAfter(r, q, given)
    PROVE  RjMerged(p, q, given, read)
<1>1. ASSUME NEW o \in RjNumOptions
      PROVE  q.num[o] = AsNumber(o, Wanted(o, given, read), p.num[o])
  <2>1. /\ q.num[o] = AsNumber(o, LastSaid(o, given), r.num[o])
        /\ r.num[o] = AsNumber(o, LastSaid(o, read), p.num[o])
    BY DEF RjAfter
  <2> QED BY <2>1, AsTwice
<1>2. ASSUME NEW o \in RjTextOptions
      PROVE  q.text[o] = AsText(Wanted(o, given, read), p.text[o], RjMaxLen(o))
  <2>1. /\ q.text[o] = AsText(LastSaid(o, given), r.text[o], RjMaxLen(o))
        /\ r.text[o] = AsText(LastSaid(o, read), p.text[o], RjMaxLen(o))
    BY DEF RjAfter
  <2> QED BY <2>1, AsTwice
<1> QED BY <1>1, <1>2 DEF RjMerged

\* All that the plugins do with the file and the command line.
PluginAnswer(p, lines, words, names) ==
    PluginWords(words, [ok |-> TRUE, priv |-> PluginFiles(lines, p, names)], names)

\* rjv3's options, from the defaults to the end of the command line.
LEMMA PrivMerged ==
    ASSUME NEW p \in Privs, p.props = Nil, p.mods = Nil, NEW lines \in Lines, NEW words \in Seq(Words),
           NEW names \in Seq(Texts), PluginAnswer(p, lines, words, names).ok
    PROVE  LET q     == PluginAnswer(p, lines, words, names).priv
               given == getopt_long(words, RjArguments(words)).opts
               read  == parser_traverser(lines)
               n     == Count(names)
           IN  /\ Rjv3 \in ToSet(names) => RjMerged(p, q, given, read)
               /\ q.props = Times(n, Asked(read).props) \o Times(n, Asked(given).props)
               /\ q.mods = Times(n, Asked(read).mods) \o Times(n, Asked(given).mods)
<1> DEFINE r     == PluginFiles(lines, p, names)
           w     == PluginWords(words, [ok |-> TRUE, priv |-> r], names)
           q     == w.priv
           given == getopt_long(words, RjArguments(words)).opts
           read  == parser_traverser(lines)
           n     == Count(names)
<1>1. given \in Seq(Options) /\ read \in Seq(Options)
  BY RjGivenType, TraverserType, OneOption DEF OneOptions
<1>2. PluginAnswer(p, lines, words, names) = w /\ w.ok
  BY DEF PluginAnswer
<1>3. r \in Privs
  BY PluginFilesRounds
<1>4. Rounds(p, r, n, read)
  BY PluginFilesRounds
<1>5. w.ok => Rounds(r, q, n, given)
  <2> HIDE DEF r
  <2> QED BY <1>3, PluginWordsRounds
<1>6. n = 0 <=> Rjv3 \notin ToSet(names)
  BY CountIn
<1>7. n \in Nat
  BY CountRules
<1>8. Asked(read) \in Privs
  BY <1>1, AskedType
<1> HIDE DEF r, w, q, given, read, n
<1>9. Rounds(r, q, n, given)
  BY <1>2, <1>5
<1>10. Rjv3 \in ToSet(names) => RjMerged(p, q, given, read)
  BY <1>1, <1>4, <1>6, <1>9, RjMergedOf DEF Rounds
<1>11. q.props = Times(n, Asked(read).props) \o Times(n, Asked(given).props)
  <2>1. Asked(read).props \in Seq(RjProps)
    BY <1>8, PrivLists
  <2>2. Times(n, Asked(read).props) \in Seq(RjProps)
    BY <1>7, <2>1, TimesRules
  <2>3. Nil \o Times(n, Asked(read).props) = Times(n, Asked(read).props)
    BY <2>2, ConcatRules
  <2> QED BY <1>4, <1>9, <2>3 DEF Rounds
<1>12. q.mods = Times(n, Asked(read).mods) \o Times(n, Asked(given).mods)
  <2>1. Asked(read).mods \in Seq(RjProps)
    BY <1>8, PrivLists
  <2>2. Times(n, Asked(read).mods) \in Seq(RjProps)
    BY <1>7, <2>1, TimesRules
  <2>3. Nil \o Times(n, Asked(read).mods) = Times(n, Asked(read).mods)
    BY <2>2, ConcatRules
  <2> QED BY <1>4, <1>9, <2>3 DEF Rounds
<1>13. PluginAnswer(p, lines, words, names).priv = q
  BY <1>2 DEF q
<1> QED BY <1>10, <1>11, <1>12, <1>13 DEF given, read, n

-----------------------------------------------------------------------------
(* A run, step by step *)

\* A run that is not past OpenToSave has left the files as it found them, and only a
\* run that is over was refused.
FilesInv ==
    /\ pc \in {"file", "cmdline", "select", "plugins", "save"} => files = before
    /\ refused => pc = "off" /\ files = before

\* What the run has read: nothing when there is no file.
Pairs(found) == IF found = NoFile THEN <<>> ELSE conf_parser_parse_now(found)
FromFile(found) == parse_config_file(load_default_params(Environ), Pairs(found))
FromBoth(found, words) == parse_cmdline_opts(FromFile(found), words).cfg
Fresh(names) == IF Rjv3 \in ToSet(names) THEN rjv3_load_default_params(NewPriv) ELSE NewPriv
FromPlugins(found, words, names) == PluginAnswer(Fresh(names), Pairs(found), words, names)

\* How far a run has come, and what its configuration is by then.
Course ==
    /\ pc = "file" => cfg = load_default_params(Environ)
    /\ pc = "cmdline" => cfg = FromFile(before[path])
    /\ pc \in {"cmdline", "select", "plugins"} => conf = Pairs(before[path])
    /\ pc \in {"select", "plugins", "save", "write", "running"} => cfg = FromBoth(before[path], argv)
    /\ pc \in {"plugins", "save", "write", "running"} => active = Select(cfg.modules, Plugins)
    /\ pc \in {"file", "cmdline", "select", "plugins"} => priv = NewPriv
    /\ pc \in {"save", "write", "running"} =>
        /\ FromPlugins(before[path], argv, active).ok
        /\ priv = FromPlugins(before[path], argv, active).priv

\* Every step goes on as Course says.
LEMMA CourseStep == FilesInv /\ Course /\ [Next]_vars => Course'
<1> SUFFICES ASSUME FilesInv, Course, [Next]_vars PROVE Course'
  OBVIOUS
<1>1. CASE Start
  <2>1. /\ pc' = "off" \/ (pc' = "file" /\ cfg' = load_default_params(Environ))
        /\ priv' = NewPriv
    BY <1>1 DEF Start, Off
  <2> QED BY <2>1 DEF Course
<1>2. CASE ParseConfigFile
  <2>1. /\ pc = "file" /\ files[path] = before[path]
        /\ conf' = Pairs(files[path]) /\ cfg' = parse_config_file(cfg, Pairs(files[path]))
        /\ pc' \in {"off", "cmdline"}
        /\ UNCHANGED <<path, priv, before>>
    BY <1>2 DEF ParseConfigFile, Off, Pairs, FilesInv
  <2>2. cfg = load_default_params(Environ) /\ priv = NewPriv
    BY <2>1 DEF Course
  <2>3. cfg' = FromFile(before[path])
    BY <2>1, <2>2 DEF FromFile
  <2> QED BY <2>1, <2>2, <2>3 DEF Course
<1>3. CASE ParseCmdlineOpts
  <2>1. /\ pc = "cmdline" /\ cfg' = parse_cmdline_opts(cfg, argv).cfg
        /\ pc' \in {"off", "select"}
        /\ UNCHANGED <<argv, path, conf, priv, before>>
    BY <1>3 DEF ParseCmdlineOpts, Off
  <2>2. cfg = FromFile(before[path]) /\ conf = Pairs(before[path]) /\ priv = NewPriv
    BY <2>1 DEF Course
  <2>3. cfg' = FromBoth(before[path], argv)
    BY <2>1, <2>2 DEF FromBoth
  <2> QED BY <2>1, <2>2, <2>3 DEF Course
<1>4. CASE SelectImplementations
  <2>1. /\ pc = "select" /\ active' = Select(cfg.modules, Plugins)
        /\ pc' \in {"off", "plugins"}
        /\ UNCHANGED <<argv, path, conf, cfg, priv, before>>
    BY <1>4 DEF SelectImplementations, Off, select_packet_plugin
  <2>2. cfg = FromBoth(before[path], argv) /\ conf = Pairs(before[path]) /\ priv = NewPriv
    BY <2>1 DEF Course
  <2> QED BY <2>1, <2>2 DEF Course
<1>5. CASE InitPluginConfig
  <2> DEFINE got == PluginAnswer(packet_plugin_load_default_params(priv), conf, argv, active)
  <2>1. /\ pc = "plugins" /\ priv' = got.priv
        /\ pc' = "off" \/ (pc' = "save" /\ got.ok)
        /\ UNCHANGED <<argv, path, cfg, active, before>>
    BY <1>5 DEF InitPluginConfig, packet_plugin_process_cmdline_opts, packet_plugin_process_config_file,
                PluginFiles, PluginFile, PluginWords, PluginWord, PluginAnswer, Off
  <2>2. /\ conf = Pairs(before[path]) /\ cfg = FromBoth(before[path], argv)
        /\ active = Select(cfg.modules, Plugins) /\ priv = NewPriv
    BY <2>1 DEF Course
  <2>3. got = FromPlugins(before[path], argv, active)
    BY <2>2 DEF FromPlugins, Fresh, packet_plugin_load_default_params
  <2> HIDE DEF got
  <2> QED BY <2>1, <2>2, <2>3 DEF Course
<1>6. CASE OpenToSave
  <2>1. /\ pc = "save" /\ pc' = "write"
        /\ UNCHANGED <<argv, path, cfg, active, priv, before>>
    BY <1>6 DEF OpenToSave
  <2> QED BY <2>1 DEF Course
<1>7. CASE NotSaved
  <2>1. /\ pc = "save" /\ pc' = "running"
        /\ UNCHANGED <<argv, path, cfg, active, priv, before>>
    BY <1>7 DEF NotSaved
  <2> QED BY <2>1 DEF Course
<1>8. CASE conf_parser_save_file
  <2>1. /\ pc = "write" /\ pc' = "running"
        /\ UNCHANGED <<argv, path, cfg, active, priv, before>>
    BY <1>8 DEF conf_parser_save_file
  <2> QED BY <2>1 DEF Course
<1>9. CASE End
  BY <1>9 DEF End, Off, Course
<1>10. CASE UNCHANGED vars
  BY <1>10 DEF vars, Course
<1>11. CASE ParseArgumentOfNone
  <2>1. pc' = "off"
    BY <1>11 DEF ParseArgumentOfNone, Off
  <2> QED BY <2>1 DEF Course
<1> QED BY <1>1, <1>2, <1>3, <1>4, <1>5, <1>6, <1>7, <1>8, <1>9, <1>10, <1>11 DEF Next

\* Read are the options of what was read.
LEMMA ReadIs == Read = parser_traverser(Pairs(before[path]))
<1>1. parser_traverser(<<>>) = <<>>
  <2> DEFINE S == {pair \in ToSet(<<>>) : pair.value # <<>>}
  <2>1. Select(Nil, S) = Nil
    BY SelectRules
  <2>2. Select(<<>>, S) = <<>>
    BY <2>1 DEF Nil
  <2> HIDE DEF S
  <2>3. [i \in DOMAIN Select(<<>>, S) |-> [key |-> Select(<<>>, S)[i].key,
                                          value |-> Some(Select(<<>>, S)[i].value)]] = <<>>
    BY <2>2
  <2> QED BY <2>3 DEF parser_traverser, S
<1> QED BY <1>1 DEF Read, Pairs

\* The defaults that the lemmas need to know.
LEMMA Defaults ==
    ASSUME NEW e \in Maybe(Texts)
    PROVE  /\ load_default_params(e).num = load_default_params(None).num
           /\ load_default_params(e).text = load_default_params(None).text
           /\ load_default_params(e).restart_on_logoff
           /\ load_default_params(e).kill_type = "KILL_NONE"
           /\ load_default_params(e).logoff_before_start = FALSE /\ load_default_params(e).save_now = FALSE
           /\ load_default_params(e).modules = Nil
BY DEF load_default_params, Nil

\* The same of rjv3, which keeps its lists of properties.
LEMMA RjDefaults ==
    ASSUME NEW names
    PROVE  /\ Fresh(names) \in Privs /\ Fresh(names).props = Nil /\ Fresh(names).mods = Nil
           /\ Rjv3 \in ToSet(names) => Fresh(names) = rjv3_load_default_params(NewPriv)
<1>1. NewPriv \in Privs /\ NewPriv.props = Nil /\ NewPriv.mods = Nil
  BY NewPrivType DEF NewPriv, Nil
<1>2. rjv3_load_default_params(NewPriv) \in Privs
  BY <1>1, RjDefaultType
<1>3. rjv3_load_default_params(NewPriv).props = NewPriv.props
      /\ rjv3_load_default_params(NewPriv).mods = NewPriv.mods
  BY DEF rjv3_load_default_params, NewPriv
<1> QED BY <1>1, <1>2, <1>3 DEF Fresh

\* A run that has come so far has what its file and its command line say.
LEMMA RunningConfig ==
    ASSUME Typed, Course, pc = "running"
    PROVE  /\ Merged(load_default_params(None), cfg, Given, Read)
           /\ cfg.modules = IF Values(Given, ModuleOptions) = Nil THEN Values(Read, ModuleOptions)
                            ELSE Values(Given, ModuleOptions)
           /\ active = Select(cfg.modules, Plugins)
<1> DEFINE c == load_default_params(Environ)
           lines == Pairs(before[path])
<1>1. c \in Configs /\ c.modules = Nil /\ c.num = load_default_params(None).num
      /\ c.text = load_default_params(None).text /\ c.restart_on_logoff
      /\ load_default_params(None).restart_on_logoff
      /\ c.kill_type = load_default_params(None).kill_type
      /\ c.logoff_before_start = load_default_params(None).logoff_before_start
      /\ c.save_now = load_default_params(None).save_now
  <2>1. Environ \in Maybe(Texts) /\ None \in Maybe(Texts)
    BY ConfigAssumption, Nothing
  <2> QED BY <2>1, DefaultType, Defaults
<1>2. lines \in Lines
  <2>1. before[path] \in Lines
    BY DEF Typed
  <2> QED BY <2>1, Nothing, ParseNowType DEF Pairs
<1>3. argv \in Seq(Words)
  BY DEF Typed
<1>4. cfg = parse_cmdline_opts(parse_config_file(c, lines), argv).cfg /\ active = Select(cfg.modules, Plugins)
  BY DEF Course, FromBoth, FromFile
<1>5. Read = parser_traverser(lines) /\ Given = getopt_long(argv, MainArguments(argv)).opts
  BY ReadIs DEF Given
<1> HIDE DEF c, lines
<1>6. /\ Merged(c, cfg, Given, Read)
      /\ cfg.modules = IF Values(Given, ModuleOptions) = Nil THEN Values(Read, ModuleOptions)
                       ELSE Values(Given, ModuleOptions)
  BY <1>1, <1>2, <1>3, <1>4, <1>5, ConfigMerged
<1>7. Merged(load_default_params(None), cfg, Given, Read)
  BY <1>1, <1>6 DEF Merged, MergedFlags
<1> QED BY <1>4, <1>6, <1>7

\* And so has rjv3.
LEMMA RunningPriv ==
    ASSUME Typed, Course, pc = "running"
    PROVE  LET n == Count(active)
           IN  /\ Rjv3 \in ToSet(active) =>
                    RjMerged(rjv3_load_default_params(NewPriv), priv, RjGiven, Read)
               /\ priv.props = Times(n, Asked(Read).props) \o Times(n, Asked(RjGiven).props)
               /\ priv.mods = Times(n, Asked(Read).mods) \o Times(n, Asked(RjGiven).mods)
<1> DEFINE p == Fresh(active)
           lines == Pairs(before[path])
<1>1. p \in Privs /\ p.props = Nil /\ p.mods = Nil
      /\ (Rjv3 \in ToSet(active) => p = rjv3_load_default_params(NewPriv))
  BY RjDefaults
<1>2. lines \in Lines
  <2>1. before[path] \in Lines
    BY DEF Typed
  <2> QED BY <2>1, Nothing, ParseNowType DEF Pairs
<1>3. argv \in Seq(Words) /\ active \in Seq(Texts)
  BY NamesAreTexts DEF Typed
<1>4. PluginAnswer(p, lines, argv, active).ok /\ priv = PluginAnswer(p, lines, argv, active).priv
  BY DEF Course, FromPlugins
<1>5. Read = parser_traverser(lines) /\ RjGiven = getopt_long(argv, RjArguments(argv)).opts
  BY ReadIs DEF RjGiven
<1> HIDE DEF p, lines
<1> QED BY <1>1, <1>2, <1>3, <1>4, <1>5, PrivMerged

-----------------------------------------------------------------------------
(* The properties of Config *)

\* Every step keeps FilesInv.
LEMMA FilesInvStep == FilesInv /\ [Next]_vars => FilesInv'
<1> SUFFICES ASSUME FilesInv, [Next]_vars PROVE FilesInv'
  OBVIOUS
<1> USE DEF FilesInv
<1>1. CASE Start
  <2>1. /\ pc = "off" /\ files' = files /\ before' = files
        /\ pc' = "off" \/ (pc' = "file" /\ refused' = FALSE)
    BY <1>1 DEF Start, Off
  <2> QED BY <2>1
<1>2. CASE ParseConfigFile
  <2>1. /\ pc = "file" /\ files' = files /\ before' = before
        /\ (pc' = "off" /\ refused' = FALSE) \/ (pc' = "cmdline" /\ refused' = refused)
    BY <1>2 DEF ParseConfigFile, Off
  <2> QED BY <2>1
<1>3. CASE ParseCmdlineOpts
  <2>1. /\ pc = "cmdline" /\ files' = files /\ before' = before
        /\ pc' = "off" \/ (pc' = "select" /\ refused' = refused)
    BY <1>3 DEF ParseCmdlineOpts, Off
  <2> QED BY <2>1
<1>4. CASE SelectImplementations
  <2>1. /\ pc = "select" /\ files' = files /\ before' = before
        /\ pc' = "off" \/ (pc' = "plugins" /\ refused' = refused)
    BY <1>4 DEF SelectImplementations, Off
  <2> QED BY <2>1
<1>5. CASE InitPluginConfig
  <2>1. /\ pc = "plugins" /\ files' = files /\ before' = before
        /\ pc' = "off" \/ (pc' = "save" /\ refused' = refused)
    BY <1>5 DEF InitPluginConfig, Off
  <2> QED BY <2>1
<1>6. CASE OpenToSave
  BY <1>6 DEF OpenToSave
<1>7. CASE NotSaved
  BY <1>7 DEF NotSaved
<1>8. CASE conf_parser_save_file
  BY <1>8 DEF conf_parser_save_file
<1>9. CASE End
  BY <1>9 DEF End, Off
<1>10. CASE UNCHANGED vars
  BY <1>10 DEF vars
<1>11. CASE ParseArgumentOfNone
  BY <1>11 DEF ParseArgumentOfNone, Off
<1> QED BY <1>1, <1>2, <1>3, <1>4, <1>5, <1>6, <1>7, <1>8, <1>9, <1>10, <1>11 DEF Next

\* The invariant of Config.
LEMMA ConfigRun == Spec => [](Typed /\ Course)
<1>1. Init => Typed /\ FilesInv /\ Course
  <2>1. Init => FilesInv /\ Course
    BY DEF Init, FilesInv, Course
  <2> QED BY <2>1, InitTyped
<1>2. Typed /\ FilesInv /\ Course /\ [Next]_vars => (Typed /\ FilesInv /\ Course)'
  BY TypedStep, FilesInvStep, CourseStep
<1> QED BY <1>1, <1>2, PTL DEF Spec

\* CmdlineWins in a run that has come so far.
LEMMA WinsThen == Typed /\ Course => CmdlineWins
<1> SUFFICES ASSUME Typed, Course, pc = "running" PROVE CmdlineWins
  BY DEF CmdlineWins
<1>1. Merged(load_default_params(None), cfg, Given, Read)
  BY RunningConfig
<1>2. Rjv3 \in ToSet(active) => RjMerged(rjv3_load_default_params(NewPriv), priv, RjGiven, Read)
  BY RunningPriv
<1> DEFINE d == load_default_params(None)
<1>3. /\ d.restart_on_logoff /\ d.kill_type = "KILL_NONE"
      /\ d.logoff_before_start = FALSE /\ d.save_now = FALSE
  BY Nothing, Defaults
<1>4. ASSUME NEW o \in TextOptions,
             o = "password" => ~Gives("password-env", Given)
                                    /\ (Gives("password", Given) \/ ~Gives("password-env", Read))
      PROVE  cfg.text[o] = AsText(Wanted(o, Given, Read), d.text[o], MaxLen(o))
  <2>1. CASE o = "password"
    BY <1>1, <1>4, <2>1 DEF Merged, MergedFlags
  <2>2. CASE o # "password"
    BY <1>1, <2>2 DEF Merged, Single
  <2> QED BY <2>1, <2>2
<1> HIDE DEF d
<1>5. /\ \A o \in NumOptions : cfg.num[o] = AsNumber(o, Wanted(o, Given, Read), d.num[o])
      /\ cfg.kill_type = AsKillType(WantedValue("kill", Given, Read), "KILL_NONE")
      /\ cfg.logoff_before_start = AsFlag(WantedValue("logoff-first", Given, Read), FALSE)
      /\ (cfg.restart_on_logoff <=> Wanted("no-auto-reauth", Given, Read) = None)
      /\ (cfg.save_now <=> Wanted("save", Given, Read) # None)
  BY <1>1, <1>3 DEF Merged, MergedFlags, d
<1> QED BY <1>2, <1>4, <1>5 DEF CmdlineWins, RjMerged, d

\* The options that were given are options.
LEMMA GivenOptions ==
    Typed => Given \in Seq(Options) /\ RjGiven \in Seq(Options) /\ Read \in Seq(Options)
<1> SUFFICES ASSUME Typed PROVE Given \in Seq(Options) /\ RjGiven \in Seq(Options) /\ Read \in Seq(Options)
  OBVIOUS
<1>1. argv \in Seq(Words) /\ before[path] \in Lines
  BY DEF Typed
<1>2. Pairs(before[path]) \in Lines
  BY <1>1, Nothing, ParseNowType DEF Pairs
<1>3. Read \in Seq(OneOptions)
  BY <1>2, ReadIs, TraverserType DEF OneOptions
<1>4. RjGiven \in Seq(OneOptions)
  BY <1>1, RjGivenType DEF RjGiven, OneOptions
<1>5. Given \in Seq(Options)
  BY <1>1, GivenType DEF Given, Options
<1> QED BY <1>3, <1>4, <1>5, OneOption

\* A remainder of four or of two is a documented number, unless of a negative one.
LEMMA RemainderDocumented ==
    ASSUME NEW o \in {"daemonize", "dhcp-type", "eap-bcast-addr"},
           NEW given \in Seq(Options), NEW read \in Seq(Options), NEW d \in Documented(o)
    PROVE  AsDocumented(o, AsNumber(o, Wanted(o, given, read), d), Wanted(o, given, read))
<1> DEFINE w == Wanted(o, given, read)
<1> SUFFICES AsDocumented(o, AsNumber(o, w, d), w)
  OBVIOUS
<1>1. w \in Maybe(Texts)
  <2>1. LastSaid(o, given) \in Maybe(Texts) /\ LastSaid(o, read) \in Maybe(Texts)
    BY LastOpt
  <2> QED BY <2>1, WantedIs
<1> HIDE DEF w
<1>2. CASE w = None
  BY <1>2 DEF AsNumber, AsDocumented
<1>3. CASE w # None /\ ~(atoi(w[1]) < 0)
  <2>1. w[1] \in Texts
    BY <1>1, <1>3, SomeText
  <2>2. atoi(w[1]) \in Int
    BY <2>1, AtoiType
  <2>3. CMod(atoi(w[1]), 4) \in 0..3 /\ CMod(atoi(w[1]), 2) \in 0..1
    <3>1. atoi(w[1]) >= 0
      BY <1>3, <2>2
    <3> QED BY <2>2, <3>1, RemainderType
  <2>4. NumberOf(o, w[1]) \in Documented(o)
    BY <2>3 DEF NumberOf, Documented
  <2> QED BY <1>3, <2>4 DEF AsNumber, AsDocumented
<1>4. CASE w # None /\ atoi(w[1]) < 0
  BY <1>4 DEF AsDocumented
<1> QED BY <1>2, <1>3, <1>4

\* So the numbers of a run are documented ones.
LEMMA RangesThen == Typed /\ Course => NumbersInRange
<1> SUFFICES ASSUME Typed, Course, pc = "running" PROVE NumbersInRange
  BY DEF NumbersInRange
<1>1. CmdlineWins
  BY WinsThen
<1>2. Given \in Seq(Options) /\ RjGiven \in Seq(Options) /\ Read \in Seq(Options)
  BY GivenOptions
<1>3. AsDocumented("daemonize", cfg.num["daemonize"], Wanted("daemonize", Given, Read))
  <2> DEFINE d == load_default_params(None).num["daemonize"]
  <2>1. d \in Documented("daemonize") /\ "daemonize" \in NumOptions
    BY DEF load_default_params, NumOptions, Documented
  <2>2. cfg.num["daemonize"] = AsNumber("daemonize", Wanted("daemonize", Given, Read), d)
    BY <1>1, <2>1 DEF CmdlineWins
  <2> HIDE DEF d
  <2> QED BY <1>2, <2>1, <2>2, RemainderDocumented
<1>4. ASSUME Rjv3 \in ToSet(active), NEW o \in {"dhcp-type", "eap-bcast-addr"}
      PROVE  AsDocumented(o, priv.num[o], Wanted(o, RjGiven, Read))
  <2> DEFINE d == rjv3_load_default_params(NewPriv).num[o]
  <2>1. d \in Documented(o) /\ o \in RjNumOptions
    BY DEF rjv3_load_default_params, NewPriv, RjNumOptions, Documented
  <2>2. priv.num[o] = AsNumber(o, Wanted(o, RjGiven, Read), d)
    BY <1>1, <1>4, <2>1 DEF CmdlineWins
  <2> HIDE DEF d
  <2> QED BY <1>2, <2>1, <2>2, RemainderDocumented
<1> QED BY <1>3, <1>4 DEF NumbersInRange

\* TypeOK: every text fits its buffer, every file that a save wrote is one that can
\* be read, whatever the options were; and the numbers that choose a way (daemonize,
\* dhcp-type, eap-bcast-addr) are among those the help gives whenever the argument
\* that set them was not negative.
THEOREM ConfigTypeCorrect == Spec => []TypeOK
<1>1. ASSUME Typed, Course PROVE TypeOK
  <2>1. NumbersInRange
    BY <1>1, RangesThen
  <2> QED BY <1>1, <2>1 DEF Typed, TypeOK, Configs, Privs
<1> QED BY <1>1, ConfigRun, PTL

\* CmdlineWins: the numbers, the texts, kill, logoff-first, no-auto-reauth and save,
\* the program's options and rjv3's, have the last value of the command line, else the
\* last one of the file, else the default, in every run that goes on to the network;
\* the password has where password-env, which works once, has no say in it.
THEOREM CommandLineWins == Spec => []CmdlineWins
BY WinsThen, ConfigRun, PTL

\* RepeatablesAsAsked: modules of the command line replace those of the file;
\* properties of both are kept, those of the file first, once for every time the
\* plugin is selected.
THEOREM RepeatablesKept == Spec => []RepeatablesAsAsked
<1>1. ASSUME Typed, Course PROVE RepeatablesAsAsked
  <2> SUFFICES ASSUME pc = "running" PROVE RepeatablesAsAsked
    BY DEF RepeatablesAsAsked
  <2>1. /\ cfg.modules = IF Values(Given, ModuleOptions) = Nil THEN Values(Read, ModuleOptions)
                         ELSE Values(Given, ModuleOptions)
        /\ active = Select(cfg.modules, Plugins)
    BY <1>1, RunningConfig
  <2>2. LET n == Count(active)
        IN  /\ priv.props = Times(n, Asked(Read).props) \o Times(n, Asked(RjGiven).props)
            /\ priv.mods = Times(n, Asked(Read).mods) \o Times(n, Asked(RjGiven).mods)
    BY <1>1, RunningPriv
  <2> QED BY <2>1, <2>2 DEF RepeatablesAsAsked, Asked, Count, Nil
<1> QED BY <1>1, ConfigRun, PTL

\* RefusedKeepsFiles: a run whose options are refused, by the program or only by a
\* plugin, leaves every file as it found it, since the file is opened for writing
\* after the last option was looked at.
THEOREM RefusalKeepsFiles == Spec => []RefusedKeepsFiles
<1>1. Init => FilesInv
  BY DEF Init, FilesInv
<1>2. FilesInv => RefusedKeepsFiles
  BY DEF FilesInv, RefusedKeepsFiles
<1> QED BY <1>1, <1>2, FilesInvStep, PTL DEF Spec
=============================================================================
