--------------------------- MODULE PacketsProofs ---------------------------
(* What Packets promises of the builder, the heartbeat, the lease and the      *)
(* digests, for every server, identifier, seed, length of the user's name, key *)
(* and number, for every system's lists and every message.                     *)
EXTENDS Packets, FiniteSetTheorems, WellFoundedInduction, SequenceTheorems, TLAPS

Bytes == 0..255
Words == [1..4 -> Bytes]

-----------------------------------------------------------------------------
(* Induction up to a number, and along a list                                  *)

\* A set of numbers has a least one.
LEMMA Least ==
    ASSUME NEW S \in SUBSET Nat, S # {}
    PROVE  \E n \in S : \A j \in S : n <= j
<1>1. PICK n \in S : \A j \in S : ~(<<j, n>> \in OpToRel(<, Nat))
  BY NatLessThanWellFounded, WFMin
<1>2. ASSUME NEW j \in S PROVE n <= j
  <2>1. OpToRel(<, Nat) = {ss \in Nat \X Nat : ss[1] < ss[2]}
    BY DEF OpToRel
  <2>2. <<j, n>> \notin {ss \in Nat \X Nat : ss[1] < ss[2]}
    BY <1>1, <2>1
  <2>3. j \in Nat /\ n \in Nat
    OBVIOUS
  <2>4. <<j, n>> \in Nat \X Nat
    BY <2>3
  <2>5. ~(<<j, n>>[1] < <<j, n>>[2])
    BY <2>2, <2>4
  <2> QED BY <2>3, <2>5
<1> QED BY <1>2

\* Induction up to a number, for a set.
LEMMA Induct ==
    ASSUME NEW n \in Nat, NEW S, 0 \in S,
           \A i \in 1..n : i - 1 \in S => i \in S
    PROVE  \A i \in 0..n : i \in S
<1> SUFFICES ASSUME NEW k \in 0..n, k \notin S PROVE FALSE
  OBVIOUS
<1> DEFINE rest == {j \in 0..n : j \notin S}
<1>1. PICK m \in rest : \A j \in rest : m <= j
  <2>1. rest \in SUBSET Nat /\ k \in rest
    OBVIOUS
  <2> HIDE DEF rest
  <2> QED BY <2>1, Least
<1>2. m \in 1..n /\ m - 1 \in 0..n /\ m - 1 < m
  BY <1>1
<1> QED BY <1>1, <1>2


LEMMA IsList ==
    ASSUME NEW T, NEW n \in Nat, NEW f, f = [k \in 1..n |-> f[k]], \A k \in 1..n : f[k] \in T
    PROVE  f \in Seq(T)
<1>1. f \in [1..n -> T]
  OBVIOUS
<1> QED BY <1>1

\* What a recursive function of a number is, step by step.
Steps(F, T, n) == F \in [(1..n) \X T -> T]
Run(F, T, a, n, g) ==
    /\ g \in [0..n -> T] /\ g[0] = a
    /\ \A i \in 1..n : g[i] = F[<<i, g[i - 1]>>]

\* There is one for any step.
LEMMA Runs ==
    ASSUME NEW n \in Nat, NEW T, NEW a \in T, NEW F, Steps(F, T, n)
    PROVE  \E g : Run(F, T, a, n, g)
<1> DEFINE K == {m \in 0..n : \E g : Run(F, T, a, m, g)}
<1>1. 0 \in K
  <2> DEFINE g == [i \in 0..0 |-> a]
  <2>1. g \in [0..0 -> T] /\ g[0] = a
    OBVIOUS
  <2> HIDE DEF g
  <2>2. Run(F, T, a, 0, g)
    BY <2>1 DEF Run
  <2> QED BY <2>2
<1>2. ASSUME NEW m \in 1..n, m - 1 \in K PROVE m \in K
  <2>1. PICK g : Run(F, T, a, m - 1, g)
    BY <1>2
  <2>2. /\ g \in [0..(m - 1) -> T] /\ g[0] = a
        /\ \A i \in 1..(m - 1) : g[i] = F[<<i, g[i - 1]>>]
    BY <2>1 DEF Run
  <2> DEFINE h == [i \in 0..m |-> IF i < m THEN g[i] ELSE F[<<m, g[m - 1]>>]]
  <2>3. g[m - 1] \in T /\ F[<<m, g[m - 1]>>] \in T
    BY <2>2 DEF Steps
  <2>4. h \in [0..m -> T] /\ h[0] = a
    BY <2>2, <2>3
  <2>5. ASSUME NEW i \in 1..m PROVE h[i] = F[<<i, h[i - 1]>>]
    <3>1. CASE i = m
      <4>1. h[m - 1] = g[m - 1] /\ h[m] = F[<<m, g[m - 1]>>]
        OBVIOUS
      <4> HIDE DEF h
      <4> QED BY <3>1, <4>1
    <3>2. CASE i # m
      <4>1. i \in 1..(m - 1) /\ h[i - 1] = g[i - 1] /\ h[i] = g[i]
        BY <3>2
      <4> HIDE DEF h
      <4> QED BY <2>2, <4>1
    <3> QED BY <3>1, <3>2
  <2> HIDE DEF h
  <2>6. Run(F, T, a, m, h)
    BY <2>4, <2>5 DEF Run
  <2> QED BY <2>6
<1>3. n \in K
  <2>1. \A m \in 1..n : m - 1 \in K => m \in K
    BY <1>2
  <2> HIDE DEF K
  <2> QED BY <1>1, <2>1, Induct
<1> QED BY <1>3

\* The function inside Select, and its values.
LEMMA Selecting ==
    ASSUME NEW U, NEW list \in Seq(U), NEW S
    PROVE  \E some :
             /\ Select(list, S) = some[Len(list)]
             /\ some[0] = <<>>
             /\ \A i \in 1..Len(list) :
                  some[i] = IF list[i] \in S THEN Append(some[i - 1], list[i]) ELSE some[i - 1]
<1> DEFINE n == Len(list)
           T == Seq(U)
           Is(f) == f = [i \in 0..n |->
                            IF i = 0 THEN <<>>
                            ELSE IF list[i] \in S THEN Append(f[i - 1], list[i]) ELSE f[i - 1]]
           some == CHOOSE f : Is(f)
           F == [p \in (1..n) \X T |-> IF list[p[1]] \in S THEN Append(p[2], list[p[1]]) ELSE p[2]]
<1>1. n \in Nat /\ <<>> \in T /\ \A i \in 1..n : list[i] \in U
  OBVIOUS
<1>2. Select(list, S) = some[n]
  BY DEF Select
<1>3. Steps(F, T, n)
  BY <1>1 DEF Steps
<1>4. \A i \in 1..n, p \in T : F[<<i, p>>] = IF list[i] \in S THEN Append(p, list[i]) ELSE p
  OBVIOUS
<1> HIDE DEF F
<1>5. PICK g : Run(F, T, <<>>, n, g)
  <2> HIDE DEF n, T
  <2> QED BY <1>1, <1>3, Runs
<1>6. g \in [0..n -> T] /\ g[0] = <<>> /\ \A i \in 1..n : g[i] = F[<<i, g[i - 1]>>]
  BY <1>5 DEF Run
<1>7. ASSUME NEW i \in 1..n
      PROVE  g[i] = IF list[i] \in S THEN Append(g[i - 1], list[i]) ELSE g[i - 1]
  <2> HIDE DEF T, n
  <2>1. g[i - 1] \in T
    BY <1>1, <1>6
  <2> QED BY <1>4, <1>6, <2>1
<1>8. Is(g)
  <2>1. ASSUME NEW i \in 0..n
        PROVE  g[i] = IF i = 0 THEN <<>>
                      ELSE IF list[i] \in S THEN Append(g[i - 1], list[i]) ELSE g[i - 1]
    <3> HIDE DEF n
    <3>1. i # 0 => i \in 1..n
      BY <1>1
    <3> QED BY <1>6, <1>7, <3>1
  <2> HIDE DEF n, T
  <2> QED BY <1>6, <2>1
<1>9. Is(some)
  BY <1>8
<1> HIDE DEF some
<1>10. some[0] = <<>>
  BY <1>1, <1>9
<1>11. ASSUME NEW i \in 1..n
       PROVE  some[i] = IF list[i] \in S THEN Append(some[i - 1], list[i]) ELSE some[i - 1]
  <2>1. i \in 0..n /\ i # 0
    BY <1>1
  <2> QED BY <1>9, <2>1
<1> QED BY <1>2, <1>10, <1>11

\* What a selection holds of the first n elements of a list: those that are in S,
\* and in front the one of them that comes first.
Selects(p, list, n, S) ==
    /\ ToSet(p) = {list[k] : k \in {k \in 1..n : list[k] \in S}}
    /\ p # <<>> => \E k \in 1..n :
                        /\ list[k] \in S /\ p[1] = list[k]
                        /\ \A j \in 1..(k - 1) : list[j] \notin S

LEMMA SetOfAppend ==
    ASSUME NEW U, NEW p \in Seq(U), NEW e \in U
    PROVE  /\ ToSet(Append(p, e)) = ToSet(p) \cup {e} /\ Append(p, e) # <<>>
           /\ Append(p, e)[1] = IF p = <<>> THEN e ELSE p[1]
           /\ ToSet(<<>>) = {} /\ Append(p, e) \in Seq(U)
<1> DEFINE q == Append(p, e)
           n == Len(p)
<1>1. n \in Nat /\ Len(q) = n + 1 /\ q[n + 1] = e /\ q \in Seq(U)
      /\ \A i \in 1..n : q[i] = p[i]
  OBVIOUS
<1>2. p = <<>> <=> n = 0
  OBVIOUS
<1>3. DOMAIN q = 1..(n + 1) /\ DOMAIN p = 1..n
  BY <1>1
<1>4. q # <<>>
  BY <1>1
<1>5. ToSet(<<>>) = {}
  BY DEF ToSet
<1> HIDE DEF q, n
<1>6. ToSet(q) = ToSet(p) \cup {e}
  BY <1>1, <1>3 DEF ToSet
<1>7. q[1] = IF p = <<>> THEN e ELSE p[1]
  BY <1>1, <1>2
<1> QED BY <1>1, <1>4, <1>5, <1>6, <1>7 DEF q

\* Select returns the members of S in the list, the first one of them in front.
LEMMA SelectOf ==
    ASSUME NEW U, NEW list \in Seq(U), NEW S
    PROVE  /\ Select(list, S) \in Seq(U)
           /\ Selects(Select(list, S), list, Len(list), S)
<1> DEFINE n == Len(list)
           Good(p, i) == p \in Seq(U) /\ Selects(p, list, i, S)
<1>1. n \in Nat /\ \A i \in 1..n : list[i] \in U
  OBVIOUS
<1>2. PICK some :
        /\ Select(list, S) = some[n]
        /\ some[0] = <<>>
        /\ \A i \in 1..n :
             some[i] = IF list[i] \in S THEN Append(some[i - 1], list[i]) ELSE some[i - 1]
  BY Selecting
<1> HIDE DEF n
<1> DEFINE K == {i \in 0..n : Good(some[i], i)}
<1>3. 0 \in K
  <2>1. ToSet(<<>>) = {} /\ <<>> \in Seq(U)
    BY DEF ToSet
  <2>2. {list[k] : k \in {k \in 1..0 : list[k] \in S}} = {}
    OBVIOUS
  <2> DEFINE p == <<>>
  <2>3. p \in Seq(U) /\ Selects(p, list, 0, S)
    BY <2>1, <2>2 DEF Selects
  <2>4. 0 \in 0..n /\ some[0] = p
    BY <1>1, <1>2
  <2> HIDE DEF p
  <2> QED BY <2>3, <2>4
<1>4. ASSUME NEW i \in 1..n, i - 1 \in K PROVE i \in K
  <2> DEFINE p == some[i - 1]
             e == list[i]
             q == some[i]
  <2>1. /\ p \in Seq(U) /\ ToSet(p) = {list[k] : k \in {k \in 1..(i - 1) : list[k] \in S}}
        /\ p # <<>> => \E k \in 1..(i - 1) :
                        /\ list[k] \in S /\ p[1] = list[k]
                        /\ \A j \in 1..(k - 1) : list[j] \notin S
    <3>1. p \in Seq(U) /\ Selects(p, list, i - 1, S)
      BY <1>4
    <3> HIDE DEF p
    <3> QED BY <3>1 DEF Selects
  <2>2. e \in U /\ q = IF e \in S THEN Append(p, e) ELSE p
    BY <1>1, <1>2
  <2>3. {k \in 1..i : list[k] \in S}
          = {k \in 1..(i - 1) : list[k] \in S} \cup (IF e \in S THEN {i} ELSE {})
    BY <1>1
  <2>4. p = <<>> => \A j \in 1..(i - 1) : list[j] \notin S
    <3>1. p = <<>> => ToSet(p) = {}
      BY DEF ToSet
    <3> QED BY <2>1, <3>1
  <2> HIDE DEF p, q
  <2>5. CASE e \in S
    <3>1. ToSet(q) = ToSet(p) \cup {e} /\ q # <<>> /\ q[1] = (IF p = <<>> THEN e ELSE p[1])
          /\ q \in Seq(U)
      BY <2>1, <2>2, <2>5, SetOfAppend
    <3>2. ToSet(q) = {list[k] : k \in {k \in 1..i : list[k] \in S}}
      BY <2>1, <2>3, <2>5, <3>1
    <3>3. \E k \in 1..i : /\ list[k] \in S /\ q[1] = list[k]
                          /\ \A j \in 1..(k - 1) : list[j] \notin S
      <4>1. CASE p = <<>>
        <5>1. i \in 1..i
          BY <1>1
        <5> QED BY <2>4, <2>5, <3>1, <4>1, <5>1
      <4>2. CASE p # <<>>
        <5>1. \A k \in 1..(i - 1) : k \in 1..i
          BY <1>1
        <5> QED BY <2>1, <3>1, <4>2, <5>1
      <4> QED BY <4>1, <4>2
    <3>4. i \in 0..n
      BY <1>1
    <3> QED BY <3>1, <3>2, <3>3, <3>4 DEF Selects, q
  <2>6. CASE e \notin S
    <3>1. q = p
      BY <2>2, <2>6
    <3>2. ToSet(q) = {list[k] : k \in {k \in 1..i : list[k] \in S}}
      BY <2>1, <2>3, <2>6, <3>1
    <3>3. \A k \in 1..(i - 1) : k \in 1..i
      BY <1>1
    <3>4. i \in 0..n /\ q \in Seq(U)
      BY <1>1, <2>1, <3>1
    <3> QED BY <2>1, <3>1, <3>2, <3>3, <3>4 DEF Selects, q
  <2> QED BY <2>5, <2>6
<1>5. n \in K
  <2>1. \A i \in 1..n : i - 1 \in K => i \in K
    BY <1>4
  <2>2. n \in 0..n
    BY <1>1
  <2> HIDE DEF K
  <2> QED BY <1>1, <1>3, <2>1, <2>2, Induct
<1> QED BY <1>2, <1>5 DEF n

\* The part of a list that a set selects, as First finds it.
LEMMA FirstOf ==
    ASSUME NEW U, NEW list \in Seq(U), NEW S
    PROVE  LET first == First(Select(list, S))
           IN  IF ToSet(list) \cap S = {} THEN first = <<>>
               ELSE /\ first # <<>> /\ first[1] \in ToSet(list) \cap S
                    /\ \E k \in DOMAIN list :
                         first[1] = list[k] /\ \A j \in 1..(k - 1) : list[j] \notin S
<1> DEFINE p == Select(list, S)
           n == Len(list)
<1>1. p \in Seq(U) /\ Selects(p, list, n, S)
  BY SelectOf
<1>2. DOMAIN list = 1..n
  OBVIOUS
<1> HIDE DEF p, n
<1>3. ToSet(p) = ToSet(list) \cap S
  BY <1>1, <1>2 DEF Selects, ToSet
<1>4. p = <<>> <=> ToSet(p) = {}
  <2>1. p # <<>> => p[1] \in ToSet(p)
    BY <1>1 DEF ToSet
  <2>2. p = <<>> => ToSet(p) = {}
    BY DEF ToSet
  <2> QED BY <2>1, <2>2
<1>5. First(p) = IF p = <<>> THEN <<>> ELSE <<p[1]>>
  BY DEF First
<1>6. p # <<>> => \E k \in DOMAIN list :
                    /\ p[1] = list[k] /\ list[k] \in S
                    /\ \A j \in 1..(k - 1) : list[j] \notin S
  BY <1>1, <1>2 DEF Selects
<1>7. CASE p = <<>>
  BY <1>3, <1>4, <1>5, <1>7 DEF p
<1>8. CASE p # <<>>
  <2>1. First(p) # <<>> /\ First(p)[1] = p[1]
    BY <1>5, <1>8
  <2>2. p[1] \in ToSet(list) \cap S
    BY <1>6, <1>8 DEF ToSet
  <2> QED BY <1>6, <1>8, <2>1, <2>2 DEF p
<1> QED BY <1>7, <1>8

LEMMA SetOfConcat ==
    ASSUME NEW U, NEW p \in Seq(U), NEW q \in Seq(U)
    PROVE  ToSet(p \o q) = ToSet(p) \cup ToSet(q) /\ p \o q \in Seq(U)
<1> DEFINE r == p \o q
           m == Len(p)
           n == Len(q)
<1>1. /\ m \in Nat /\ n \in Nat /\ r \in Seq(U) /\ Len(r) = m + n
      /\ \A i \in 1..(m + n) : r[i] = IF i <= m THEN p[i] ELSE q[i - m]
  BY ConcatProperties
<1>2. DOMAIN r = 1..(m + n) /\ DOMAIN p = 1..m /\ DOMAIN q = 1..n
  BY <1>1
<1> HIDE DEF r, m, n
<1>3. \A i \in 1..m : i \in 1..(m + n) /\ r[i] = p[i]
  BY <1>1
<1>4. \A i \in 1..n : m + i \in 1..(m + n) /\ r[m + i] = q[i]
  <2> SUFFICES ASSUME NEW i \in 1..n PROVE m + i \in 1..(m + n) /\ r[m + i] = q[i]
    OBVIOUS
  <2>1. m + i \in 1..(m + n) /\ ~(m + i <= m) /\ (m + i) - m = i
    BY <1>1
  <2> QED BY <1>1, <2>1
<1>5. \A i \in 1..(m + n) : \/ i \in 1..m /\ r[i] = p[i]
                            \/ i - m \in 1..n /\ r[i] = q[i - m]
  BY <1>1
<1>6. ToSet(r) = ToSet(p) \cup ToSet(q)
  BY <1>2, <1>3, <1>4, <1>5 DEF ToSet
<1> QED BY <1>1, <1>6 DEF r

LEMMA UnionWith ==
    ASSUME NEW A, NEW b
    PROVE  UNION (A \cup {b}) = (UNION A) \cup b
OBVIOUS

LEMMA SelectSet ==
    ASSUME NEW U, NEW list \in Seq(U), NEW S
    PROVE  Select(list, S) \in Seq(U) /\ ToSet(Select(list, S)) = ToSet(list) \cap S
<1> DEFINE p == Select(list, S)
           n == Len(list)
<1>1. p \in Seq(U) /\ Selects(p, list, n, S)
  BY SelectOf
<1>2. DOMAIN list = 1..n
  OBVIOUS
<1> HIDE DEF p, n
<1>3. ToSet(p) = ToSet(list) \cap S
  BY <1>1, <1>2 DEF Selects, ToSet
<1> QED BY <1>1, <1>3 DEF p
\* The selection from a list, prefix by prefix.
Selection(list, S, f) ==
    /\ f[0] = <<>>
    /\ \A i \in 1..Len(list) :
          f[i] = IF list[i] \in S THEN Append(f[i - 1], list[i]) ELSE f[i - 1]

LEMMA SelectionType ==
    ASSUME NEW U, NEW list \in Seq(U), NEW S, NEW f, Selection(list, S, f)
    PROVE  \A i \in 0..Len(list) : f[i] \in Seq(U)
<1> DEFINE n == Len(list)
           T == Seq(U)
           K == {i \in 0..n : f[i] \in T}
<1>1. n \in Nat /\ <<>> \in T /\ \A i \in 1..n : list[i] \in U
  OBVIOUS
<1> DEFINE none == <<>>
<1>2. none \in T /\ f[0] = none
  BY DEF Selection
<1>3. \A i \in 1..n : f[i] = Append(f[i - 1], list[i]) \/ f[i] = f[i - 1]
  BY DEF Selection
<1> HIDE DEF none, n
<1>4. 0 \in K
  BY <1>1, <1>2
<1>5. ASSUME NEW i \in 1..n, i - 1 \in K PROVE i \in K
  <2>1. f[i - 1] \in T /\ list[i] \in U /\ i \in 0..n
    BY <1>1, <1>5
  <2>2. Append(f[i - 1], list[i]) \in T
    BY <2>1
  <2> HIDE DEF T
  <2> QED BY <1>3, <2>1, <2>2
<1>6. \A i \in 1..n : i - 1 \in K => i \in K
  BY <1>5
<1> HIDE DEF K
<1>7. \A i \in 0..n : i \in K
  BY <1>1, <1>4, <1>6, Induct
<1> QED BY <1>7 DEF K, n

\* A list of members of S is selected as it is.
LEMMA SelectAll ==
    ASSUME NEW U, NEW list \in Seq(U), NEW S, \A i \in 1..Len(list) : list[i] \in S
    PROVE  Select(list, S) = list
<1> DEFINE n == Len(list)
           T == Seq(U)
<1>1. n \in Nat /\ \A i \in 1..n : list[i] \in U
  OBVIOUS
<1>2. PICK f : Select(list, S) = f[n] /\ Selection(list, S, f)
  BY Selecting DEF Selection
<1>3. \A i \in 0..n : f[i] \in T
  BY <1>2, SelectionType
<1> DEFINE K == {i \in 0..n : Len(f[i]) = i /\ \A k \in 1..i : f[i][k] = list[k]}
<1>4. 0 \in K
  <2>1. Len(<<>>) = 0 /\ 1..0 = {} /\ f[0] = <<>>
    BY <1>2 DEF Selection
  <2> HIDE DEF n
  <2> QED BY <1>1, <2>1
<1>5. ASSUME NEW i \in 1..n, i - 1 \in K PROVE i \in K
  <2> DEFINE p == f[i - 1]
             e == list[i]
             q == f[i]
  <2>1. q = Append(p, e)
    BY <1>2 DEF Selection
  <2>2. p \in T /\ e \in U /\ i \in 0..n /\ i - 1 \in Nat
    BY <1>1, <1>3
  <2>3. Len(p) = i - 1 /\ \A k \in 1..(i - 1) : p[k] = list[k]
    BY <1>5
  <2> HIDE DEF p, q, e
  <2>4. Len(q) = (i - 1) + 1 /\ q[(i - 1) + 1] = e /\ \A k \in 1..(i - 1) : q[k] = p[k]
    BY <2>1, <2>2, <2>3
  <2>5. (i - 1) + 1 = i
    BY <2>2
  <2>6. \A k \in 1..i : q[k] = list[k]
    <3> SUFFICES ASSUME NEW k \in 1..i PROVE q[k] = list[k]
      OBVIOUS
    <3>1. k = i \/ k \in 1..(i - 1)
      OBVIOUS
    <3> QED BY <2>3, <2>4, <2>5, <3>1 DEF e
  <2> QED BY <2>2, <2>4, <2>5, <2>6 DEF q
<1>6. \A i \in 1..n : i - 1 \in K => i \in K
  BY <1>5
<1>7. n \in K
  <2>1. n \in 0..n
    BY <1>1
  <2> HIDE DEF K, n
  <2> QED BY <1>1, <1>4, <1>6, <2>1, Induct
<1> DEFINE r == f[n]
<1>8. r \in Seq(U) /\ Len(r) = Len(list) /\ \A i \in 1..Len(r) : r[i] = list[i]
  <2>1. n \in 0..n
    BY <1>1
  <2> QED BY <1>3, <1>7, <2>1
<1> HIDE DEF r
<1>9. r = list
  BY <1>8, SeqEqual
<1> QED BY <1>2, <1>9 DEF r

\* A list without a member of S gives nothing.
LEMMA SelectNone ==
    ASSUME NEW U, NEW list \in Seq(U), NEW S, \A i \in 1..Len(list) : list[i] \notin S
    PROVE  Select(list, S) = <<>>
<1> DEFINE n == Len(list)
           none == <<>>
<1>1. n \in Nat
  OBVIOUS
<1>2. PICK f : Select(list, S) = f[n] /\ Selection(list, S, f)
  BY Selecting DEF Selection
<1> DEFINE K == {i \in 0..n : f[i] = none}
<1>3. f[0] = none /\ \A i \in 1..n : f[i] = f[i - 1]
  BY <1>2 DEF Selection
<1> HIDE DEF n, none
<1>4. 0 \in K
  BY <1>1, <1>3
<1>5. \A i \in 1..n : i - 1 \in K => i \in K
  BY <1>1, <1>3
<1>6. n \in K
  <2>1. n \in 0..n
    BY <1>1
  <2> HIDE DEF K
  <2> QED BY <1>1, <1>4, <1>5, <2>1, Induct
<1> QED BY <1>2, <1>6 DEF none

\* One list behind another: the selections, one behind the other.
LEMMA SelectConcat ==
    ASSUME NEW U, NEW p \in Seq(U), NEW q \in Seq(U), NEW S
    PROVE  Select(p \o q, S) = Select(p, S) \o Select(q, S)
<1> DEFINE m == Len(p)
           n == Len(q)
           r == p \o q
           T == Seq(U)
           none == <<>>
<1>1. /\ m \in Nat /\ n \in Nat /\ r \in T /\ Len(r) = m + n
      /\ \A i \in 1..(m + n) : r[i] = IF i <= m THEN p[i] ELSE q[i - m]
  BY ConcatProperties
<1>2. PICK f : Select(p, S) = f[m] /\ Selection(p, S, f)
  BY Selecting DEF Selection
<1>3. PICK g : Select(q, S) = g[n] /\ Selection(q, S, g)
  BY Selecting DEF Selection
<1> HIDE DEF r
<1>4. PICK h : Select(r, S) = h[m + n] /\ Selection(r, S, h)
  <2>1. PICK h : Select(r, S) = h[Len(r)] /\ Selection(r, S, h)
    <3>1. r \in Seq(U)
      BY <1>1
    <3> QED BY <3>1, Selecting DEF Selection
  <2>2. Select(r, S) = h[m + n] /\ Selection(r, S, h)
    BY <1>1, <2>1
  <2> QED BY <2>2
<1>5. /\ f[0] = none
      /\ \A i \in 1..m : f[i] = IF p[i] \in S THEN Append(f[i - 1], p[i]) ELSE f[i - 1]
  BY <1>2 DEF Selection
<1>6. /\ g[0] = none
      /\ \A i \in 1..n : g[i] = IF q[i] \in S THEN Append(g[i - 1], q[i]) ELSE g[i - 1]
  BY <1>3 DEF Selection
<1>7. /\ h[0] = none
      /\ \A i \in 1..(m + n) : h[i] = IF r[i] \in S THEN Append(h[i - 1], r[i]) ELSE h[i - 1]
  BY <1>1, <1>4 DEF Selection
<1>8. /\ \A i \in 0..m : f[i] \in T
      /\ \A i \in 0..n : g[i] \in T
      /\ \A i \in 1..n : q[i] \in U
  BY <1>2, <1>3, SelectionType
<1> DEFINE J == {i \in 0..m : h[i] = f[i]}
           K == {i \in 0..n : h[m + i] = f[m] \o g[i]}
<1>9. m \in J
  <2>1. 0 \in J /\ m \in 0..m
    <3> HIDE DEF m, none
    <3> QED BY <1>1, <1>5, <1>7
  <2>2. ASSUME NEW i \in 1..m, i - 1 \in J PROVE i \in J
    <3>1. i \in 0..m /\ i \in 1..(m + n) /\ i <= m
      <4> HIDE DEF m, n
      <4> QED BY <1>1
    <3>2. r[i] = p[i] /\ h[i - 1] = f[i - 1]
      BY <1>1, <2>2, <3>1
    <3> HIDE DEF m, n
    <3>3. h[i] = f[i]
      BY <1>5, <1>7, <3>1, <3>2
    <3> QED BY <3>1, <3>3
  <2>3. \A i \in 1..m : i - 1 \in J => i \in J
    BY <2>2
  <2> HIDE DEF J, m
  <2> QED BY <1>1, <2>1, <2>3, Induct
<1> DEFINE x == f[m]
<1>10. x \in T /\ h[m] = x
  <2>1. m \in 0..m
    BY <1>1
  <2> QED BY <1>8, <1>9, <2>1
<1> HIDE DEF x
<1>11. n \in K
  <2>1. 0 \in K
    <3>1. x \o none = x
      BY <1>10, ConcatEmptySeq
    <3> HIDE DEF m, n, none
    <3>2. 0 \in 0..n /\ m + 0 = m
      BY <1>1
    <3> QED BY <1>6, <1>10, <3>1, <3>2 DEF x
  <2>2. ASSUME NEW i \in 1..n, i - 1 \in K PROVE i \in K
    <3> DEFINE y == g[i - 1]
               e == q[i]
    <3>1. /\ i \in 0..n /\ i - 1 \in 0..n /\ m + i \in 1..(m + n) /\ ~(m + i <= m)
          /\ (m + i) - m = i /\ (m + i) - 1 = m + (i - 1)
      <4> HIDE DEF m, n
      <4> QED BY <1>1
    <3>2. r[m + i] = e
      BY <1>1, <3>1
    <3>3. h[m + (i - 1)] = x \o y /\ y \in T /\ e \in U
      BY <1>8, <2>2, <3>1 DEF x
    <3> HIDE DEF m, n
    <3>4. h[m + i] = IF e \in S THEN Append(h[m + (i - 1)], e) ELSE h[m + (i - 1)]
      BY <1>7, <3>1, <3>2
    <3>5. g[i] = IF e \in S THEN Append(y, e) ELSE y
      BY <1>6
    <3> HIDE DEF y, e
    <3>6. Append(x \o y, e) = x \o Append(y, e)
      <4> DEFINE one == <<e>>
                 xy == x \o y
      <4>1. one \in T /\ x \in T /\ y \in T
        BY <1>10, <3>3
      <4>2. xy \in T
        BY <4>1, ConcatProperties
      <4> HIDE DEF xy
      <4>3. Append(xy, e) = xy \o one /\ Append(y, e) = y \o one
        BY <3>3, <4>2, AppendIsConcat
      <4> HIDE DEF one
      <4> HIDE DEF T
      <4>4. (x \o y) \o one = x \o (y \o one)
        <5>1. x \in Seq(U) /\ y \in Seq(U) /\ one \in Seq(U)
          BY <4>1 DEF T
        <5> QED BY <5>1, ConcatAssociative
      <4> QED BY <4>3, <4>4 DEF xy
    <3>7. h[m + i] = x \o g[i]
      BY <3>3, <3>4, <3>5, <3>6
    <3> QED BY <3>1, <3>7 DEF x
  <2>3. \A i \in 1..n : i - 1 \in K => i \in K
    BY <2>2
  <2>4. n \in 0..n
    BY <1>1
  <2> HIDE DEF K, n
  <2> QED BY <1>1, <2>1, <2>3, <2>4, Induct
<1> QED BY <1>2, <1>3, <1>4, <1>11 DEF r

\* Lists, one behind the other, step by step.
Flattened(lists, T, g) ==
    /\ g[0] = <<>>
    /\ \A i \in 0..Len(lists) : g[i] \in T
    /\ \A i \in 1..Len(lists) : g[i] = g[i - 1] \o lists[i]
    /\ FlattenSeq(lists) = g[Len(lists)]

LEMMA Flattening ==
    ASSUME NEW U, NEW lists \in Seq(Seq(U)), Len(lists) > 0
    PROVE  \E g : Flattened(lists, Seq(U), g)
<1> DEFINE n == Len(lists)
           T == Seq(U)
           none == <<>>
           F == [p \in (1..n) \X T |-> p[2] \o lists[p[1]]]
           Is(f) == f = [i \in 1..n |-> IF i = 1 THEN lists[i] ELSE f[i - 1] \o lists[i]]
           flatten == CHOOSE f : Is(f)
<1>1. n \in Nat /\ n > 0 /\ none \in T /\ \A i \in 1..n : lists[i] \in T
  OBVIOUS
<1>2. FlattenSeq(lists) = flatten[n]
  <2>1. ~(Len(lists) = 0)
    OBVIOUS
  <2> QED BY <2>1 DEF FlattenSeq
<1>3. \A i \in 1..n, p \in T : p \o lists[i] \in T
  <2> SUFFICES ASSUME NEW i \in 1..n, NEW p \in Seq(U) PROVE p \o lists[i] \in Seq(U)
    OBVIOUS
  <2> DEFINE l == lists[i]
  <2>1. l \in Seq(U)
    BY <1>1
  <2> HIDE DEF l
  <2>2. p \o l \in Seq(U)
    BY <2>1, ConcatProperties
  <2> QED BY <2>2 DEF l
<1>4. /\ Steps(F, T, n)
      /\ \A i \in 1..n, p \in T : F[<<i, p>>] = p \o lists[i]
  BY <1>3 DEF Steps
<1> HIDE DEF F, none
<1>5. PICK g : Run(F, T, none, n, g)
  <2> HIDE DEF n, T
  <2> QED BY <1>1, <1>4, Runs
<1>6. g \in [0..n -> T] /\ g[0] = none /\ \A i \in 1..n : g[i] = F[<<i, g[i - 1]>>]
  BY <1>5 DEF Run
<1>7. /\ \A i \in 0..n : g[i] \in T
      /\ \A i \in 1..n : g[i] = g[i - 1] \o lists[i]
  <2> HIDE DEF n, T
  <2>1. \A i \in 1..n : i - 1 \in 0..n
    BY <1>1
  <2> QED BY <1>4, <1>6, <2>1
<1> DEFINE f == [i \in 1..n |-> g[i]]
<1>8. Is(f)
  <2>1. ASSUME NEW i \in 1..n
        PROVE  g[i] = IF i = 1 THEN lists[i] ELSE f[i - 1] \o lists[i]
    <3>1. CASE i = 1
      <4>1. g[1] = none \o lists[1] /\ lists[1] \in T
        <5>1. 1 \in 1..n /\ 1 - 1 = 0
          BY <1>1
        <5> QED BY <1>1, <1>6, <1>7, <5>1
      <4> DEFINE l == lists[1]
      <4>2. none \o l = l
        <5>1. l \in Seq(U)
          BY <4>1
        <5> HIDE DEF l
        <5> QED BY <5>1, ConcatEmptySeq DEF none
      <4> QED BY <3>1, <4>1, <4>2
    <3>2. CASE i # 1
      <4>1. i - 1 \in 1..n
        BY <1>1, <3>2
      <4>2. f[i - 1] = g[i - 1]
        BY <4>1
      <4> HIDE DEF f
      <4> QED BY <1>7, <3>2, <4>2
    <3> QED BY <3>1, <3>2
  <2> DEFINE e(i) == IF i = 1 THEN lists[i] ELSE f[i - 1] \o lists[i]
  <2>2. \A i \in 1..n : g[i] = e(i)
    BY <2>1
  <2>3. f = [i \in 1..n |-> e(i)]
    <3> HIDE DEF e, n
    <3> QED BY <2>2
  <2> QED BY <2>3
<1>9. Is(flatten)
  BY <1>8
<1> HIDE DEF flatten
<1>10. ASSUME NEW i \in 1..n
       PROVE  flatten[i] = IF i = 1 THEN lists[i] ELSE flatten[i - 1] \o lists[i]
  BY <1>9
<1>11. ASSUME NEW i \in 1..n
       PROVE  f[i] = IF i = 1 THEN lists[i] ELSE f[i - 1] \o lists[i]
  <2> DEFINE h == f
  <2>1. Is(h)
    BY <1>8
  <2> HIDE DEF h
  <2>2. h[i] = IF i = 1 THEN lists[i] ELSE h[i - 1] \o lists[i]
    BY <2>1
  <2> QED BY <2>2 DEF h
<1> DEFINE K == {i \in 0..n : i # 0 => flatten[i] = f[i]}
<1> HIDE DEF f
<1>12. n \in K
  <2>1. 0 \in K /\ n \in 0..n
    BY <1>1
  <2>2. ASSUME NEW i \in 1..n, i - 1 \in K PROVE i \in K
    <3>1. i \in 0..n /\ (i = 1 \/ i - 1 # 0)
      <4> HIDE DEF n
      <4> QED BY <1>1
    <3>2. i # 1 => flatten[i - 1] = f[i - 1]
      BY <2>2, <3>1
    <3>3. flatten[i] = f[i]
      BY <1>10, <1>11, <3>2
    <3> QED BY <3>1, <3>3
  <2>3. \A i \in 1..n : i - 1 \in K => i \in K
    BY <2>2
  <2> HIDE DEF K, n
  <2> QED BY <1>1, <2>1, <2>3, Induct
<1>13. flatten[n] = g[n]
  <2>1. n # 0 /\ n \in 1..n
    BY <1>1
  <2>2. flatten[n] = f[n]
    BY <1>12, <2>1
  <2> QED BY <2>1, <2>2 DEF f
<1>14. Flattened(lists, T, g)
  BY <1>2, <1>6, <1>7, <1>13 DEF Flattened, none
<1> QED BY <1>14

-----------------------------------------------------------------------------
(* Bytes: encoding is undone by decoding                                       *)

Half(n) == half_reverse_table[n + 1]

\* The table reverses four bits.
LEMMA HalfReversed ==
    ASSUME NEW n \in 0..15
    PROVE  /\ Half(n) \in 0..15 /\ Half(Half(n)) = n
           /\ Half(n) = (n % 2) * 8 + ((n \div 2) % 2) * 4 + ((n \div 4) % 2) * 2 + (n \div 8)
<1> DEFINE Is(k, r) == half_reverse_table[k + 1] = r
<1>1. /\ Is(0, 0) /\ Is(1, 8) /\ Is(2, 4) /\ Is(3, 12) /\ Is(4, 2) /\ Is(5, 10) /\ Is(6, 6)
      /\ Is(7, 14) /\ Is(8, 1) /\ Is(9, 9) /\ Is(10, 5) /\ Is(11, 13) /\ Is(12, 3)
      /\ Is(13, 11) /\ Is(14, 7) /\ Is(15, 15)
  BY DEF half_reverse_table
<1>2. \/ n = 0 \/ n = 1 \/ n = 2 \/ n = 3 \/ n = 4 \/ n = 5 \/ n = 6 \/ n = 7 \/ n = 8
      \/ n = 9 \/ n = 10 \/ n = 11 \/ n = 12 \/ n = 13 \/ n = 14 \/ n = 15
  OBVIOUS
<1> QED BY <1>1, <1>2 DEF Half

LEMMA Halves ==
    ASSUME NEW b \in Bytes
    PROVE  /\ b % 16 \in 0..15 /\ b \div 16 \in 0..15 /\ b = (b \div 16) * 16 + (b % 16)
           /\ \A n, k \in 0..15 : (n * 16 + k) % 16 = k /\ (n * 16 + k) \div 16 = n
<1>1. b % 16 \in 0..15 /\ b \div 16 \in 0..15 /\ b = (b \div 16) * 16 + (b % 16)
  BY DEF Bytes
<1>2. ASSUME NEW n \in 0..15, NEW k \in 0..15
      PROVE  (n * 16 + k) % 16 = k /\ (n * 16 + k) \div 16 = n
  OBVIOUS
<1> QED BY <1>1, <1>2

LEMMA Reversed ==
    ASSUME NEW b \in Bytes
    PROVE  bit_reverse(b) \in Bytes /\ bit_reverse(bit_reverse(b)) = b
<1> DEFINE lo == b % 16
           hi == b \div 16
<1>1. lo \in 0..15 /\ hi \in 0..15 /\ b = hi * 16 + lo
  BY Halves
<1>2. bit_reverse(b) = Half(lo) * 16 + Half(hi)
  BY DEF bit_reverse, Half
<1> HIDE DEF lo, hi
<1>3. Half(lo) \in 0..15 /\ Half(hi) \in 0..15 /\ Half(Half(lo)) = lo /\ Half(Half(hi)) = hi
  BY <1>1, HalfReversed
<1>4. bit_reverse(b) \in Bytes
  BY <1>2, <1>3 DEF Bytes
<1>5. bit_reverse(b) % 16 = Half(hi) /\ bit_reverse(b) \div 16 = Half(lo)
  BY <1>2, <1>3, Halves
<1>6. bit_reverse(bit_reverse(b)) = Half(Half(hi)) * 16 + Half(Half(lo))
  BY <1>5 DEF bit_reverse, Half
<1> QED BY <1>1, <1>3, <1>4, <1>6

\* The bits one by one, as rj_encode and rj_decode put them together.
LEMMA BitByBit ==
    ASSUME NEW b \in Bytes
    PROVE  Bit(b, 16) * 8 + Bit(b, 32) * 4 + Bit(b, 64) * 2 + Bit(b, 128)
           + Bit(b, 8) * 16 + Bit(b, 4) * 32 + Bit(b, 2) * 64 + Bit(b, 1) * 128
             = bit_reverse(b)
<1> DEFINE lo == b % 16
           hi == b \div 16
<1>1. lo \in 0..15 /\ hi \in 0..15 /\ b = hi * 16 + lo
  BY Halves
<1>2. bit_reverse(b) = Half(lo) * 16 + Half(hi)
  BY DEF bit_reverse, Half
<1> HIDE DEF lo, hi
<1>3. /\ Bit(b, 1) = lo % 2 /\ Bit(b, 2) = (lo \div 2) % 2
      /\ Bit(b, 4) = (lo \div 4) % 2 /\ Bit(b, 8) = lo \div 8
  BY <1>1 DEF Bit
<1>4. /\ Bit(b, 16) = hi % 2 /\ Bit(b, 32) = (hi \div 2) % 2
      /\ Bit(b, 64) = (hi \div 4) % 2 /\ Bit(b, 128) = hi \div 8
  BY <1>1 DEF Bit
<1>5. /\ Half(lo) = (lo % 2) * 8 + ((lo \div 2) % 2) * 4 + ((lo \div 4) % 2) * 2 + (lo \div 8)
      /\ Half(hi) = (hi % 2) * 8 + ((hi \div 2) % 2) * 4 + ((hi \div 4) % 2) * 2 + (hi \div 8)
  BY <1>1, HalfReversed
<1> QED BY <1>1, <1>2, <1>3, <1>4, <1>5

LEMMA ByteCodes ==
    ASSUME NEW b \in Bytes
    PROVE  /\ Complement(bit_reverse(b)) \in Bytes
           /\ bit_reverse(Complement(Complement(bit_reverse(b)))) = b
           /\ rj_encode(b) = Complement(bit_reverse(b))
           /\ rj_decode(rj_encode(b)) = b
<1>1. bit_reverse(b) \in Bytes /\ bit_reverse(bit_reverse(b)) = b
  BY Reversed
<1> DEFINE r == bit_reverse(b)
<1> HIDE DEF r
<1>2. Complement(r) \in Bytes /\ Complement(Complement(r)) = r
  BY <1>1 DEF Complement, Bytes, r
<1>3. rj_encode(b) = Complement(r)
  BY BitByBit DEF rj_encode, r
<1>4. rj_decode(rj_encode(b)) = bit_reverse(r)
  <2> DEFINE e == rj_encode(b)
             c == Complement(e)
  <2>1. c = r /\ c \in Bytes
    BY <1>1, <1>2, <1>3 DEF r
  <2>2. rj_decode(e) = Bit(c, 16) * 8 + Bit(c, 32) * 4 + Bit(c, 64) * 2 + Bit(c, 128)
                       + Bit(c, 8) * 16 + Bit(c, 4) * 32 + Bit(c, 1) * 128 + Bit(c, 2) * 64
    BY DEF rj_decode
  <2> HIDE DEF e, c
  <2>3. \A w : Bit(c, w) = (c \div w) % 2
    BY DEF Bit
  <2>4. \A w \in {1, 2, 4, 8, 16, 32, 64, 128} : Bit(c, w) \in Int
    BY <2>1 DEF Bit, Bytes
  <2>5. rj_decode(e) = bit_reverse(c)
    BY <2>1, <2>2, <2>4, BitByBit
  <2> QED BY <2>1, <2>5 DEF e
<1> QED BY <1>1, <1>2, <1>3, <1>4 DEF r
-----------------------------------------------------------------------------
(* Words: a heartbeat carries the key                                          *)

Value(w) == ((w[1] * 256 + w[2]) * 256 + w[3]) * 256 + w[4]

TwoTo32 == 256 * 256 * 256 * 256

LEMMA Carry ==
    ASSUME NEW n \in Nat
    PROVE  U8(n) \in Bytes /\ n \div 256 \in Nat /\ n = 256 * (n \div 256) + U8(n)
BY DEF U8, Bytes

LEMMA Remainder ==
    ASSUME NEW n \in Nat, NEW q \in Nat, NEW r \in Nat, r < n
    PROVE  (n * q + r) % n = r
OBVIOUS

\* Plus is the addition of a uint32_t, with its overflow.
LEMMA PlusAdds ==
    ASSUME NEW m \in Words, NEW n \in Words
    PROVE  /\ Plus(m, n) \in Words /\ Plus(m, n) = Plus(n, m)
           /\ Value(Plus(m, n)) = (Value(m) + Value(n)) % TwoTo32
<1>1. \A i \in 1..4 : m[i] \in Nat /\ n[i] \in Nat
  <2>1. \A i \in 1..4 : m[i] \in Bytes /\ n[i] \in Bytes
    BY DEF Words
  <2>2. Bytes \subseteq Nat
    BY DEF Bytes
  <2> QED BY <2>1, <2>2
<1> DEFINE s4 == m[4] + n[4]
           s3 == m[3] + n[3] + (s4 \div 256)
           s2 == m[2] + n[2] + (s3 \div 256)
           s1 == m[1] + n[1] + (s2 \div 256)
<1>2. Plus(m, n) = <<U8(s1), U8(s2), U8(s3), U8(s4)>> /\ Plus(m, n) = Plus(n, m)
  BY <1>1 DEF Plus
<1>3. s4 \in Nat /\ U8(s4) \in Bytes /\ s4 \div 256 \in Nat /\ s4 = 256 * (s4 \div 256) + U8(s4)
  BY <1>1, Carry
<1>4. s3 \in Nat /\ U8(s3) \in Bytes /\ s3 \div 256 \in Nat /\ s3 = 256 * (s3 \div 256) + U8(s3)
  BY <1>1, <1>3, Carry
<1>5. s2 \in Nat /\ U8(s2) \in Bytes /\ s2 \div 256 \in Nat /\ s2 = 256 * (s2 \div 256) + U8(s2)
  BY <1>1, <1>4, Carry
<1>6. s1 \in Nat /\ U8(s1) \in Bytes /\ s1 \div 256 \in Nat /\ s1 = 256 * (s1 \div 256) + U8(s1)
  BY <1>1, <1>5, Carry
<1>7. Plus(m, n) \in Words
  BY <1>2, <1>3, <1>4, <1>5, <1>6 DEF Words
<1>8. Value(m) + Value(n) = TwoTo32 * (s1 \div 256) + Value(Plus(m, n))
  <2> DEFINE m1 == m[1]
             m2 == m[2]
             m3 == m[3]
             m4 == m[4]
             n1 == n[1]
             n2 == n[2]
             n3 == n[3]
             n4 == n[4]
             c1 == s1 \div 256
             c2 == s2 \div 256
             c3 == s3 \div 256
             c4 == s4 \div 256
             u1 == U8(s1)
             u2 == U8(s2)
             u3 == U8(s3)
             u4 == U8(s4)
  <2>1. /\ m4 + n4 = 256 * c4 + u4 /\ m3 + n3 + c4 = 256 * c3 + u3
        /\ m2 + n2 + c3 = 256 * c2 + u2 /\ m1 + n1 + c2 = 256 * c1 + u1
    BY <1>3, <1>4, <1>5, <1>6
  <2>2. c1 \in Nat /\ c2 \in Nat /\ c3 \in Nat /\ c4 \in Nat
    BY <1>3, <1>4, <1>5, <1>6
  <2>3. u1 \in Nat /\ u2 \in Nat /\ u3 \in Nat /\ u4 \in Nat
    BY <1>3, <1>4, <1>5, <1>6 DEF Bytes
  <2>4. /\ m1 \in Nat /\ m2 \in Nat /\ m3 \in Nat /\ m4 \in Nat
        /\ n1 \in Nat /\ n2 \in Nat /\ n3 \in Nat /\ n4 \in Nat
    BY <1>1
  <2>5. /\ Value(m) = ((m1 * 256 + m2) * 256 + m3) * 256 + m4
        /\ Value(n) = ((n1 * 256 + n2) * 256 + n3) * 256 + n4
        /\ Value(Plus(m, n)) = ((u1 * 256 + u2) * 256 + u3) * 256 + u4
    BY <1>2 DEF Value
  <2> HIDE DEF m1, m2, m3, m4, n1, n2, n3, n4, c1, c2, c3, c4, u1, u2, u3, u4
  <2>6. (m3 * 256 + m4) + (n3 * 256 + n4) = 256 * 256 * c3 + (u3 * 256 + u4)
    BY <2>1, <2>2, <2>3, <2>4
  <2>7. ((m2 * 256 + m3) * 256 + m4) + ((n2 * 256 + n3) * 256 + n4)
          = 256 * 256 * 256 * c2 + ((u2 * 256 + u3) * 256 + u4)
    BY <2>1, <2>2, <2>3, <2>4, <2>6
  <2>8. (((m1 * 256 + m2) * 256 + m3) * 256 + m4) + (((n1 * 256 + n2) * 256 + n3) * 256 + n4)
          = 256 * 256 * 256 * 256 * c1 + (((u1 * 256 + u2) * 256 + u3) * 256 + u4)
    BY <2>1, <2>2, <2>3, <2>4, <2>7
  <2> QED BY <2>5, <2>8 DEF TwoTo32, c1
<1>9. Value(Plus(m, n)) \in Nat /\ Value(Plus(m, n)) < TwoTo32
  <2> DEFINE w == Plus(m, n)
  <2> HIDE DEF w
  <2>1. w[1] \in 0..255 /\ w[2] \in 0..255 /\ w[3] \in 0..255 /\ w[4] \in 0..255
    BY <1>7 DEF Words, Bytes, w
  <2> DEFINE a == w[1]
             b == w[2]
             c == w[3]
             d == w[4]
  <2>2. Value(w) = ((a * 256 + b) * 256 + c) * 256 + d
    BY DEF Value
  <2>3. a \in 0..255 /\ b \in 0..255 /\ c \in 0..255 /\ d \in 0..255
    BY <2>1
  <2> HIDE DEF a, b, c, d
  <2>4. Value(w) \in Nat /\ Value(w) < TwoTo32
    BY <2>2, <2>3 DEF TwoTo32
  <2> QED BY <2>4 DEF w
<1> HIDE DEF s1
<1>10. (Value(m) + Value(n)) % TwoTo32 = Value(Plus(m, n))
  BY <1>6, <1>8, <1>9, Remainder DEF TwoTo32
<1> QED BY <1>2, <1>7, <1>10

LEMMA OnTheWire ==
    ASSUME NEW w \in Words
    PROVE  Decoded(Encoded(w)) = w
<1>1. \A i \in 1..4 : bit_reverse(Complement(Complement(bit_reverse(w[i])))) = w[i]
  BY ByteCodes DEF Words
<1> QED BY <1>1 DEF Encoded, Decoded, Words

\* The key is found where a Success has it, behind a property without a content.
LEMMA KeyFound ==
    ASSUME NEW given \in Words
    PROVE  echokey_of(<<new_rjv3_prop(1, <<>>),
                        new_rjv3_prop(1, <<0, 0, 0, 0, 0, 0>> \o given)>>) = Decoded(given)
<1> DEFINE content == <<0, 0, 0, 0, 0, 0>> \o given
           list == <<new_rjv3_prop(1, <<>>), new_rjv3_prop(1, content)>>
<1>1. given \in Seq(Nat) /\ Len(given) = 4 /\ given = [i \in 1..4 |-> given[i]]
  <2>1. given = [i \in 1..4 |-> given[i]] /\ \A i \in 1..4 : given[i] \in Nat
    BY DEF Words, Bytes
  <2>2. given \in Seq(Nat)
    BY <2>1, IsList
  <2> QED BY <2>1, <2>2
<1> DEFINE front == <<0, 0, 0, 0, 0, 0>>
<1>2. front \in Seq(Nat) /\ Len(front) = 6
  OBVIOUS
<1> HIDE DEF front
<1>3. /\ content \in Seq(Nat) /\ Len(content) = 10
      /\ \A i \in 1..10 : content[i] = IF i <= 6 THEN front[i] ELSE given[i - 6]
  BY <1>1, <1>2, ConcatProperties DEF front
<1>4. SubSeq(content, 7, 10) = given
  BY <1>1, <1>3
<1> HIDE DEF content
<1>5. ~rjv3_is_echokey_prop(list[1]) /\ rjv3_is_echokey_prop(list[2])
  BY <1>3 DEF rjv3_is_echokey_prop, new_rjv3_prop, U8
<1>6. list[2].content = content /\ Len(list) = 2
  BY DEF new_rjv3_prop
<1> HIDE DEF list
<1>7. {i \in 1..Len(list) : rjv3_is_echokey_prop(list[i])} = {2}
  BY <1>5, <1>6
<1> DEFINE I == {i \in 1..Len(list) : rjv3_is_echokey_prop(list[i])}
<1> HIDE DEF I
<1>8. I = {2} /\ Min(I) = 2
  BY <1>7 DEF Min, I
<1>9. echokey_of(list) = Decoded(SubSeq(list[2].content, 7, 10))
  <2>1. echokey_of(list) = LET i == IF I # {} THEN Min(I) ELSE 0
                           IN  IF i = 0 THEN <<>> ELSE Decoded(SubSeq(list[i].content, 7, 10))
    BY DEF echokey_of, SelectInSeq, I
  <2> QED BY <1>8, <2>1
<1> QED BY <1>4, <1>6, <1>9 DEF list, content

LEMMA KeyIsCarried ==
    ASSUME NEW key \in Words, NEW no \in Words
    PROVE  KeyCarried(key, no)
<1> DEFINE given == [i \in DOMAIN key |-> rj_encode(key[i])]
           one == <<0, 0, 0, 1>>
<1>1. one \in Words
  BY DEF Words, Bytes
<1>2. /\ Plus(key, no) \in Words /\ Plus(one, no) = Plus(no, one)
  BY <1>1, PlusAdds
<1>3. given \in Words /\ given = Encoded(key)
  BY ByteCodes DEF Words, Encoded
<1>4. Decoded(given) = key
  BY <1>3, OnTheWire
<1>5. [i \in DOMAIN given |-> rj_decode(given[i])] = key
  BY ByteCodes DEF Words
<1>6. Decoded(Encoded(no)) = no /\ Decoded(Encoded(Plus(key, no))) = Plus(key, no)
  BY <1>2, OnTheWire
<1>7. echokey_of(<<new_rjv3_prop(1, <<>>),
                   new_rjv3_prop(1, <<0, 0, 0, 0, 0, 0>> \o given)>>) = key
  BY <1>3, <1>4, KeyFound
<1> HIDE DEF given
<1> QED BY <1>2, <1>5, <1>6, <1>7 DEF KeyCarried, rjv3_send_new_keepalive_frame, given, one

\* A key and the number of a heartbeat are each a uint32_t.
HeartbeatData == \A d \in Data : d.of = "heartbeat" => d.key \in Words /\ d.no \in Words

DataChosen == data \in Data \cup {[of |-> "nothing"]}

LEMMA DataStays == Spec => []DataChosen
<1>1. Init => DataChosen
  BY DEF Init, DataChosen
<1>2. DataChosen /\ [Next]_vars => DataChosen'
  BY DEF DataChosen, Next, Done, Request, Simple, Begin, Success, SetEth, SetFields, SetSeed,
         Step, Build, StartAgain, Retransmit, Heartbeat, Alarm, Going, vars
<1> QED BY <1>1, <1>2, PTL DEF Spec

\* EchoCarriesKey, for all 2^64 pairs of a key and a number: the heartbeat that
\* rjv3_send_new_keepalive_frame fills in lets the server compute the key that a
\* Success gave out, also where the sum overflows, and the number goes up by one.
THEOREM HeartbeatCarriesKey == HeartbeatData => (Spec => []EchoCarriesKey)
<1> SUFFICES ASSUME HeartbeatData PROVE Spec => []EchoCarriesKey
  OBVIOUS
<1>1. DataChosen => EchoCarriesKey
  BY KeyIsCarried DEF HeartbeatData, DataChosen, EchoCarriesKey
<1> QED BY <1>1, DataStays, PTL
-----------------------------------------------------------------------------
(* The lease                                                                   *)

\* The joined lists, one more at a time, are ever longer.
LEMMA Joining ==
    ASSUME NEW U, NEW lists \in Seq(Seq(U))
    PROVE  \E g : /\ Flattened(lists, Seq(U), g)
                  /\ \A i \in 1..Len(lists) : Len(g[i]) = Len(g[i - 1]) + Len(lists[i])
                  /\ \A i \in 0..Len(lists) : Len(g[i]) <= Len(FlattenSeq(lists))
<1> DEFINE n == Len(lists)
<1>0. n \in Nat /\ \A i \in 1..n : lists[i] \in Seq(U)
  OBVIOUS
<1>1. PICK g : Flattened(lists, Seq(U), g)
  <2>1. CASE n > 0
    BY <2>1, Flattening
  <2>2. CASE n = 0
    <3> DEFINE g == [i \in 0..0 |-> <<>>]
    <3>1. lists = <<>> /\ g[0] = <<>> /\ <<>> \in Seq(U)
      BY <2>2
    <3>2. FlattenSeq(lists) = <<>>
      BY <2>2, <3>1 DEF FlattenSeq
    <3>3. 0..n = {0} /\ 1..n = {}
      BY <2>2
    <3> HIDE DEF g
    <3>4. Flattened(lists, Seq(U), g)
      BY <2>2, <3>1, <3>2, <3>3 DEF Flattened
    <3> QED BY <3>4
  <2> QED BY <1>0, <2>1, <2>2
<1> HIDE DEF n
<1>2. /\ \A i \in 0..n : g[i] \in Seq(U)
      /\ \A i \in 1..n : g[i] = g[i - 1] \o lists[i]
      /\ FlattenSeq(lists) = g[n]
  BY <1>1 DEF Flattened, n
<1>3. ASSUME NEW i \in 1..n PROVE Len(g[i]) = Len(g[i - 1]) + Len(lists[i]) /\ Len(g[i - 1]) <= Len(g[i])
  <2> DEFINE l == g[i - 1]
             m == lists[i]
  <2>1. l \in Seq(U) /\ m \in Seq(U) /\ g[i] = l \o m
    <3>1. i - 1 \in 0..n
      BY <1>0
    <3> QED BY <1>0, <1>2, <3>1
  <2> HIDE DEF l, m
  <2>2. Len(l \o m) = Len(l) + Len(m) /\ Len(l) \in Nat /\ Len(m) \in Nat
    BY <2>1, ConcatProperties
  <2>3. Len(g[i]) = Len(l) + Len(m) /\ Len(l) <= Len(g[i])
    BY <2>1, <2>2
  <2> QED BY <2>3 DEF l, m
<1>4. \A i \in 0..n : Len(g[i]) \in Nat
  BY <1>2
<1> DEFINE K == {i \in 0..n : Len(g[n - i]) <= Len(g[n])}
<1>5. 0 \in K
  BY <1>0, <1>4
<1>6. ASSUME NEW i \in 1..n, i - 1 \in K PROVE i \in K
  <2>1. n - (i - 1) \in 1..n /\ (n - (i - 1)) - 1 = n - i /\ n - i \in 0..n /\ n - (i - 1) \in 0..n
        /\ i \in 0..n /\ n \in 0..n
    BY <1>0
  <2>2. Len(g[n - i]) <= Len(g[n - (i - 1)])
    BY <1>3, <2>1
  <2>3. Len(g[n - (i - 1)]) <= Len(g[n])
    BY <1>6
  <2> QED BY <1>4, <2>1, <2>2, <2>3
<1>7. \A i \in 0..n : i \in K
  <2>1. \A i \in 1..n : i - 1 \in K => i \in K
    BY <1>6
  <2> HIDE DEF K
  <2> QED BY <1>0, <1>5, <2>1, Induct
<1>8. ASSUME NEW i \in 0..n PROVE Len(g[i]) <= Len(g[n])
  <2>1. n - i \in 0..n /\ n - (n - i) = i
    BY <1>0
  <2>2. n - i \in K
    BY <1>7, <2>1
  <2> QED BY <2>1, <2>2
<1> QED BY <1>1, <1>2, <1>3, <1>8 DEF n

\* The whole of a routing table that fits is read, from however many datagrams, and
\* the loop ends.
LEMMA WholeTableRead ==
    ASSUME NEW U, NEW sys, sys.datagrams \in Seq(Seq(U)), sys.bufsize \in Nat,
           \A i \in DOMAIN sys.datagrams : sys.datagrams[i] # <<>>,
           sys.linux, TableFits(sys)
    PROVE  LET read == read_from_netlink_socket(sys)
           IN  /\ ~read.waits /\ read.msgs \in Seq(U)
               /\ ToSet(read.msgs) = UNION {ToSet(sys.datagrams[i]) : i \in DOMAIN sys.datagrams}
<1> DEFINE D == sys.datagrams
           n == Len(D)
           B == sys.bufsize
           parts == [i \in DOMAIN D |-> [type |-> "RTM_NEWROUTE", multi |-> TRUE, msgs |-> D[i]]]
           done == [type |-> "NLMSG_DONE", multi |-> TRUE, msgs |-> <<>>]
           all == parts \o <<done>>
           recv(acc, d) == recv_datagram(sys, acc, d)
           none == [msgs |-> <<>>, len |-> 0, end |-> FALSE]
           Is(f) == f = [i \in 0..Len(all) |-> IF i = 0 THEN none ELSE recv(f[i - 1], all[i])]
           after == CHOOSE f : Is(f)
<1>1. /\ n \in Nat /\ DOMAIN D = 1..n /\ \A i \in 1..n : D[i] \in Seq(U) /\ D[i] # <<>>
  OBVIOUS
<1>2. all = dump(sys)
  BY DEF dump
<1>3. LET got == after[Len(all)]
      IN  read_from_netlink_socket(sys)
            = [msgs |-> SubSeq(got.msgs, 1, got.len \div MessageSize), waits |-> ~got.end]
  <2> HIDE DEF all
  <2> QED BY <1>2 DEF read_from_netlink_socket
<1> DEFINE M == [type : {"RTM_NEWROUTE", "NLMSG_DONE"}, multi : {TRUE}, msgs : Seq(U)]
<1>4. /\ Len(all) = n + 1
      /\ \A i \in 1..n : all[i] = [type |-> "RTM_NEWROUTE", multi |-> TRUE, msgs |-> D[i]]
      /\ all[n + 1] = done
  <2>1. /\ \A i \in 1..n : parts[i] \in M
        /\ parts = [i \in 1..n |-> parts[i]]
    BY <1>1
  <2>2. parts \in Seq(M)
    <3> HIDE DEF parts, M, n
    <3> QED BY <1>1, <2>1, IsList
  <2>3. Len(parts) = n /\ done \in M
    BY <1>1
  <2>4. \A i \in 1..n : parts[i] = [type |-> "RTM_NEWROUTE", multi |-> TRUE, msgs |-> D[i]]
    BY <1>1
  <2> HIDE DEF parts, done, M, n
  <2>5. <<done>> \in Seq(M) /\ Len(<<done>>) = 1 /\ <<done>>[1] = done
    BY <2>3
  <2>6. /\ Len(all) = n + 1
        /\ \A i \in 1..(n + 1) : all[i] = IF i <= n THEN parts[i] ELSE <<done>>[i - n]
    BY <1>1, <2>2, <2>3, <2>5, ConcatProperties
  <2>7. \A i \in 1..n : i \in 1..(n + 1) /\ i <= n
    BY <1>1
  <2>8. n + 1 \in 1..(n + 1) /\ ~(n + 1 <= n) /\ (n + 1) - n = 1
    BY <1>1
  <2> QED BY <2>4, <2>5, <2>6, <2>7, <2>8
<1> HIDE DEF all, n
<1>5. PICK g : /\ Flattened(D, Seq(U), g)
               /\ \A i \in 1..n : Len(g[i]) = Len(g[i - 1]) + Len(D[i])
               /\ \A i \in 0..n : Len(g[i]) <= Len(FlattenSeq(D))
  <2> HIDE DEF D
  <2> QED BY Joining DEF n, D
<1>6. /\ g[0] = <<>> /\ \A i \in 0..n : g[i] \in Seq(U) /\ Len(g[i]) \in Nat /\ 3 * Len(g[i]) < B
      /\ \A i \in 1..n : g[i] = g[i - 1] \o D[i]
      /\ B \in Nat
  <2>1. g[0] = <<>> /\ (\A i \in 0..n : g[i] \in Seq(U)) /\ (\A i \in 1..n : g[i] = g[i - 1] \o D[i])
    BY <1>5 DEF Flattened, n
  <2>2. \A i \in 0..n : Len(g[i]) \in Nat
    BY <2>1
  <2> DEFINE whole == Len(FlattenSeq(D))
  <2>3. 3 * whole < B
    BY DEF TableFits, MessageSize
  <2>4. whole \in Nat
    BY <1>1, <1>5, <2>2 DEF Flattened, n
  <2>5. \A i \in 0..n : Len(g[i]) <= whole
    BY <1>5
  <2> HIDE DEF whole
  <2>6. \A i \in 0..n : 3 * Len(g[i]) < B
    BY <2>2, <2>3, <2>4, <2>5
  <2> QED BY <2>1, <2>2, <2>6
<1> DEFINE h == [i \in 0..(n + 1) |->
                    IF i <= n THEN [msgs |-> g[i], len |-> 3 * Len(g[i]), end |-> FALSE]
                    ELSE [msgs |-> g[n], len |-> 3 * Len(g[n]), end |-> TRUE]]
<1>7. /\ \A i \in 0..n : h[i] = [msgs |-> g[i], len |-> 3 * Len(g[i]), end |-> FALSE]
      /\ h[n + 1] = [msgs |-> g[n], len |-> 3 * Len(g[n]), end |-> TRUE]
      /\ h = [i \in 0..(n + 1) |-> h[i]]
  BY <1>1
<1> HIDE DEF h, D, B
<1>8. ASSUME NEW i \in 1..n PROVE recv(h[i - 1], all[i]) = h[i]
  <2> DEFINE acc == h[i - 1]
             d == all[i]
             l == Len(g[i - 1])
             m == Len(D[i])
  <2>1. i - 1 \in 0..n /\ i \in 0..n
    BY <1>1
  <2>2. acc = [msgs |-> g[i - 1], len |-> 3 * l, end |-> FALSE]
    BY <1>7, <2>1
  <2>3. d = [type |-> "RTM_NEWROUTE", multi |-> TRUE, msgs |-> D[i]]
    BY <1>4
  <2>4. l \in Nat /\ m \in Nat /\ m > 0 /\ Len(g[i]) = l + m /\ 3 * (l + m) < B
    <3>1. m \in Nat /\ m > 0
      BY <1>1
    <3> QED BY <1>5, <1>6, <2>1, <3>1
  <2>5. g[i] = g[i - 1] \o D[i]
    BY <1>6
  <2> HIDE DEF l, acc, d
  <2>6. /\ acc.msgs = g[i - 1] /\ acc.len = 3 * l /\ acc.end = FALSE
        /\ d.type = "RTM_NEWROUTE" /\ d.multi = TRUE /\ d.msgs = D[i]
    BY <2>2, <2>3
  <2>7. recv(acc, d) = [msgs |-> acc.msgs \o d.msgs, len |-> acc.len + 3 * m, end |-> ~d.multi]
    <3> DEFINE room == B - acc.len
               whole == 3 * Len(d.msgs)
               read == IF room < whole THEN room ELSE whole
    <3>1. ~acc.end /\ d.type # "NLMSG_DONE"
      BY <2>6
    <3>2. room # 0 /\ read = 3 * m /\ read # 2
      <4>1. room = B - 3 * l /\ whole = 3 * m
        BY <2>6
      <4> HIDE DEF room, whole, m
      <4> QED BY <1>6, <2>4, <4>1
    <3>3. recv(acc, d) = IF acc.end THEN acc
                         ELSE IF room = 0 THEN [acc EXCEPT !.end = sys.beyond]
                         ELSE IF d.type = "NLMSG_DONE" THEN [acc EXCEPT !.end = TRUE]
                         ELSE IF read = 2 THEN [acc EXCEPT !.len = @ - read, !.end = TRUE]
                         ELSE [msgs |-> acc.msgs \o d.msgs, len |-> acc.len + read, end |-> ~d.multi]
      BY DEF recv_datagram, MessageSize, B
    <3> HIDE DEF recv, room, read
    <3> QED BY <3>1, <3>2, <3>3
  <2>8. (~d.multi) = FALSE
    BY <2>6, Zenon
  <2>9. acc.len + 3 * m = 3 * Len(g[i])
    <3> HIDE DEF m
    <3> QED BY <2>4, <2>6
  <2> HIDE DEF recv
  <2>10. recv(acc, d) = [msgs |-> g[i], len |-> 3 * Len(g[i]), end |-> FALSE]
    BY <2>5, <2>6, <2>7, <2>8, <2>9
  <2> QED BY <1>7, <2>1, <2>10 DEF acc, d
<1>9. recv(h[n], all[n + 1]) = h[n + 1]
  <2> DEFINE acc == h[n]
             d == all[n + 1]
  <2>1. n \in 0..n
    BY <1>1
  <2>2. acc = [msgs |-> g[n], len |-> 3 * Len(g[n]), end |-> FALSE]
    BY <1>7, <2>1
  <2>3. d.type = "NLMSG_DONE"
    BY <1>4
  <2> HIDE DEF acc, d
  <2>4. acc.len = 3 * Len(g[n]) /\ ~acc.end /\ B - acc.len # 0
    BY <1>6, <2>1, <2>2
  <2>5. recv(acc, d) = [acc EXCEPT !.end = TRUE]
    BY <2>3, <2>4 DEF recv_datagram, B
  <2> HIDE DEF recv
  <2>6. recv(acc, d) = [msgs |-> g[n], len |-> 3 * Len(g[n]), end |-> TRUE]
    BY <2>2, <2>5
  <2> QED BY <1>7, <2>6 DEF acc, d
<1>10. h[0] = none
  <2>1. 0 \in 0..n /\ Len(<<>>) = 0 /\ 3 * 0 = 0
    BY <1>1
  <2> QED BY <1>6, <1>7, <2>1
<1> HIDE DEF recv, none
<1>11. \A i \in 1..(n + 1) : recv(h[i - 1], all[i]) = h[i]
  <2> SUFFICES ASSUME NEW i \in 1..(n + 1) PROVE recv(h[i - 1], all[i]) = h[i]
    OBVIOUS
  <2>1. CASE i = n + 1
    <3>1. i - 1 = n
      BY <1>1, <2>1
    <3> QED BY <1>9, <2>1, <3>1
  <2>2. CASE i # n + 1
    <3>1. i \in 1..n
      BY <1>1, <2>2
    <3> QED BY <1>8, <3>1
  <2> QED BY <2>1, <2>2
<1>12. Is(after)
  <2>1. ASSUME NEW i \in 0..(n + 1) PROVE h[i] = IF i = 0 THEN none ELSE recv(h[i - 1], all[i])
    <3>1. i # 0 => i \in 1..(n + 1)
      BY <1>1
    <3> QED BY <1>10, <1>11, <3>1
  <2>2. h = [i \in 0..(n + 1) |-> IF i = 0 THEN none ELSE recv(h[i - 1], all[i])]
    BY <1>7, <2>1
  <2>3. Is(h)
    BY <1>4, <2>2
  <2> QED BY <2>3
<1> HIDE DEF after
<1>13. /\ after[0] = none
       /\ \A i \in 1..(n + 1) : after[i] = recv(after[i - 1], all[i])
  <2>1. 0 \in 0..(n + 1) /\ \A i \in 1..(n + 1) : i \in 0..(n + 1) /\ i # 0
    BY <1>1
  <2> QED BY <1>4, <1>12, <2>1
<1> DEFINE K == {i \in 0..(n + 1) : after[i] = h[i]}
<1>14. after[n + 1] = h[n + 1]
  <2>1. 0 \in K
    BY <1>1, <1>10, <1>13
  <2>2. \A i \in 1..(n + 1) : i - 1 \in K => i \in K
    <3> SUFFICES ASSUME NEW i \in 1..(n + 1), i - 1 \in K PROVE i \in K
      OBVIOUS
    <3>1. i \in 0..(n + 1) /\ after[i - 1] = h[i - 1]
      BY <1>1
    <3> QED BY <1>11, <1>13, <3>1
  <2>3. n + 1 \in Nat /\ n + 1 \in 0..(n + 1)
    BY <1>1
  <2> HIDE DEF K
  <2>4. n + 1 \in K
    BY <2>1, <2>2, <2>3, Induct
  <2> QED BY <2>4 DEF K
<1> DEFINE read == read_from_netlink_socket(sys)
<1>15. ~read.waits /\ read.msgs = g[n]
  <2>1. n \in 0..n
    BY <1>1
  <2> DEFINE got == after[Len(all)]
             l == Len(g[n])
  <2>2. got = [msgs |-> g[n], len |-> 3 * l, end |-> TRUE]
    BY <1>4, <1>7, <1>14
  <2>3. l \in Nat /\ g[n] \in Seq(U)
    BY <1>6, <2>1
  <2>4. read = [msgs |-> SubSeq(got.msgs, 1, got.len \div MessageSize), waits |-> ~got.end]
    BY <1>3
  <2> HIDE DEF got, l, read
  <2>5. got.msgs = g[n] /\ got.len = 3 * l /\ got.end = TRUE
    BY <2>2
  <2>6. got.len \div MessageSize = l
    BY <2>3, <2>5 DEF MessageSize
  <2>7. SubSeq(g[n], 1, l) = g[n]
    <3> DEFINE s == g[n]
    <3>1. s \in Seq(U) /\ l = Len(s)
      BY <2>3 DEF l
    <3> HIDE DEF s
    <3>2. SubSeq(s, 1, Len(s)) = s
      BY <3>1
    <3> QED BY <3>1, <3>2 DEF s
  <2>8. ~read.waits /\ read.msgs = SubSeq(got.msgs, 1, got.len \div MessageSize)
    BY <2>4, <2>5
  <2> QED BY <2>5, <2>6, <2>7, <2>8
<1> DEFINE sets(m) == {ToSet(D[k]) : k \in 1..m}
           J == {i \in 0..n : ToSet(g[i]) = UNION sets(i)}
<1>16. 0 \in J
  <2>1. ToSet(<<>>) = {} /\ 1..0 = {}
    BY DEF ToSet
  <2>2. UNION sets(0) = {}
    BY <2>1
  <2> HIDE DEF sets
  <2> QED BY <1>1, <1>6, <2>1, <2>2
<1>17. ASSUME NEW i \in 1..n, i - 1 \in J PROVE i \in J
  <2> DEFINE l == g[i - 1]
             m == D[i]
  <2>1. l \in Seq(U) /\ m \in Seq(U) /\ g[i] = l \o m /\ i \in 0..n
    <3>1. i - 1 \in 0..n /\ i \in 0..n
      BY <1>1
    <3> QED BY <1>1, <1>6, <3>1
  <2>2. ToSet(l) = UNION sets(i - 1)
    BY <1>17
  <2>3. 1..i = 1..(i - 1) \cup {i}
    BY <1>1
  <2>4. sets(i) = sets(i - 1) \cup {ToSet(m)}
    BY <2>3
  <2> HIDE DEF sets, l, m
  <2>5. ToSet(l \o m) = ToSet(l) \cup ToSet(m)
    BY <2>1, SetOfConcat
  <2>6. UNION sets(i) = (UNION sets(i - 1)) \cup ToSet(m)
    BY <2>4, UnionWith
  <2> QED BY <2>1, <2>2, <2>5, <2>6
<1>18. ToSet(g[n]) = UNION sets(n) /\ g[n] \in Seq(U)
  <2>1. \A i \in 1..n : i - 1 \in J => i \in J
    BY <1>17
  <2>2. n \in 0..n
    BY <1>1
  <2> HIDE DEF J
  <2>3. n \in J
    BY <1>1, <1>16, <2>1, <2>2, Induct
  <2> QED BY <1>6, <2>2, <2>3 DEF J
<1> HIDE DEF read
<1>19. /\ ~read.waits /\ read.msgs \in Seq(U)
       /\ ToSet(read.msgs) = UNION {ToSet(D[k]) : k \in 1..n}
  BY <1>15, <1>18
<1> QED BY <1>1, <1>19 DEF read, D

IsAList(list) == list \in Seq(ToSet(list))

\* What a system lists: the messages of its routing table are the routes, however
\* they are cut into datagrams, and fit the buffer; there is a name server unless
\* the user gave one.
System(sys, fake) ==
    /\ IsAList(sys.ifaddrs) /\ IsAList(sys.routes) /\ IsAList(sys.resolv)
    /\ sys.linux \in BOOLEAN /\ sys.resolv_opens \in BOOLEAN
    /\ \/ fake # <<>> \/ ~sys.resolv_opens
       \/ \E line \in ToSet(sys.resolv) : line.key = "nameserver"
    /\ sys.linux =>
         /\ sys.datagrams \in Seq(Seq(ToSet(sys.routes))) /\ sys.bufsize \in Nat
         /\ \A i \in DOMAIN sys.datagrams : sys.datagrams[i] # <<>>
         /\ ToSet(sys.routes) = UNION {ToSet(sys.datagrams[i]) : i \in DOMAIN sys.datagrams}
         /\ TableFits(sys)

LEMMA AddressFound ==
    ASSUME NEW sys, NEW ifname, IsAList(sys.ifaddrs)
    PROVE  LET ipv4 == find_ip_with_family(obtain_iface_ip_mask(sys, ifname), "AF_INET")
               mine == {a \in ToSet(sys.ifaddrs) : a.name = ifname /\ a.family = "AF_INET"}
           IN  IF mine = {} THEN ipv4 = <<>> ELSE ipv4 # <<>> /\ ipv4[1] \in mine
<1> DEFINE U == ToSet(sys.ifaddrs)
           named == {a \in U : a.name = ifname}
           list == Select(sys.ifaddrs, named)
           inet == {a \in ToSet(list) : a.family = "AF_INET"}
           mine == {a \in U : a.name = ifname /\ a.family = "AF_INET"}
           ipv4 == First(Select(list, inet))
<1>1. list \in Seq(U) /\ ToSet(list) = U \cap named
  BY SelectSet DEF IsAList
<1>2. ipv4 = find_ip_with_family(obtain_iface_ip_mask(sys, ifname), "AF_INET")
  BY DEF find_ip_with_family, obtain_iface_ip_mask
<1> HIDE DEF list
<1>3. ToSet(list) \cap inet = mine
  BY <1>1
<1> HIDE DEF inet, mine
<1>4. IF mine = {} THEN ipv4 = <<>> ELSE ipv4 # <<>> /\ ipv4[1] \in mine
  BY <1>1, <1>3, FirstOf
<1> QED BY <1>2, <1>4 DEF mine

LEMMA GatewayFound ==
    ASSUME NEW sys, NEW ifname, NEW fake, System(sys, fake)
    PROVE  LET gw  == obtain_iface_ipv4_gateway(sys, ifname)
               out == {r \in ToSet(sys.routes) : retrive_if_gateway(r, ifname)}
           IN  /\ IF out = {} THEN gw = <<>> ELSE gw # <<>> /\ gw[1] \in out
               /\ ~(sys.linux /\ read_from_netlink_socket(sys).waits)
<1> DEFINE U == ToSet(sys.routes)
           gw  == obtain_iface_ipv4_gateway(sys, ifname)
           out == {r \in U : retrive_if_gateway(r, ifname)}
<1>1. CASE sys.linux
  <2> DEFINE messages == read_from_netlink_socket(sys).msgs
             S == {r \in ToSet(messages) : retrive_if_gateway(r, ifname)}
  <2>1. messages \in Seq(U) /\ ToSet(messages) = U /\ ~read_from_netlink_socket(sys).waits
    <3>1. /\ sys.datagrams \in Seq(Seq(U)) /\ sys.bufsize \in Nat /\ sys.linux /\ TableFits(sys)
          /\ \A i \in DOMAIN sys.datagrams : sys.datagrams[i] # <<>>
          /\ U = UNION {ToSet(sys.datagrams[i]) : i \in DOMAIN sys.datagrams}
      BY <1>1 DEF System
    <3> HIDE DEF U
    <3> QED BY <3>1, WholeTableRead
  <2>2. gw = First(Select(messages, S))
    BY <1>1 DEF obtain_iface_ipv4_gateway, linux_iface_ipv4_gateway
  <2> HIDE DEF messages
  <2>3. ToSet(messages) \cap S = out
    BY <2>1
  <2> HIDE DEF S, out, gw
  <2>4. IF out = {} THEN gw = <<>> ELSE gw # <<>> /\ gw[1] \in out
    BY <2>1, <2>2, <2>3, FirstOf
  <2> QED BY <2>1, <2>4 DEF gw, out, messages
<1>2. CASE ~sys.linux
  <2> DEFINE S == {r \in U : r.main /\ r.family = "AF_INET" /\ r.dst = "default" /\ r.name = ifname}
  <2>1. sys.routes \in Seq(U)
    BY DEF System, IsAList
  <2>2. gw = First(Select(sys.routes, S))
    BY <1>2 DEF obtain_iface_ipv4_gateway, apple_iface_ipv4_gateway
  <2>3. U \cap S = out
    BY DEF retrive_if_gateway
  <2> HIDE DEF S, out, gw
  <2>4. IF out = {} THEN gw = <<>> ELSE gw # <<>> /\ gw[1] \in out
    BY <2>1, <2>2, <2>3, FirstOf
  <2> QED BY <1>2, <2>4 DEF gw, out
<1> QED BY <1>1, <1>2

\* The line taken for the first name server is that of ServerOf.
LEMMA NameServerFound ==
    ASSUME NEW sys, NEW fake, System(sys, fake)
    PROVE  LET none == fake = <<>> /\ ~sys.resolv_opens
           IN  /\ none => ServerOf(sys, fake) = {}
               /\ ~none => ServerOf(sys, fake) = {dns1_str(sys, fake)}
               /\ ~none /\ fake = <<>> => obtain_dns_list(sys) # <<>>
<1>1. CASE fake # <<>>
  BY <1>1 DEF ServerOf, dns1_str
<1>2. CASE fake = <<>> /\ ~sys.resolv_opens
  BY <1>2 DEF ServerOf
<1>3. CASE fake = <<>> /\ sys.resolv_opens
  <2> DEFINE list == sys.resolv
             U == ToSet(list)
             S == {line \in U : line.key = "nameserver"}
             found == Select(list, S)
             dns == First(found)
             Before(k) == \A j \in 1..(k - 1) : list[j] \notin S
             firsts == {i \in DOMAIN list : list[i].key = "nameserver"
                                            /\ \A j \in 1..(i - 1) : list[j].key # "nameserver"}
  <2>1. list \in Seq(U) /\ U \cap S # {}
    BY <1>3 DEF System, IsAList
  <2>2. obtain_dns_list(sys) = found
    BY <1>3 DEF obtain_dns_list
  <2>3. /\ dns # <<>>
        /\ \E k \in DOMAIN list : dns[1] = list[k] /\ Before(k)
        /\ dns[1] \in U \cap S
    <3> HIDE DEF S
    <3> QED BY <2>1, FirstOf
  <2>4. dns # <<>> => found # <<>>
    BY DEF First
  <2> HIDE DEF dns
  <2>5. PICK k \in DOMAIN list : dns[1] = list[k] /\ Before(k)
    BY <2>3
  <2>6. ASSUME NEW i \in DOMAIN list PROVE list[i] \in U /\ i \in Nat /\ i > 0
    BY <2>1 DEF ToSet
  <2>7. ASSUME NEW i \in DOMAIN list PROVE \A j \in 1..(i - 1) : j \in DOMAIN list
    BY <2>1
  <2>8. firsts = {k}
    <3>1. k \in firsts
      <4>1. list[k].key = "nameserver"
        BY <2>3, <2>5
      <4>2. \A j \in 1..(k - 1) : list[j].key # "nameserver"
        BY <2>5, <2>6, <2>7
      <4> QED BY <4>1, <4>2
    <3>2. ASSUME NEW i \in firsts PROVE i = k
      <4>1. i \in DOMAIN list /\ i \in Nat /\ k \in Nat /\ i > 0 /\ k > 0
        BY <2>5, <2>6
      <4>2. ~(i < k)
        <5>1. i < k => i \in 1..(k - 1)
          BY <4>1
        <5> QED BY <3>1, <3>2, <5>1
      <4>3. ~(k < i)
        <5>1. k < i => k \in 1..(i - 1)
          BY <4>1
        <5> QED BY <3>1, <3>2, <5>1
      <4> QED BY <4>1, <4>2, <4>3
    <3> QED BY <3>1, <3>2
  <2>9. dns1_str(sys, fake) = dns[1].value
    BY <1>3, <2>2 DEF dns1_str, dns
  <2>10. ServerOf(sys, fake) = {list[i].value : i \in firsts}
    BY <1>3 DEF ServerOf
  <2> HIDE DEF firsts
  <2>11. ServerOf(sys, fake) = {dns1_str(sys, fake)}
    BY <2>5, <2>8, <2>9, <2>10
  <2> QED BY <1>3, <2>2, <2>3, <2>4, <2>11
<1> QED BY <1>1, <1>2, <1>3 DEF System

LEMMA LeaseFound ==
    ASSUME NEW sys, NEW ifname, NEW fake, System(sys, fake)
    PROVE  LeaseIsOf(sys, ifname, fake)
<1> DEFINE lease == rjv3_get_dhcp_lease(sys, ifname, fake)
           ipv4 == find_ip_with_family(obtain_iface_ip_mask(sys, ifname), "AF_INET")
           gw   == obtain_iface_ipv4_gateway(sys, ifname)
           str  == dns1_str(sys, fake)
           none == fake = <<>> /\ ~sys.resolv_opens
           mine == {a \in ToSet(sys.ifaddrs) : a.name = ifname /\ a.family = "AF_INET"}
           out  == {r \in ToSet(sys.routes) : retrive_if_gateway(r, ifname)}
           usable == {server \in ServerOf(sys, fake) : server[1] = "AF_INET"}
<1>1. IF mine = {} THEN ipv4 = <<>> ELSE ipv4 # <<>> /\ ipv4[1] \in mine
  BY AddressFound DEF System
<1>2. (IF out = {} THEN gw = <<>> ELSE gw # <<>> /\ gw[1] \in out)
      /\ ~(sys.linux /\ read_from_netlink_socket(sys).waits)
  BY GatewayFound
<1>3. /\ none => ServerOf(sys, fake) = {}
      /\ ~none => ServerOf(sys, fake) = {str}
      /\ ~none /\ fake = <<>> => obtain_dns_list(sys) # <<>>
  BY NameServerFound
<1>4. usable = IF ~none /\ str[1] = "AF_INET" THEN {str} ELSE {}
  BY <1>3
<1>5. (str[1] = "AF_INET" => inet_pton("AF_INET", str) # <<>> /\ inet_pton("AF_INET", str)[1] = str[2])
      /\ (str[1] # "AF_INET" => inet_pton("AF_INET", str) = <<>>)
  BY DEF inet_pton
<1>6. lease = IF ipv4 = <<>> THEN [status |-> "FAILURE"]
              ELSE IF gw = <<>> \/ none THEN [status |-> "FAILURE"]
              ELSE IF inet_pton("AF_INET", str) = <<>> THEN [status |-> "FAILURE"]
              ELSE [status |-> "SUCCESS", ip |-> ipv4[1].ip, netmask |-> ipv4[1].mask,
                    gateway |-> gw[1].gateway, dns |-> inet_pton("AF_INET", str)[1]]
  BY <1>2, <1>3 DEF rjv3_get_dhcp_lease
<1>7. rjv3_append_priv_header(sys, ifname, TRUE, TRUE, fake).lease = lease
  BY DEF rjv3_append_priv_header
<1> HIDE DEF lease, ipv4, gw, str, none, mine, out, usable
<1>8. /\ lease.status = "SUCCESS" =>
          /\ \E a \in mine : lease.ip = a.ip /\ lease.netmask = a.mask
          /\ \E r \in out : lease.gateway = r.gateway
          /\ \E server \in usable : lease.dns = server[2]
      /\ lease.status = IF mine = {} \/ out = {} \/ usable = {} THEN "FAILURE" ELSE "SUCCESS"
  <2>1. CASE mine = {} \/ out = {} \/ usable = {}
    <3>1. lease = [status |-> "FAILURE"]
      BY <1>1, <1>2, <1>4, <1>5, <1>6, <2>1
    <3> QED BY <2>1, <3>1
  <2>2. CASE mine # {} /\ out # {} /\ usable # {}
    <3>1. /\ ipv4 # <<>> /\ ipv4[1] \in mine /\ gw # <<>> /\ gw[1] \in out
          /\ ~none /\ str[1] = "AF_INET" /\ usable = {str}
      BY <1>1, <1>2, <1>4, <2>2
    <3>2. lease = [status |-> "SUCCESS", ip |-> ipv4[1].ip, netmask |-> ipv4[1].mask,
                   gateway |-> gw[1].gateway, dns |-> inet_pton("AF_INET", str)[1]]
      BY <1>5, <1>6, <3>1
    <3>3. /\ lease.status = "SUCCESS" /\ lease.ip = ipv4[1].ip /\ lease.netmask = ipv4[1].mask
          /\ lease.gateway = gw[1].gateway /\ lease.dns = str[2]
      BY <1>5, <3>1, <3>2
    <3> QED BY <2>2, <3>1, <3>3
  <2> QED BY <2>1, <2>2
<1> QED BY <1>7, <1>8 DEF LeaseIsOf, mine, out, usable

LeaseData == \A d \in Data : d.of = "lease" => System(d.sys, d.fake)

\* LeaseOfInterface, for any number of addresses, routes, datagrams and lines of
\* resolv.conf: an address, a mask and a gateway of the interface are in the lease,
\* with the first name server or the user's, and it is missing exactly when the
\* interface has no address or no default route, or the server is no IPv4 address.
\* The routing table is assumed to fit the buffer it is read into.
THEOREM LeaseBelongs == LeaseData => (Spec => []LeaseOfInterface)
<1> SUFFICES ASSUME LeaseData PROVE Spec => []LeaseOfInterface
  OBVIOUS
<1>1. DataChosen => LeaseOfInterface
  BY LeaseFound DEF LeaseData, DataChosen, LeaseOfInterface
<1> QED BY <1>1, DataStays, PTL
-----------------------------------------------------------------------------
(* The digests: what a context has taken, block by block                       *)

\* Where block k + 1 begins.
Off(k) == k * Block

LEMMA BlockSize == Block \in Nat /\ Block > 0
BY DigestAssumption

LEMMA Offset ==
    ASSUME NEW k \in Nat
    PROVE  Off(k) \in Nat /\ Off(k + 1) = Off(k) + Block
BY BlockSize DEF Off

LEMMA OffsetsAdd ==
    ASSUME NEW j \in Nat, NEW k \in Nat
    PROVE  Off(j + k) = Off(j) + Off(k)
BY BlockSize DEF Off

LEMMA OffsetsGrow ==
    ASSUME NEW j \in Nat, NEW k \in Nat, j <= k
    PROVE  Off(j) <= Off(k)
<1>1. k - j \in Nat /\ j + (k - j) = k
  OBVIOUS
<1>2. Off(k) = Off(j) + Off(k - j)
  BY <1>1, OffsetsAdd
<1>3. Off(k - j) \in Nat /\ Off(j) \in Nat
  BY <1>1, Offset
<1> QED BY <1>2, <1>3

\* Division by the size of a block.
LEMMA Divided ==
    ASSUME NEW n \in Nat
    PROVE  /\ n \div Block \in Nat /\ n % Block \in 0..(Block - 1)
           /\ n = Off(n \div Block) + (n % Block)
<1>1. Block \in Nat \ {0}
  BY DigestAssumption
<1>2. n \div Block \in Nat /\ n % Block \in 0..(Block - 1)
  BY <1>1
<1>3. n = Block * (n \div Block) + (n % Block)
  BY <1>1
<1> QED BY <1>1, <1>2, <1>3 DEF Off

LEMMA DividedBy ==
    ASSUME NEW q \in Nat, NEW r \in 0..(Block - 1), NEW n, n = Off(q) + r
    PROVE  n \div Block = q /\ n % Block = r
<1> DEFINE p == n \div Block
           s == n % Block
<1>1. Off(q) \in Nat /\ Block \in Nat /\ Block > 0 /\ r \in Nat /\ r < Block
  BY Offset, BlockSize
<1>2. p \in Nat /\ s \in 0..(Block - 1) /\ n = Off(p) + s /\ Off(p) \in Nat
  <2>1. n \in Nat
    BY <1>1
  <2>2. p \in Nat /\ s \in 0..(Block - 1) /\ n = Off(p) + s
    BY <2>1, Divided
  <2> HIDE DEF p
  <2> QED BY <2>2, Offset
<1> HIDE DEF p, s
<1>3. ~(p < q)
  <2> SUFFICES ASSUME p < q PROVE FALSE
    OBVIOUS
  <2>1. p + 1 <= q /\ p + 1 \in Nat
    BY <1>2
  <2>2. Off(p + 1) <= Off(q) /\ Off(p + 1) = Off(p) + Block
    BY <1>2, <2>1, Offset, OffsetsGrow
  <2> QED BY <1>1, <1>2, <2>2
<1>4. ~(q < p)
  <2> SUFFICES ASSUME q < p PROVE FALSE
    OBVIOUS
  <2>1. q + 1 <= p /\ q + 1 \in Nat
    BY <1>2
  <2>2. Off(q + 1) <= Off(p) /\ Off(q + 1) = Off(q) + Block
    BY <1>2, <2>1, Offset, OffsetsGrow
  <2> QED BY <1>1, <1>2, <2>2
<1>5. p = q
  BY <1>2, <1>3, <1>4
<1>6. s = r
  BY <1>1, <1>2, <1>5
<1> QED BY <1>5, <1>6 DEF p, s

\* A context that has taken m, of which it has compressed q blocks; the rest, at most
\* a block, is in its buffer.
Contexts(W) == [length : Nat, message : [1..Block -> W], hash : Seq([1..Block -> W])]

\* The context has taken the message m: its q compressed blocks are the first q
\* blocks of m, and its buffer starts with the rest.
Took(c, W, m, q) ==
    /\ c \in Contexts(W) /\ m \in Seq(W) /\ q \in Nat
    /\ Off(q) <= Len(m) /\ Len(m) <= Off(q) + Block
    /\ Len(c.hash) = q
    /\ \A k \in 1..q, i \in 1..Block : c.hash[k][i] = m[Off(k - 1) + i]
    /\ \A i \in 1..(Len(m) - Off(q)) : c.message[i] = m[Off(q) + i]

LEMMA TookSizes ==
    ASSUME NEW W, NEW c, NEW m, NEW q, Took(c, W, m, q)
    PROVE  /\ q \in Nat /\ q + 1 \in Nat /\ Off(q) \in Nat /\ Len(m) \in Nat /\ Block \in Nat
           /\ Off(q) <= Len(m) /\ Len(m) <= Off(q) + Block
           /\ Off(q + 1) = Off(q) + Block
<1>1. q \in Nat /\ m \in Seq(W) /\ Off(q) <= Len(m) /\ Len(m) <= Off(q) + Block
  BY DEF Took
<1>2. q + 1 \in Nat /\ Len(m) \in Nat
  BY <1>1
<1>3. Off(q) \in Nat /\ Off(q + 1) = Off(q) + Block /\ Block \in Nat
  BY <1>1, Offset, BlockSize
<1> QED BY <1>1, <1>2, <1>3

\* Block k + 1 lies before what comes after the first q blocks.
LEMMA Before ==
    ASSUME NEW q \in Nat, NEW k \in 1..q, NEW i \in 1..Block
    PROVE  k - 1 \in Nat /\ Off(k - 1) + i \in 1..Off(q)
<1>1. k - 1 \in Nat /\ k \in Nat /\ k <= q /\ (k - 1) + 1 = k
  OBVIOUS
<1>2. Off(k - 1) \in Nat /\ Off((k - 1) + 1) = Off(k - 1) + Block /\ Off(q) \in Nat
  BY <1>1, Offset
<1>3. Off(k) <= Off(q)
  BY <1>1, OffsetsGrow
<1>4. Off(k) = Off(k - 1) + Block
  BY <1>1, <1>2
<1> QED BY <1>1, <1>2, <1>3, <1>4, BlockSize

LEMMA PutBehind ==
    ASSUME NEW n \in Nat, NEW at \in Nat, NEW i \in 1..(at + n), NEW o \in Nat
    PROVE  /\ o + i \in 1..((o + at) + n)
           /\ IF i <= at THEN ~(i - at \in 1..n) /\ o + i <= o + at
              ELSE i - at \in 1..n /\ ~(o + i <= o + at) /\ (o + i) - (o + at) = i - at
OBVIOUS

\* Bytes are put behind those that are in the buffer.
LEMMA Filling ==
    ASSUME NEW W, NEW c, NEW m, NEW q, Took(c, W, m, q),
           NEW x \in Seq(W), NEW at, at = Len(m) - Off(q), at + Len(x) <= Block
    PROVE  /\ Took(Put(c, at, x), W, m \o x, q)
           /\ Put(c, at, x).length = c.length
<1> DEFINE d == Put(c, at, x)
           l == Len(m)
           n == Len(x)
           y == m \o x
<1>1. /\ q \in Nat /\ Off(q) \in Nat /\ l \in Nat /\ n \in Nat /\ Block \in Nat
      /\ Off(q) <= l /\ l <= Off(q) + Block
  BY TookSizes
<1>2. /\ c.length \in Nat /\ c.message \in [1..Block -> W] /\ c.hash \in Seq([1..Block -> W])
      /\ m \in Seq(W)
  BY DEF Took, Contexts
<1>3. /\ y \in Seq(W) /\ Len(y) = l + n
      /\ \A i \in 1..(l + n) : y[i] = IF i <= l THEN m[i] ELSE x[i - l]
  BY <1>2, ConcatProperties
<1>4. DOMAIN x = 1..n /\ \A i \in 1..n : x[i] \in W
  OBVIOUS
<1> DEFINE buf == [i \in 1..Block |-> IF i - at \in DOMAIN x THEN x[i - at] ELSE c.message[i]]
<1>5. d = [c EXCEPT !.message = buf]
  BY DEF Put
<1>6. buf \in [1..Block -> W]
  BY <1>2, <1>4
<1>7. /\ d \in Contexts(W) /\ d.message = buf /\ d.hash = c.hash /\ d.length = c.length
  <2> HIDE DEF buf, d
  <2> QED BY <1>5, <1>6 DEF Took, Contexts
<1> HIDE DEF l, n, y, d
<1>8. \A k \in 1..q, i \in 1..Block : c.hash[k][i] = y[Off(k - 1) + i]
  <2> SUFFICES ASSUME NEW k \in 1..q, NEW i \in 1..Block
               PROVE  c.hash[k][i] = y[Off(k - 1) + i]
    OBVIOUS
  <2>1. k - 1 \in Nat /\ Off(k - 1) + i \in 1..Off(q)
    BY <1>1, Before
  <2>2. Off(k - 1) + i \in 1..(l + n) /\ Off(k - 1) + i <= l
    BY <1>1, <2>1
  <2>3. c.hash[k][i] = m[Off(k - 1) + i]
    BY DEF Took
  <2> QED BY <1>3, <2>2, <2>3
<1>9. \A i \in 1..(l + n - Off(q)) : buf[i] = y[Off(q) + i]
  <2> DEFINE o == Off(q)
  <2>1. at \in Nat /\ n \in Nat /\ o \in Nat
    BY <1>1 DEF l, n
  <2>2. l = o + at
    BY <1>1 DEF l, n
  <2>3. at + n <= Block
    BY DEF n
  <2> HIDE DEF o
  <2>4. l + n - o = at + n
    BY <2>1, <2>2
  <2> SUFFICES ASSUME NEW i \in 1..(at + n) PROVE buf[i] = y[o + i]
    BY <2>4 DEF o
  <2>5. i \in 1..Block
    BY <1>1, <2>1, <2>3
  <2>6. /\ o + i \in 1..(l + n)
        /\ IF i <= at THEN ~(i - at \in 1..n) /\ o + i <= l
           ELSE i - at \in 1..n /\ ~(o + i <= l) /\ (o + i) - l = i - at
    <3>1. /\ o + i \in 1..((o + at) + n)
          /\ IF i <= at THEN ~(i - at \in 1..n) /\ o + i <= o + at
             ELSE i - at \in 1..n /\ ~(o + i <= o + at) /\ (o + i) - (o + at) = i - at
      BY <2>1, PutBehind
    <3> QED BY <2>2, <3>1
  <2>7. CASE i <= at
    <3>1. buf[i] = c.message[i] /\ y[o + i] = m[o + i]
      BY <1>3, <1>4, <2>5, <2>6, <2>7
    <3>2. i \in 1..(l - o)
      BY <2>1, <2>2, <2>7
    <3> QED BY <3>1, <3>2 DEF Took, l, o
  <2>8. CASE ~(i <= at)
    <3>1. y[o + i] = x[i - at]
      BY <1>3, <2>6, <2>8
    <3> QED BY <1>4, <2>5, <2>6, <2>8, <3>1
  <2> QED BY <2>7, <2>8
<1>10. Off(q) <= l + n /\ l + n <= Off(q) + Block
  BY <1>1 DEF l, n
<1>11. Took(d, W, y, q)
  <2> HIDE DEF buf
  <2>1. Len(d.hash) = q
    BY <1>7 DEF Took
  <2>2. d \in Contexts(W) /\ y \in Seq(W) /\ q \in Nat
    BY <1>1, <1>3, <1>7
  <2>3. Off(q) <= Len(y) /\ Len(y) <= Off(q) + Block
    BY <1>3, <1>10
  <2>4. \A k \in 1..q, i \in 1..Block : d.hash[k][i] = y[Off(k - 1) + i]
    BY <1>7, <1>8
  <2>5. \A i \in 1..(Len(y) - Off(q)) : d.message[i] = y[Off(q) + i]
    <3>1. Len(y) - Off(q) = l + n - Off(q)
      <4>1. Len(y) = l + n
        BY <1>3, Zenon
      <4>2. l \in Nat /\ n \in Nat /\ Off(q) \in Nat
        BY <1>1
      <4> DEFINE o == Off(q)
                 lx == Len(y)
      <4>3. lx = l + n /\ o \in Nat
        BY <4>1, <4>2
      <4> HIDE DEF o, lx
      <4>4. lx - o = l + n - o
        BY <4>2, <4>3
      <4> QED BY <4>4 DEF lx, o
    <3>2. d.message = buf
      BY <1>7
    <3> DEFINE e == Len(y) - Off(q)
    <3> HIDE DEF e
    <3>3. \A i \in 1..e : buf[i] = y[Off(q) + i]
      BY <1>9, <3>1 DEF e
    <3>4. \A i \in 1..e : d.message[i] = y[Off(q) + i]
      BY <3>2, <3>3
    <3> QED BY <3>4 DEF e
  <2> QED BY <2>1, <2>2, <2>3, <2>4, <2>5 DEF Took
<1> QED BY <1>7, <1>11 DEF d, y

\* y is m with the block b behind it.
Extended(y, m, b, q) ==
    /\ Len(y) = Off(q + 1)
    /\ \A i \in 1..Off(q) : y[i] = m[i]
    /\ \A i \in 1..Block : b[i] = y[Off(q) + i]

\* A block compressed behind the others.
LEMMA AddedBlock ==
    ASSUME NEW W, NEW c, NEW m, NEW q, Took(c, W, m, q), NEW d \in Contexts(W),
           NEW b \in [1..Block -> W], d.hash = Append(c.hash, b),
           NEW y \in Seq(W), Extended(y, m, b, q)
    PROVE  Took(d, W, y, q + 1)
<1>1. /\ Len(y) = Off(q + 1) /\ \A i \in 1..Off(q) : y[i] = m[i]
      /\ \A i \in 1..Block : b[i] = y[Off(q) + i]
  BY DEF Extended
<1>2. /\ q \in Nat /\ q + 1 \in Nat /\ Off(q) \in Nat /\ Off(q + 1) = Off(q) + Block
      /\ Block \in Nat
  BY TookSizes
<1>3. c.hash \in Seq([1..Block -> W]) /\ Len(c.hash) = q
  BY DEF Took, Contexts
<1>4. /\ Len(d.hash) = q + 1 /\ d.hash[q + 1] = b
      /\ \A k \in 1..q : d.hash[k] = c.hash[k]
  <2> DEFINE T == [1..Block -> W]
  <2> HIDE DEF T
  <2>1. c.hash \in Seq(T) /\ b \in T
    BY <1>3 DEF T
  <2> DEFINE h == c.hash
  <2>2. h \in Seq(T) /\ Len(h) = q /\ d.hash = Append(h, b)
    BY <1>3, <2>1
  <2> HIDE DEF h
  <2>3. /\ Len(Append(h, b)) = q + 1 /\ Append(h, b)[q + 1] = b
        /\ \A k \in 1..q : Append(h, b)[k] = h[k]
    BY <2>1, <2>2, AppendProperties
  <2> QED BY <2>2, <2>3 DEF h
<1>5. ASSUME NEW k \in 1..(q + 1), NEW i \in 1..Block
      PROVE  d.hash[k][i] = y[Off(k - 1) + i]
  <2>1. CASE k = q + 1
    <3>1. k - 1 = q
      BY <1>2, <2>1
    <3> QED BY <1>1, <1>4, <2>1, <3>1
  <2>2. CASE k # q + 1
    <3>1. k \in 1..q
      BY <1>2, <2>2
    <3>2. Off(k - 1) + i \in 1..Off(q)
      BY <1>2, <3>1, Before
    <3>3. d.hash[k][i] = m[Off(k - 1) + i]
      BY <1>4, <3>1 DEF Took
    <3> QED BY <1>1, <3>2, <3>3
  <2> QED BY <2>1, <2>2
<1>6. /\ Off(q + 1) <= Len(y) /\ Len(y) <= Off(q + 1) + Block
      /\ 1..(Len(y) - Off(q + 1)) = {}
  BY <1>1, <1>2
<1> QED BY <1>2, <1>4, <1>5, <1>6 DEF Took

\* A buffer that is full is compressed.
LEMMA Processing ==
    ASSUME NEW W, NEW c, NEW m, NEW q, Took(c, W, m, q), Len(m) = Off(q) + Block
    PROVE  /\ Took(process_message(c), W, m, q + 1)
           /\ process_message(c).length = c.length
<1> DEFINE d == process_message(c)
           h == Append(c.hash, c.message)
<1>1. /\ q \in Nat /\ Off(q) \in Nat /\ Off(q + 1) = Off(q) + Block /\ Block \in Nat
  BY TookSizes
<1>2. /\ c.length \in Nat /\ c.message \in [1..Block -> W] /\ c.hash \in Seq([1..Block -> W])
      /\ m \in Seq(W) /\ c \in Contexts(W)
  BY DEF Took, Contexts
<1>3. d = [c EXCEPT !.hash = h]
  BY DEF process_message
<1>4. h \in Seq([1..Block -> W])
  BY <1>2
<1> HIDE DEF h, d
<1>5. d \in Contexts(W) /\ d.hash = h /\ d.length = c.length
  BY <1>2, <1>3, <1>4 DEF Contexts
<1>6. \A i \in 1..Block : c.message[i] = m[Off(q) + i]
  <2>1. Len(m) - Off(q) = Block
    BY <1>1
  <2> QED BY <2>1 DEF Took
<1>7. Took(d, W, m, q + 1)
  <2>1. Len(m) = Off(q + 1) /\ d.hash = Append(c.hash, c.message)
    BY <1>1, <1>5 DEF h
  <2>2. Extended(m, m, c.message, q)
    BY <1>6, <2>1 DEF Extended
  <2> QED BY <1>2, <1>5, <2>1, <2>2, AddedBlock
<1> QED BY <1>5, <1>7 DEF d

\* A list is its first part and the rest.
LEMMA Halved ==
    ASSUME NEW W, NEW x \in Seq(W), NEW a \in 0..Len(x)
    PROVE  /\ SubSeq(x, 1, a) \in Seq(W) /\ Len(SubSeq(x, 1, a)) = a
           /\ SubSeq(x, a + 1, Len(x)) \in Seq(W) /\ Len(SubSeq(x, a + 1, Len(x))) = Len(x) - a
           /\ SubSeq(x, 1, a) \o SubSeq(x, a + 1, Len(x)) = x
<1> DEFINE n == Len(x)
<1>1. n \in Nat /\ a \in Nat /\ a <= n /\ \A i \in 1..n : x[i] \in W
  OBVIOUS
<1>2. SubSeq(x, 1, a) \in Seq(W) /\ Len(SubSeq(x, 1, a)) = a
  <2>1. 1 \in Int /\ a \in Int /\ \A i \in 1..a : x[i] \in W
    BY <1>1
  <2>2. /\ SubSeq(x, 1, a) \in Seq(W)
        /\ Len(SubSeq(x, 1, a)) = IF 1 <= a THEN a - 1 + 1 ELSE 0
    BY <2>1, SubSeqProperties
  <2> QED BY <1>1, <2>2
<1>3. SubSeq(x, a + 1, n) \in Seq(W) /\ Len(SubSeq(x, a + 1, n)) = n - a
  <2> HIDE DEF n
  <2>1. a + 1 \in Int /\ n \in Int /\ \A i \in (a + 1)..n : x[i] \in W
    BY <1>1
  <2>2. /\ SubSeq(x, a + 1, n) \in Seq(W)
        /\ Len(SubSeq(x, a + 1, n)) = IF a + 1 <= n THEN n - (a + 1) + 1 ELSE 0
    BY <2>1, SubSeqProperties
  <2> QED BY <1>1, <2>2
<1>4. SubSeq(x, 1, a) \o SubSeq(x, a + 1, n) = SubSeq(x, 1, n)
  <2>1. 1 \in 1..(Len(x) + 1) /\ a \in (1 - 1)..Len(x) /\ n \in a..Len(x)
    BY <1>1
  <2> QED BY <2>1, ConcatAdjacentSubSeq
<1>5. SubSeq(x, 1, n) = x
  BY SubSeqFull
<1> QED BY <1>2, <1>3, <1>4, <1>5

\* A list of the size of a block, as a block.
LEMMA AsBlock ==
    ASSUME NEW W, NEW b \in Seq(W), Len(b) = Block
    PROVE  b \in [1..Block -> W]
OBVIOUS

LEMMA ContextType ==
    ASSUME NEW W, NEW c \in Contexts(W), NEW b \in Seq(W), NEW at \in Nat
    PROVE  /\ Put(c, at, b) \in Contexts(W)
           /\ process_message(c) \in Contexts(W)
           /\ Len(b) = Block => [c EXCEPT !.hash = Append(@, b)] \in Contexts(W)
<1>1. c.message \in [1..Block -> W] /\ c.hash \in Seq([1..Block -> W])
  BY DEF Contexts
<1> DEFINE buf == [i \in 1..Block |-> IF i - at \in DOMAIN b THEN b[i - at] ELSE c.message[i]]
<1>2. buf \in [1..Block -> W]
  <2>1. DOMAIN b = 1..Len(b) /\ \A i \in 1..Len(b) : b[i] \in W
    OBVIOUS
  <2>2. \A i \in 1..Block : i - at \in DOMAIN b => b[i - at] \in W
    BY <2>1
  <2> QED BY <1>1, <2>2
<1>3. Put(c, at, b) = [c EXCEPT !.message = buf]
  BY DEF Put
<1> HIDE DEF buf
<1>4. Put(c, at, b) \in Contexts(W)
  BY <1>2, <1>3 DEF Contexts
<1>5. ASSUME NEW e \in [1..Block -> W]
      PROVE  [c EXCEPT !.hash = Append(@, e)] \in Contexts(W)
  <2> DEFINE h == Append(c.hash, e)
  <2>1. h \in Seq([1..Block -> W])
    BY <1>1
  <2> HIDE DEF h
  <2>2. [c EXCEPT !.hash = h] \in Contexts(W)
    BY <2>1 DEF Contexts
  <2> QED BY <2>2 DEF h
<1>6. process_message(c) \in Contexts(W)
  BY <1>1, <1>5 DEF process_message
<1>7. Len(b) = Block => b \in [1..Block -> W]
  BY AsBlock
<1> QED BY <1>4, <1>5, <1>6, <1>7

\* A block is compressed where it is, or by way of the buffer.
Compressed(c, b, aligned) ==
    IF aligned THEN [c EXCEPT !.hash = Append(@, b)] ELSE process_message(Put(c, 0, b))

\* A block of the message, compressed where it lies or from the buffer.
LEMMA NextBlock ==
    ASSUME NEW W, NEW c, NEW m, NEW q, Took(c, W, m, q), Len(m) = Off(q),
           NEW b \in Seq(W), Len(b) = Block, NEW aligned
    PROVE  /\ Took(Compressed(c, b, aligned), W, m \o b, q + 1)
           /\ Compressed(c, b, aligned).length = c.length
<1> DEFINE y == m \o b
<1>1. /\ q \in Nat /\ Off(q) \in Nat /\ Off(q + 1) = Off(q) + Block /\ Block \in Nat
  BY TookSizes
<1>2. c \in Contexts(W) /\ m \in Seq(W)
  BY DEF Took
<1>3. /\ y \in Seq(W) /\ Len(y) = Off(q) + Block
      /\ \A i \in 1..(Off(q) + Block) : y[i] = IF i <= Off(q) THEN m[i] ELSE b[i - Off(q)]
  <2>1. /\ y \in Seq(W) /\ Len(y) = Len(m) + Len(b)
        /\ \A i \in 1..(Len(m) + Len(b)) : y[i] = IF i <= Len(m) THEN m[i] ELSE b[i - Len(m)]
    BY <1>2, ConcatProperties
  <2> HIDE DEF y
  <2> QED BY <2>1
<1>4. CASE aligned
  <2> DEFINE d == [c EXCEPT !.hash = Append(@, b)]
  <2>1. d \in Contexts(W) /\ d.hash = Append(c.hash, b) /\ d.length = c.length
    <3>1. d \in Contexts(W)
      <4>1. 0 \in Nat
        OBVIOUS
      <4> QED BY <1>2, <4>1, ContextType
    <3> QED BY <1>2, <3>1 DEF Contexts
  <2> HIDE DEF d, y
  <2>2. \A i \in 1..Off(q) : y[i] = m[i]
    BY <1>1, <1>3
  <2>3. \A i \in 1..Block : b[i] = y[Off(q) + i]
    <3> SUFFICES ASSUME NEW i \in 1..Block PROVE b[i] = y[Off(q) + i]
      OBVIOUS
    <3> DEFINE o == Off(q)
    <3>1. o \in Nat /\ \A j \in 1..(o + Block) : y[j] = IF j <= o THEN m[j] ELSE b[j - o]
      BY <1>1, <1>3
    <3> HIDE DEF o
    <3>2. o + i \in 1..(o + Block) /\ ~(o + i <= o) /\ (o + i) - o = i
      BY <1>1, <3>1
    <3>3. b[i] = y[o + i]
      BY <3>1, <3>2
    <3> QED BY <3>3 DEF o
  <2>4. b \in [1..Block -> W]
    BY AsBlock
  <2>5. Len(y) = Off(q + 1)
    BY <1>1, <1>3
  <2>6. Took(d, W, y, q + 1)
    <3>1. y \in Seq(W)
      BY <1>3
    <3>2. d \in Contexts(W)
      BY <2>1
    <3>3. d.hash = Append(c.hash, b)
      BY <2>1
    <3>4. Extended(y, m, b, q)
      BY <2>2, <2>3, <2>5 DEF Extended
    <3> QED BY <2>4, <3>1, <3>2, <3>3, <3>4, AddedBlock
  <2>7. Compressed(c, b, aligned) = d
    BY <1>4 DEF Compressed, d
  <2> QED BY <2>1, <2>6, <2>7 DEF y
<1>5. CASE ~aligned
  <2>1. 0 = Len(m) - Off(q) /\ 0 + Len(b) <= Block
    BY <1>1
  <2> DEFINE d == Put(c, 0, b)
  <2>2. Took(d, W, y, q) /\ d.length = c.length
    BY <2>1, Filling
  <2> HIDE DEF d, y
  <2>3. Took(process_message(d), W, y, q + 1) /\ process_message(d).length = c.length
    BY <1>3, <2>2, Processing
  <2> QED BY <1>5, <2>3 DEF Compressed, d, y
<1> QED BY <1>4, <1>5

\* whole_blocks takes all the whole blocks of a message.
LEMMA WholeBlocks ==
    ASSUME NEW W, NEW c, NEW m, NEW q, Took(c, W, m, q), Len(m) = Off(q),
           NEW x \in Seq(W), NEW aligned, NEW n, n = Len(x) \div Block
    PROVE  /\ Took(whole_blocks(c, x, aligned), W, m \o SubSeq(x, 1, Off(n)), q + n)
           /\ whole_blocks(c, x, aligned).length = c.length
<1> DEFINE block(k) == SubSeq(x, (k - 1) * Block + 1, k * Block)
           next(d, k) == IF aligned THEN [d EXCEPT !.hash = Append(@, block(k))]
                         ELSE process_message(Put(d, 0, block(k)))
           T == Contexts(W)
           Is(f) == f = [k \in 0..n |-> IF k = 0 THEN c ELSE next(f[k - 1], k)]
           after == CHOOSE f : Is(f)
<1>1. /\ n \in Nat /\ Off(n) \in Nat /\ Off(n) <= Len(x) /\ Len(x) \in Nat
      /\ q \in Nat /\ c \in T /\ m \in Seq(W)
  <2>1. Len(x) \in Nat
    OBVIOUS
  <2>2. n \in Nat /\ Len(x) % Block \in Nat /\ Len(x) = Off(n) + (Len(x) % Block)
    BY <2>1, Divided
  <2>3. Off(n) \in Nat
    BY <2>2, Offset
  <2> QED BY <2>1, <2>2, <2>3 DEF Took
<1>2. whole_blocks(c, x, aligned) = after[n]
  BY DEF whole_blocks
<1>3. ASSUME NEW k \in 1..n
      PROVE  /\ block(k) \in Seq(W) /\ Len(block(k)) = Block
             /\ Off(k - 1) \in Nat /\ Off(k - 1) <= Len(x)
             /\ SubSeq(x, 1, Off(k - 1)) \o block(k) = SubSeq(x, 1, Off(k))
  <2>1. k - 1 \in Nat /\ k \in Nat /\ k <= n /\ (k - 1) + 1 = k
    BY <1>1
  <2>2. Off(k - 1) \in Nat /\ Off((k - 1) + 1) = Off(k - 1) + Block /\ Off(k) \in Nat
    BY <2>1, Offset
  <2>3. Off(k) <= Off(n) /\ Off(k) = Off(k - 1) + Block
    BY <1>1, <2>1, <2>2, OffsetsGrow
  <2>4. block(k) = SubSeq(x, Off(k - 1) + 1, Off(k))
    BY DEF Off
  <2> DEFINE o == Off(k - 1)
             p == Off(k)
  <2>5. o \in Nat /\ p = o + Block /\ p <= Len(x) /\ Block \in Nat /\ Block > 0
    BY <1>1, <2>2, <2>3, BlockSize
  <2> HIDE DEF o, p, block
  <2>6. \A i \in (o + 1)..p : x[i] \in W
    BY <2>5
  <2>7. /\ SubSeq(x, o + 1, p) \in Seq(W)
        /\ Len(SubSeq(x, o + 1, p)) = IF o + 1 <= p THEN p - (o + 1) + 1 ELSE 0
    BY <2>5, <2>6, SubSeqProperties
  <2>8. Len(SubSeq(x, o + 1, p)) = Block
    BY <2>5, <2>7
  <2>9. SubSeq(x, 1, o) \o SubSeq(x, o + 1, p) = SubSeq(x, 1, p)
    <3>1. 1 \in 1..(Len(x) + 1) /\ o \in (1 - 1)..Len(x) /\ p \in o..Len(x)
      BY <1>1, <2>5
    <3> QED BY <3>1, ConcatAdjacentSubSeq
  <2>10. o <= Len(x)
    BY <1>1, <2>5
  <2> QED BY <2>4, <2>5, <2>7, <2>8, <2>9, <2>10 DEF o, p
<1>4. \A k \in 1..n, d \in T : next(d, k) \in T /\ next(d, k) = Compressed(d, block(k), aligned)
  <2> SUFFICES ASSUME NEW k \in 1..n, NEW d \in T
               PROVE  next(d, k) \in T /\ next(d, k) = Compressed(d, block(k), aligned)
    OBVIOUS
  <2>1. block(k) \in Seq(W) /\ Len(block(k)) = Block /\ 0 \in Nat
    BY <1>3
  <2>2. next(d, k) = Compressed(d, block(k), aligned)
    BY DEF Compressed
  <2> HIDE DEF block, next
  <2>3. Put(d, 0, block(k)) \in T /\ [d EXCEPT !.hash = Append(@, block(k))] \in T
    BY <2>1, ContextType
  <2>4. process_message(Put(d, 0, block(k))) \in T
    BY <2>1, <2>3, ContextType
  <2> QED BY <2>2, <2>3, <2>4 DEF Compressed
<1> HIDE DEF T, next, block
<1>5. Is(after)
  <2> DEFINE F == [p \in (1..n) \X T |-> next(p[2], p[1])]
  <2>1. Steps(F, T, n) /\ \A k \in 1..n, d \in T : F[<<k, d>>] = next(d, k)
    BY <1>4 DEF Steps
  <2> HIDE DEF F
  <2>2. PICK g : Run(F, T, c, n, g)
    BY <1>1, <2>1, Runs
  <2>3. g \in [0..n -> T] /\ g[0] = c /\ \A k \in 1..n : g[k] = F[<<k, g[k - 1]>>]
    BY <2>2 DEF Run
  <2>4. \A k \in 1..n : g[k - 1] \in T
    <3>1. \A k \in 1..n : k - 1 \in 0..n
      BY <1>1
    <3>2. \A k \in 0..n : g[k] \in T
      BY <2>3
    <3> QED BY <3>1, <3>2
  <2>5. \A k \in 1..n : g[k] = next(g[k - 1], k)
    BY <2>1, <2>3, <2>4
  <2>6. ASSUME NEW k \in 0..n PROVE g[k] = IF k = 0 THEN c ELSE next(g[k - 1], k)
    <3>1. k # 0 => k \in 1..n
      BY <1>1
    <3> QED BY <2>3, <2>5, <3>1
  <2>7. Is(g)
    BY <2>3, <2>6
  <2> QED BY <2>7
<1> HIDE DEF after
<1>6. after[0] = c /\ \A k \in 1..n : after[k] = next(after[k - 1], k)
  <2>1. 0 \in 0..n /\ \A k \in 1..n : k \in 0..n /\ k # 0
    BY <1>1
  <2> QED BY <1>5, <2>1
<1> DEFINE text(k) == m \o SubSeq(x, 1, Off(k))
           Good(d, k) == Took(d, W, text(k), q + k) /\ Len(text(k)) = Off(q + k)
                         /\ d.length = c.length
           K == {k \in 0..n : Good(after[k], k)}
<1>7. Good(c, 0)
  <2>1. Off(0) = 0
    BY BlockSize DEF Off
  <2>2. SubSeq(x, 1, 0) = <<>>
    BY SubSeqEmpty
  <2>3. m \o <<>> = m
    BY <1>1, ConcatEmptySeq
  <2>4. text(0) = m
    BY <2>1, <2>2, <2>3
  <2>5. q + 0 = q
    BY <1>1
  <2> HIDE DEF text
  <2> QED BY <2>4, <2>5
<1>8. ASSUME NEW k \in 1..n, Good(after[k - 1], k - 1) PROVE Good(after[k], k)
  <2> DEFINE d == after[k - 1]
             b == block(k)
             first == SubSeq(x, 1, Off(k - 1))
  <2>1. b \in Seq(W) /\ Len(b) = Block /\ first \o b = SubSeq(x, 1, Off(k)) /\ first \in Seq(W)
    <3>1. Off(k - 1) \in 0..Len(x)
      BY <1>1, <1>3
    <3>2. first \in Seq(W)
      BY <3>1, Halved
    <3> QED BY <1>3, <3>2
  <2>2. Took(d, W, text(k - 1), q + (k - 1)) /\ Len(text(k - 1)) = Off(q + (k - 1))
        /\ d.length = c.length
    BY <1>8
  <2>3. q + (k - 1) \in Nat /\ (q + (k - 1)) + 1 = q + k
    BY <1>1
  <2>4. text(k) = text(k - 1) \o b
    <3> HIDE DEF first, b
    <3>1. m \in Seq(W) /\ first \in Seq(W) /\ b \in Seq(W)
      BY <1>1, <2>1
    <3>2. (m \o first) \o b = m \o (first \o b)
      BY <3>1, ConcatAssociative, SMTT(30)
    <3> QED BY <2>1, <3>2 DEF first
  <2>5. after[k] = Compressed(d, b, aligned)
    <3>1. d \in T
      BY <2>2 DEF Took, T
    <3> QED BY <1>4, <1>6, <3>1
  <2> DEFINE t == text(k - 1)
             p == q + (k - 1)
  <2>6. t \in Seq(W) /\ p \in Nat
    BY <2>2, <2>3 DEF Took
  <2> HIDE DEF text, b, d
  <2>7. Took(Compressed(d, b, aligned), W, t \o b, p + 1)
        /\ Compressed(d, b, aligned).length = d.length
    <3> HIDE DEF t, p
    <3>1. Took(d, W, t, p) /\ Len(t) = Off(p)
      BY <2>2 DEF t, p
    <3> QED BY <2>1, <3>1, NextBlock
  <2>8. Len(t \o b) = Off(p + 1)
    <3> HIDE DEF t, p
    <3>1. Len(t \o b) = Len(t) + Len(b)
      BY <2>1, <2>6, ConcatProperties
    <3>2. Off(p + 1) = Off(p) + Block /\ Len(t) = Off(p)
      BY <2>2, <2>6, Offset DEF t, p
    <3> QED BY <2>1, <3>1, <3>2
  <2> QED BY <2>2, <2>3, <2>4, <2>5, <2>7, <2>8
<1> HIDE DEF Good, text
<1>9. Good(after[n], n)
  <2>1. 0 \in K /\ n \in 0..n
    BY <1>1, <1>6, <1>7
  <2>2. ASSUME NEW k \in 1..n, k - 1 \in K PROVE k \in K
    <3>1. k \in 0..n
      BY <1>1
    <3> QED BY <1>8, <2>2, <3>1
  <2>3. \A k \in 1..n : k - 1 \in K => k \in K
    BY <2>2
  <2> HIDE DEF K
  <2>4. n \in K
    BY <1>1, <2>1, <2>3, Induct
  <2> QED BY <2>4 DEF K
<1> QED BY <1>2, <1>9 DEF Good, text

\* A context between two calls: what is in the buffer is less than a block, and its
\* length is that of the message.
Rests(d, W, m) == \E q \in Nat : Took(d, W, m, q) /\ Len(m) < Off(q) + Block
\* It also counted it.
Holds(d, W, m) == Rests(d, W, m) /\ d.length = Len(m)

LEMMA Longer ==
    ASSUME NEW W, NEW c, NEW m, NEW q, Took(c, W, m, q), NEW n \in Nat
    PROVE  Took([c EXCEPT !.length = n], W, m, q) /\ [c EXCEPT !.length = n].length = n
<1> DEFINE d == [c EXCEPT !.length = n]
<1>1. c \in Contexts(W)
  BY DEF Took
<1>2. d \in Contexts(W) /\ d.length = n /\ d.hash = c.hash /\ d.message = c.message
  BY <1>1 DEF Contexts
<1> HIDE DEF d
<1>3. Took(d, W, m, q)
  BY <1>2 DEF Took
<1> QED BY <1>2, <1>3 DEF d

\* With an empty buffer, a message is taken block by block, and the rest is put in.
Drained(c, x, aligned) ==
    Put(whole_blocks(c, x, aligned), 0, SubSeq(x, Len(x) - (Len(x) % Block) + 1, Len(x)))

\* The whole blocks of x are compressed and the rest is left in the buffer.
LEMMA Drain ==
    ASSUME NEW W, NEW c, NEW m, NEW q, Took(c, W, m, q), Len(m) = Off(q),
           NEW x \in Seq(W), NEW aligned
    PROVE  /\ Rests(Drained(c, x, aligned), W, m \o x)
           /\ Drained(c, x, aligned).length = c.length
<1> DEFINE l == Len(x)
           n == l \div Block
           r == l % Block
           a == l - r
           first == SubSeq(x, 1, a)
           rest == SubSeq(x, a + 1, l)
           d == whole_blocks(c, x, aligned)
<1>1. /\ l \in Nat /\ n \in Nat /\ r \in Nat /\ r < Block /\ l = Off(n) + r /\ Off(n) \in Nat
      /\ q \in Nat /\ m \in Seq(W) /\ Block \in Nat /\ q + n \in Nat
  <2>1. l \in Nat
    OBVIOUS
  <2>2. n \in Nat /\ r \in 0..(Block - 1) /\ l = Off(n) + r
    BY <2>1, Divided
  <2>3. Off(n) \in Nat /\ Block \in Nat
    BY <2>2, Offset, BlockSize
  <2>4. q \in Nat /\ m \in Seq(W)
    BY DEF Took
  <2> HIDE DEF l, n, r
  <2> QED BY <2>1, <2>2, <2>3, <2>4
<1>2. Took(d, W, m \o SubSeq(x, 1, Off(n)), q + n) /\ d.length = c.length
  BY WholeBlocks
<1>3. Drained(c, x, aligned) = Put(d, 0, rest)
  BY DEF Drained
<1> HIDE DEF d, n, r
<1>4. a = Off(n) /\ a \in 0..l
  <2> HIDE DEF l
  <2> QED BY <1>1
<1>5. /\ first \in Seq(W) /\ Len(first) = a /\ rest \in Seq(W) /\ Len(rest) = l - a
      /\ first \o rest = x
  BY <1>4, Halved
<1>6. Took(d, W, m \o first, q + n) /\ Len(rest) = r
  <2>1. l - a = r
    <3> HIDE DEF l
    <3> QED BY <1>1
  <2> QED BY <1>2, <1>4, <1>5, <2>1
<1> HIDE DEF first, rest
<1>7. Len(m \o first) = Off(q + n)
  <2>1. Len(m \o first) = Len(m) + Len(first)
    BY <1>1, <1>5, ConcatProperties
  <2>2. Off(q + n) = Off(q) + Off(n)
    BY <1>1, OffsetsAdd
  <2> QED BY <1>4, <1>5, <2>1, <2>2
<1>8. (m \o first) \o rest = m \o x
  <2>1. m \in Seq(W) /\ first \in Seq(W) /\ rest \in Seq(W)
    BY <1>1, <1>5
  <2>2. (m \o first) \o rest = m \o (first \o rest)
    BY <2>1, ConcatAssociative, SMTT(30)
  <2> QED BY <1>5, <2>2
<1> DEFINE t == m \o first
           p == q + n
           e == Put(d, 0, rest)
<1>9. t \in Seq(W) /\ p \in Nat /\ Off(p) \in Nat
  BY <1>1, <1>6, Offset DEF Took
<1>10. Took(d, W, t, p) /\ Len(t) = Off(p) /\ t \o rest = m \o x
  BY <1>6, <1>7, <1>8
<1> HIDE DEF t, p, e
<1>11. 0 = Len(t) - Off(p) /\ 0 + Len(rest) <= Block
  BY <1>1, <1>6, <1>9, <1>10
<1>12. Took(e, W, t \o rest, p) /\ e.length = d.length
  <2>1. Took(d, W, t, p)
    BY <1>10
  <2>2. rest \in Seq(W)
    BY <1>5
  <2>3. 0 = Len(t) - Off(p)
    BY <1>11
  <2>4. 0 + Len(rest) <= Block
    BY <1>11
  <2> QED BY <2>1, <2>2, <2>3, <2>4, Filling DEF e
<1>13. Len(t \o rest) < Off(p) + Block
  <2>1. Len(t \o rest) = Len(t) + Len(rest)
    BY <1>5, <1>9, ConcatProperties
  <2> QED BY <1>1, <1>6, <1>9, <1>10, <2>1
<1>14. Rests(e, W, m \o x)
  BY <1>9, <1>10, <1>12, <1>13 DEF Rests
<1> QED BY <1>2, <1>3, <1>12, <1>14 DEF e

\* Bytes that fill the buffer to the end, then the rest.
Refilled(c, at, x, aligned) ==
    LET left == Block - at
    IN  Drained(process_message(Put(c, at, SubSeq(x, 1, left))),
                SubSeq(x, left + 1, Len(x)), aligned)

\* The same behind what was in the buffer.
LEMMA FillAndDrain ==
    ASSUME NEW W, NEW c, NEW m, NEW q, Took(c, W, m, q), Len(m) < Off(q) + Block,
           NEW x \in Seq(W), NEW aligned, NEW at, at = Len(m) - Off(q),
           Block - at <= Len(x)
    PROVE  LET d == Refilled(c, at, x, aligned)
           IN  Rests(d, W, m \o x) /\ d.length = c.length
<1> DEFINE left == Block - at
           first == SubSeq(x, 1, left)
           rest == SubSeq(x, left + 1, Len(x))
           b == Put(c, at, first)
           filled == process_message(b)
<1>1. /\ q \in Nat /\ Off(q) \in Nat /\ Len(m) \in Nat /\ Block \in Nat /\ Off(q) <= Len(m)
      /\ m \in Seq(W)
  BY TookSizes DEF Took
<1>2. left \in 0..Len(x) /\ at \in Nat /\ at + left = Block /\ Len(m) + left = Off(q) + Block
  <2> DEFINE l == Len(m)
             o == Off(q)
             n == Len(x)
  <2>1. o \in Nat /\ l \in Nat /\ Block \in Nat /\ o <= l /\ l < o + Block /\ n \in Nat
    BY <1>1
  <2>2. at = l - o /\ left = Block - at /\ left <= n
    OBVIOUS
  <2> HIDE DEF l, o, n, left
  <2>3. at \in Nat /\ at < Block
    BY <2>1, <2>2
  <2>4. left \in Nat /\ at + left = Block
    BY <2>1, <2>2, <2>3, SMTT(30)
  <2>5. left \in 0..n /\ l + left = o + Block
    BY <2>1, <2>2, <2>3, <2>4
  <2> QED BY <2>3, <2>4, <2>5 DEF l, o, n
<1>3. /\ first \in Seq(W) /\ Len(first) = left /\ rest \in Seq(W) /\ first \o rest = x
  BY <1>2, Halved
<1> HIDE DEF first, rest, b
<1>4. Took(b, W, m \o first, q) /\ b.length = c.length
  <2>1. at + Len(first) <= Block
    BY <1>2, <1>3
  <2> QED BY <1>3, <2>1, Filling DEF b
<1>5. Len(m \o first) = Off(q) + Block /\ m \o first \in Seq(W)
  BY <1>1, <1>2, <1>3, ConcatProperties
<1> DEFINE t == m \o first
<1>6. Took(b, W, t, q) /\ Len(t) = Off(q) + Block
  BY <1>4, <1>5
<1>7. t \o rest = m \o x
  <2>1. m \in Seq(W) /\ first \in Seq(W) /\ rest \in Seq(W)
    BY <1>1, <1>3
  <2>2. (m \o first) \o rest = m \o (first \o rest)
    BY <2>1, ConcatAssociative
  <2> QED BY <1>3, <2>2
<1> HIDE DEF t, filled
<1>8. Took(filled, W, t, q + 1) /\ filled.length = b.length
  BY <1>6, Processing DEF filled
<1>9. Len(t) = Off(q + 1)
  BY <1>1, <1>6, Offset
<1>10. /\ Rests(Drained(filled, rest, aligned), W, t \o rest)
       /\ Drained(filled, rest, aligned).length = filled.length
  BY <1>3, <1>8, <1>9, Drain
<1>11. Refilled(c, at, x, aligned) = Drained(filled, rest, aligned)
  BY DEF Refilled, filled, b, rest, first
<1> QED BY <1>4, <1>7, <1>8, <1>10, <1>11

\* Where the next byte goes.
LEMMA Place ==
    ASSUME NEW W, NEW c, NEW m, NEW q, Took(c, W, m, q), Len(m) < Off(q) + Block,
           c.length = Len(m)
    PROVE  c.length % Block = Len(m) - Off(q) /\ Len(m) - Off(q) \in 0..(Block - 1)
<1>1. /\ q \in Nat /\ Off(q) \in Nat /\ Len(m) \in Nat /\ Block \in Nat /\ Off(q) <= Len(m)
  BY TookSizes
<1> DEFINE r == Len(m) - Off(q)
<1>2. r \in 0..(Block - 1) /\ Len(m) = Off(q) + r
  BY <1>1
<1> HIDE DEF r
<1>3. Len(m) % Block = r
  BY <1>1, <1>2, DividedBy
<1> QED BY <1>2, <1>3 DEF r

\* What does not fill the block stays in the buffer.
LEMMA FewBytes ==
    ASSUME NEW W, NEW c, NEW m, NEW q, Took(c, W, m, q), NEW x \in Seq(W),
           NEW at, at = Len(m) - Off(q), at + Len(x) < Block
    PROVE  Rests(Put(c, at, x), W, m \o x) /\ Put(c, at, x).length = c.length
<1> DEFINE d == Put(c, at, x)
<1>1. /\ q \in Nat /\ Off(q) \in Nat /\ Len(m) \in Nat /\ Block \in Nat /\ Off(q) <= Len(m)
      /\ m \in Seq(W)
  BY TookSizes DEF Took
<1>2. at + Len(x) <= Block /\ Len(x) \in Nat
  BY <1>1
<1> HIDE DEF d
<1>3. Took(d, W, m \o x, q) /\ d.length = c.length
  BY <1>2, Filling DEF d
<1>4. Len(m \o x) = Len(m) + Len(x)
  BY <1>1, ConcatProperties
<1>5. Len(m \o x) < Off(q) + Block
  BY <1>1, <1>2, <1>4
<1> QED BY <1>1, <1>3, <1>5 DEF Rests, d

\* MD5Update and its like: a call takes its chunk behind what came before.
LEMMA MD5Takes ==
    ASSUME NEW W, NEW c, NEW m, Holds(c, W, m), NEW x \in Seq(W)
    PROVE  Holds(MD5Update(c, x), W, m \o x)
<1> DEFINE index == c.length % Block
           left == Block - index
           n == c.length + Len(x)
           yes == TRUE
           longer == [c EXCEPT !.length = n]
<1>1. PICK q \in Nat : Took(c, W, m, q) /\ Len(m) < Off(q) + Block
  BY DEF Holds, Rests
<1>2. c.length = Len(m) /\ m \in Seq(W)
  BY <1>1 DEF Holds, Took
<1>3. index = Len(m) - Off(q) /\ index \in 0..(Block - 1) /\ Block \in Nat
  BY <1>1, <1>2, Place, BlockSize
<1>4. Len(m \o x) = n /\ n \in Nat
  BY <1>2, ConcatProperties
<1>5. Took(longer, W, m, q) /\ longer.length = n
  BY <1>1, <1>4, Longer
<1>6. MD5Update(c, x) = IF Len(x) < left THEN Put(longer, index, x)
                        ELSE Refilled(longer, index, x, yes)
  BY DEF MD5Update, Drained, Refilled
<1> HIDE DEF index, longer, n, yes
<1>7. CASE Len(x) < left
  <2>1. index + Len(x) < Block
    BY <1>3, <1>7
  <2>2. Rests(Put(longer, index, x), W, m \o x) /\ Put(longer, index, x).length = longer.length
    BY <1>3, <1>5, <2>1, FewBytes
  <2> QED BY <1>4, <1>5, <1>6, <1>7, <2>2 DEF Holds
<1>8. CASE ~(Len(x) < left)
  <2>1. left <= Len(x)
    BY <1>3, <1>8
  <2> DEFINE d == Refilled(longer, index, x, yes)
  <2>2. Rests(d, W, m \o x) /\ d.length = longer.length
    <3>1. index = Len(m) - Off(q)
      BY <1>3
    <3> HIDE DEF d
    <3>2. Took(longer, W, m, q)
      BY <1>5
    <3>3. Len(m) < Off(q) + Block
      BY <1>1
    <3> QED BY <2>1, <3>1, <3>2, <3>3, FillAndDrain DEF d
  <2> QED BY <1>4, <1>5, <1>6, <1>8, <2>2 DEF Holds
<1> QED BY <1>7, <1>8

\* The update of the other digests takes it too, aligned or not.
LEMMA RhashTakes ==
    ASSUME NEW W, NEW c, NEW m, Holds(c, W, m), NEW x \in Seq(W), NEW aligned
    PROVE  Holds(rhash_md5_update(c, x, aligned), W, m \o x)
<1> DEFINE index == c.length % Block
           left == Block - index
           n == c.length + Len(x)
           longer == [c EXCEPT !.length = n]
           d == rhash_md5_update(c, x, aligned)
<1>1. PICK q \in Nat : Took(c, W, m, q) /\ Len(m) < Off(q) + Block
  BY DEF Holds, Rests
<1>2. c.length = Len(m) /\ m \in Seq(W)
  BY <1>1 DEF Holds, Took
<1>3. index = Len(m) - Off(q) /\ index \in 0..(Block - 1) /\ Block \in Nat
  BY <1>1, <1>2, Place, BlockSize
<1>4. Len(m \o x) = n /\ n \in Nat
  BY <1>2, ConcatProperties
<1>5. Took(longer, W, m, q) /\ longer.length = n
  BY <1>1, <1>4, Longer
<1>6. d = IF index # 0 /\ Len(x) < left THEN Put(longer, index, x)
          ELSE IF index = 0 THEN Drained(longer, x, aligned)
          ELSE Refilled(longer, index, x, aligned)
  <2>1. CASE index # 0 /\ Len(x) < left
    BY <2>1 DEF rhash_md5_update
  <2>2. CASE index = 0
    BY <2>2 DEF rhash_md5_update, Drained
  <2>3. CASE index # 0 /\ ~(Len(x) < left)
    BY <2>3 DEF rhash_md5_update, Drained, Refilled
  <2> QED BY <2>1, <2>2, <2>3
<1> HIDE DEF index, longer, n, d
<1>7. CASE index # 0 /\ Len(x) < left
  <2>1. index + Len(x) < Block
    BY <1>3, <1>7
  <2>2. Rests(Put(longer, index, x), W, m \o x) /\ Put(longer, index, x).length = longer.length
    BY <1>3, <1>5, <2>1, FewBytes
  <2> QED BY <1>4, <1>5, <1>6, <1>7, <2>2 DEF Holds, d
<1>8. CASE index = 0
  <2>1. Len(m) = Off(q)
    <3>1. Len(m) \in Nat
      BY <1>2
    <3>3. Off(q) \in Nat
      BY Offset
    <3>2. 0 = Len(m) - Off(q)
      BY <1>3, <1>8
    <3> QED BY <3>1, <3>2, <3>3
  <2>2. Rests(Drained(longer, x, aligned), W, m \o x)
        /\ Drained(longer, x, aligned).length = longer.length
    BY <1>5, <2>1, Drain
  <2> QED BY <1>4, <1>5, <1>6, <1>8, <2>2 DEF Holds, d
<1>9. CASE index # 0 /\ ~(Len(x) < left)
  <2>1. left <= Len(x)
    BY <1>3, <1>9
  <2> DEFINE e == Refilled(longer, index, x, aligned)
  <2>2. Rests(e, W, m \o x) /\ e.length = longer.length
    <3>1. index = Len(m) - Off(q)
      BY <1>3
    <3> HIDE DEF d
    <3>2. Took(longer, W, m, q)
      BY <1>5
    <3>3. Len(m) < Off(q) + Block
      BY <1>1
    <3> QED BY <2>1, <3>1, <3>2, <3>3, FillAndDrain DEF d
  <2> QED BY <1>4, <1>5, <1>6, <1>9, <2>2 DEF Holds, d
<1> QED BY <1>7, <1>8, <1>9

LEMMA ZerosAre ==
    ASSUME NEW W, 0 \in W, NEW n \in Nat
    PROVE  Zeros(n) \in Seq(W) /\ Len(Zeros(n)) = n /\ \A i \in 1..n : Zeros(n)[i] = 0
BY DEF Zeros

LEMMA ZerosAdd ==
    ASSUME NEW a \in Nat, NEW b \in Nat
    PROVE  Zeros(a) \o Zeros(b) = Zeros(a + b)
<1> DEFINE x == Zeros(a)
           y == Zeros(b)
           z == Zeros(a + b)
<1>1. /\ x \in Seq(Nat) /\ Len(x) = a /\ \A i \in 1..a : x[i] = 0
      /\ y \in Seq(Nat) /\ Len(y) = b /\ \A i \in 1..b : y[i] = 0
      /\ z \in Seq(Nat) /\ Len(z) = a + b /\ \A i \in 1..(a + b) : z[i] = 0
  <2>1. 0 \in Nat /\ a + b \in Nat
    OBVIOUS
  <2> QED BY <2>1, ZerosAre
<1> HIDE DEF x, y, z
<1>2. /\ x \o y \in Seq(Nat) /\ Len(x \o y) = Len(x) + Len(y)
      /\ \A i \in 1..(Len(x) + Len(y)) :
            (x \o y)[i] = IF i <= Len(x) THEN x[i] ELSE y[i - Len(x)]
  BY <1>1, ConcatProperties
<1> DEFINE c == x \o y
<1>3. c \in Seq(Nat) /\ Len(c) = a + b
      /\ \A i \in 1..(a + b) : c[i] = IF i <= a THEN x[i] ELSE y[i - a]
  BY <1>1, <1>2
<1> HIDE DEF c
<1>4. \A i \in 1..(a + b) : c[i] = 0
  <2> SUFFICES ASSUME NEW i \in 1..(a + b) PROVE c[i] = 0
    OBVIOUS
  <2>1. IF i <= a THEN i \in 1..a ELSE i - a \in 1..b
    OBVIOUS
  <2> QED BY <1>1, <1>3, <2>1
<1>5. c = z
  <2>1. Len(c) = Len(z) /\ \A i \in 1..Len(c) : c[i] = z[i]
    BY <1>1, <1>3, <1>4
  <2> QED BY <1>1, <1>3, <2>1, SeqEqual
<1> QED BY <1>5 DEF c, x, y, z

\* A message that is a number of whole blocks, as the blocks.
Cut(y) == [k \in 1..(Len(y) \div Block) |-> SubSeq(y, (k - 1) * Block + 1, k * Block)]

\* When nothing is left over, the chaining value is the message, cut into blocks.
LEMMA AllCompressed ==
    ASSUME NEW W, NEW c, NEW y, NEW q, Took(c, W, y, q), Len(y) = Off(q)
    PROVE  c.hash = Cut(y)
<1> DEFINE T == [1..Block -> W]
           h == c.hash
<1>1. /\ q \in Nat /\ Block \in Nat /\ Block > 0 /\ y \in Seq(W) /\ h \in Seq(T) /\ Len(h) = q
  BY BlockSize DEF Took, Contexts
<1>2. Len(y) \div Block = q
  <2>1. 0 \in 0..(Block - 1) /\ Len(y) = Off(q) + 0
    <3>1. Off(q) \in Nat
      BY <1>1, Offset
    <3> QED BY <1>1, <3>1
  <2> QED BY <1>1, <2>1, DividedBy
<1>3. ASSUME NEW k \in 1..q
      PROVE  h[k] = SubSeq(y, (k - 1) * Block + 1, k * Block)
  <2> DEFINE o == Off(k - 1)
             b == SubSeq(y, o + 1, o + Block)
  <2>1. k - 1 \in Nat /\ (k - 1) + 1 = k /\ k \in Nat /\ k <= q
    BY <1>1
  <2>2. o \in Nat /\ Off((k - 1) + 1) = o + Block
    BY <2>1, Offset
  <2>3. Off(k) <= Off(q)
    BY <1>1, <2>1, OffsetsGrow
  <2>4. o + Block <= Len(y) /\ Off(k) = o + Block
    BY <2>1, <2>2, <2>3
  <2>5. (k - 1) * Block + 1 = o + 1 /\ k * Block = o + Block
    BY <2>4 DEF Off
  <2>6. h[k] \in T
    BY <1>1
  <2>7. \A i \in 1..Block : h[k][i] = y[o + i]
    BY DEF Took
  <2> HIDE DEF o, h
  <2>8. \A i \in (o + 1)..(o + Block) : y[i] \in W
    BY <1>1, <2>2, <2>4
  <2>9. /\ b \in Seq(W)
        /\ Len(b) = IF o + 1 <= o + Block THEN (o + Block) - (o + 1) + 1 ELSE 0
        /\ \A i \in 1..((o + Block) - (o + 1) + 1) : b[i] = y[(o + 1) + i - 1]
    <3> DEFINE from == o + 1
               to == o + Block
    <3>1. from \in Int /\ to \in Int /\ \A i \in from..to : y[i] \in W
      BY <1>1, <2>2, <2>8
    <3> HIDE DEF from, to
    <3>2. /\ SubSeq(y, from, to) \in Seq(W)
          /\ Len(SubSeq(y, from, to)) = IF from <= to THEN to - from + 1 ELSE 0
          /\ \A i \in 1..(to - from + 1) : SubSeq(y, from, to)[i] = y[from + i - 1]
      BY <3>1, SubSeqProperties
    <3> QED BY <3>2 DEF from, to
  <2> HIDE DEF b
  <2>10. (o + Block) - (o + 1) + 1 = Block /\ o + 1 <= o + Block
         /\ \A i \in 1..Block : (o + 1) + i - 1 = o + i
    BY <1>1, <2>2
  <2>11. Len(b) = Block /\ \A i \in 1..Block : b[i] = y[o + i]
    BY <2>9, <2>10
  <2>12. b \in T
    BY <2>9, <2>11, AsBlock
  <2>13. h[k] = b
    BY <2>6, <2>7, <2>11, <2>12
  <2> QED BY <2>5, <2>13 DEF b
<1>4. h = [k \in 1..q |-> h[k]]
  BY <1>1
<1>5. [k \in 1..q |-> h[k]] = [k \in 1..q |-> SubSeq(y, (k - 1) * Block + 1, k * Block)]
  <2> HIDE DEF h
  <2> QED BY <1>3
<1> QED BY <1>2, <1>4, <1>5 DEF Cut

\* The message with its padding up to the place of the length, then with its length.
Measure(l)      == <<l>> \o Zeros(Block - LengthAt - 1)
Measured(y, l) == y \o Measure(l)
Gap(index, at) == IF index <= at THEN LengthAt - index ELSE Block + LengthAt - index

LEMMA MeasureIs ==
    ASSUME NEW W, Int \subseteq W, NEW l \in Nat
    PROVE  Measure(l) \in Seq(W) /\ Len(Measure(l)) = Block - LengthAt
<1> DEFINE n == Block - LengthAt - 1
<1>1. n \in Nat /\ 1 + n = Block - LengthAt /\ l \in W /\ 0 \in W
  BY DigestAssumption
<1> HIDE DEF n
<1> DEFINE z == Zeros(n)
           one == <<l>>
<1>2. z \in Seq(W) /\ Len(z) = n
  BY <1>1, ZerosAre
<1>3. one \in Seq(W) /\ Len(one) = 1
  BY <1>1
<1> HIDE DEF z, one
<1>4. one \o z \in Seq(W) /\ Len(one \o z) = 1 + n
  BY <1>1, <1>2, <1>3, ConcatProperties, SMTT(30)
<1> QED BY <1>1, <1>4 DEF Measure, n, z, one

\* The length goes into the last block, which is compressed.
LEMMA Sealed ==
    ASSUME NEW W, Int \subseteq W, NEW c, NEW y, NEW q, Took(c, W, y, q),
           Len(y) = Off(q) + LengthAt, NEW l \in Nat
    PROVE  process_message(Put(c, LengthAt, Measure(l))).hash = Cut(Measured(y, l))
<1> DEFINE t == Measure(l)
           d == Put(c, LengthAt, t)
           w == y \o t
<1>1. t \in Seq(W) /\ Len(t) = Block - LengthAt
  BY MeasureIs
<1>2. /\ q \in Nat /\ q + 1 \in Nat /\ Off(q) \in Nat /\ Off(q + 1) = Off(q) + Block
      /\ y \in Seq(W)
  BY TookSizes DEF Took
<1>3. LengthAt \in Nat /\ Block \in Nat /\ LengthAt < Block
  BY DigestAssumption
<1> HIDE DEF t, d
<1>4. LengthAt = Len(y) - Off(q)
  BY <1>2, <1>3
<1>5. LengthAt + Len(t) <= Block
  BY <1>1, <1>3
<1>6. Took(d, W, y \o t, q)
  <2>1. t \in Seq(W)
    BY <1>1
  <2> QED BY <1>4, <1>5, <2>1, Filling DEF d
<1>7. Len(y \o t) = Len(y) + Len(t)
  BY <1>1, <1>2, ConcatProperties
<1>8. Len(w) = Off(q) + Block
  BY <1>1, <1>2, <1>3, <1>7
<1> HIDE DEF w
<1>9. Took(process_message(d), W, w, q + 1)
  BY <1>6, <1>8, Processing DEF w
<1>10. Len(w) = Off(q + 1)
  BY <1>2, <1>8
<1>11. process_message(d).hash = Cut(w)
  BY <1>9, <1>10, AllCompressed
<1> QED BY <1>11 DEF d, t, w, Measured

\* finish_at, with index bytes in the buffer.
LEMMA Finished ==
    ASSUME NEW W, Int \subseteq W, NEW c, NEW m, NEW q, Took(c, W, m, q),
           NEW index, index = Len(m) - Off(q), NEW at \in Nat, at <= LengthAt,
           c.length \in Nat
    PROVE  finish_at(c, index, at) = Cut(Measured(m \o Zeros(Gap(index, at)), c.length))
<1>1. /\ q \in Nat /\ q + 1 \in Nat /\ Off(q) \in Nat /\ Off(q + 1) = Off(q) + Block
      /\ m \in Seq(W) /\ Len(m) \in Nat /\ Off(q) <= Len(m) /\ Len(m) <= Off(q) + Block
  BY TookSizes DEF Took
<1>2. LengthAt \in Nat /\ Block \in Nat /\ LengthAt < Block /\ 0 \in W
  BY DigestAssumption
<1>3. index \in Nat /\ index <= Block /\ Len(m) = Off(q) + index
  BY <1>1, <1>2
<1> DEFINE l == c.length
<1>4. CASE index <= at
  <2> DEFINE n == LengthAt - index
             z == Zeros(n)
             d == Put(c, index, z)
  <2>1. n \in Nat /\ index + n = LengthAt /\ LengthAt <= Block
    BY <1>2, <1>3, <1>4
  <2>2. finish_at(c, index, at) = process_message(Put(d, LengthAt, Measure(l))).hash
    BY <1>4 DEF finish_at, Measure
  <2>3. Gap(index, at) = n
    BY <1>4 DEF Gap
  <2> HIDE DEF n
  <2>4. z \in Seq(W) /\ Len(z) = n
    BY <1>2, <2>1, ZerosAre
  <2> HIDE DEF z, d
  <2>5. index + Len(z) <= Block
    BY <2>1, <2>4
  <2>6. Took(d, W, m \o z, q)
    <3>1. z \in Seq(W)
      BY <2>4
    <3> QED BY <2>5, <3>1, Filling DEF d
  <2>7. Len(m \o z) = Off(q) + LengthAt
    <3>1. Len(m \o z) = Len(m) + Len(z)
      BY <1>1, <2>4, ConcatProperties
    <3> QED BY <1>1, <1>2, <1>3, <2>1, <2>4, <3>1
  <2>8. process_message(Put(d, LengthAt, Measure(l))).hash = Cut(Measured(m \o z, l))
    <3> DEFINE y == m \o z
    <3>1. Took(d, W, y, q) /\ Len(y) = Off(q) + LengthAt
      BY <2>6, <2>7
    <3> HIDE DEF y, l
    <3>2. l \in Nat
      BY DEF l
    <3>3. process_message(Put(d, LengthAt, Measure(l))).hash = Cut(Measured(y, l))
      BY <3>1, <3>2, Sealed
    <3> QED BY <3>3 DEF y
  <2> QED BY <2>2, <2>3, <2>8 DEF z
<1>5. CASE ~(index <= at)
  <2> DEFINE n == Block - index
             z == Zeros(n)
             b == Put(c, index, z)
             e == process_message(b)
             u == Zeros(LengthAt)
             d == Put(e, 0, u)
  <2>1. n \in Nat /\ index + n = Block /\ n + LengthAt = Block + LengthAt - index
    BY <1>2, <1>3
  <2>2. finish_at(c, index, at) = process_message(Put(d, LengthAt, Measure(l))).hash
    BY <1>5 DEF finish_at, Measure
  <2>3. Gap(index, at) = n + LengthAt
    BY <1>5, <2>1 DEF Gap
  <2> HIDE DEF n
  <2>4. z \in Seq(W) /\ Len(z) = n /\ u \in Seq(W) /\ Len(u) = LengthAt
    BY <1>2, <2>1, ZerosAre
  <2>5. z \o u = Zeros(n + LengthAt)
    BY <1>2, <2>1, ZerosAdd
  <2> HIDE DEF z, d, e, b, u
  <2>6. index + Len(z) <= Block
    BY <1>2, <2>1, <2>4
  <2> DEFINE y == m \o z
  <2>7. Took(b, W, y, q)
    <3>1. z \in Seq(W)
      BY <2>4
    <3> QED BY <2>6, <3>1, Filling DEF b
  <2>8. y \in Seq(W) /\ Len(y) = Off(q) + Block
    <3>1. m \o z \in Seq(W) /\ Len(m \o z) = Len(m) + Len(z)
      BY <1>1, <2>4, ConcatProperties
    <3> QED BY <1>1, <1>2, <1>3, <2>1, <2>4, <3>1, SMTT(30)
  <2> HIDE DEF y
  <2>9. Took(e, W, y, q + 1) /\ Len(y) = Off(q + 1)
    BY <1>1, <2>7, <2>8, Processing DEF e
  <2>10. 0 = Len(y) - Off(q + 1) /\ 0 + Len(u) <= Block
    BY <1>1, <1>2, <2>4, <2>8, <2>9
  <2>11. Took(d, W, y \o u, q + 1)
    <3>1. u \in Seq(W)
      BY <2>4
    <3>2. 0 = Len(y) - Off(q + 1)
      BY <2>10
    <3>3. 0 + Len(u) <= Block
      BY <2>10
    <3> QED BY <2>9, <3>1, <3>2, <3>3, Filling DEF d
  <2>12. Len(y \o u) = Off(q + 1) + LengthAt
    <3>1. Len(y \o u) = Len(y) + Len(u)
      BY <2>4, <2>8, ConcatProperties
    <3> QED BY <2>4, <2>9, <3>1
  <2>13. y \o u = m \o Zeros(n + LengthAt)
    <3>1. m \in Seq(W) /\ z \in Seq(W) /\ u \in Seq(W)
      BY <1>1, <2>4
    <3>2. (m \o z) \o u = m \o (z \o u)
      BY <3>1, ConcatAssociative, SMTT(30)
    <3> QED BY <2>5, <3>2 DEF y
  <2>14. process_message(Put(d, LengthAt, Measure(l))).hash = Cut(Measured(y \o u, l))
    <3> DEFINE w == y \o u
               p == q + 1
    <3>1. Took(d, W, w, p) /\ Len(w) = Off(p) + LengthAt
      BY <2>11, <2>12
    <3> HIDE DEF w, l, p
    <3>2. l \in Nat
      BY DEF l
    <3>3. process_message(Put(d, LengthAt, Measure(l))).hash = Cut(Measured(w, l))
      BY <3>1, <3>2, Sealed
    <3> QED BY <3>3 DEF w
  <2> QED BY <2>2, <2>3, <2>13, <2>14
<1> QED BY <1>4, <1>5

LEMMA Multiples ==
    ASSUME NEW w \in Nat, NEW a \in Nat, NEW j \in Nat, NEW s \in Nat, w * a + s < w * j
    PROVE  w * a + w <= w * j
<1>1. ~(j <= a)
  <2> SUFFICES ASSUME j <= a PROVE FALSE
    OBVIOUS
  <2>1. a - j \in Nat /\ j + (a - j) = a
    OBVIOUS
  <2>2. w * (j + (a - j)) = w * j + w * (a - j)
    BY <2>1
  <2>3. w * (a - j) \in Nat /\ w * j \in Nat /\ w * a \in Nat
    BY <2>1
  <2> QED BY <2>1, <2>2, <2>3
<1>2. j - (a + 1) \in Nat /\ (a + 1) + (j - (a + 1)) = j /\ a + 1 \in Nat
  BY <1>1
<1>3. w * ((a + 1) + (j - (a + 1))) = w * (a + 1) + w * (j - (a + 1))
  BY <1>2
<1>4. w * (a + 1) = w * a + w
  OBVIOUS
<1>5. w * (j - (a + 1)) \in Nat /\ w * j \in Nat /\ w * a \in Nat
  BY <1>2
<1> QED BY <1>2, <1>3, <1>4, <1>5

\* The zeros up to the end of a word change neither where the length fits nor what
\* comes before it.
LEMMA WordFill ==
    ASSUME NEW r \in 0..(Block - 1), NEW fill, fill = Word - 1 - (r % Word)
    PROVE  /\ fill \in Nat /\ r + 1 + fill <= Block
           /\ fill + Gap(r + 1 + fill, LengthAt) = Gap(r + 1, LengthAt)
<1> DEFINE a == r \div Word
           s == r % Word
           j == LengthAt \div Word
           k == Block \div Word
<1>1. /\ Word \in Nat /\ Word > 0 /\ Block \in Nat /\ LengthAt \in Nat /\ LengthAt < Block
      /\ Block % Word = 0 /\ LengthAt % Word = 0 /\ r \in Nat /\ r < Block
  BY DigestAssumption
<1>2. a \in Nat /\ s \in Nat /\ s < Word /\ r = Word * a + s
  BY <1>1
<1>3. j \in Nat /\ LengthAt = Word * j
  BY <1>1
<1>4. k \in Nat /\ Block = Word * k
  BY <1>1
<1> HIDE DEF a, j, k
<1>5. fill \in Nat /\ r + 1 + fill = Word * a + Word
  <2>1. fill = Word - 1 - s
    OBVIOUS
  <2> HIDE DEF s
  <2>2. Word * a \in Nat
    BY <1>1, <1>2
  <2> QED BY <1>1, <1>2, <2>1, <2>2
<1> HIDE DEF s
<1>6. Word * a + Word <= Block
  BY <1>1, <1>2, <1>4, Multiples
<1>7. r + 1 <= LengthAt => Word * a + Word <= LengthAt
  <2> SUFFICES ASSUME r + 1 <= LengthAt PROVE Word * a + Word <= LengthAt
    OBVIOUS
  <2>1. Word * a + s < Word * j
    BY <1>1, <1>2, <1>3
  <2> QED BY <1>1, <1>2, <1>3, <2>1, Multiples
<1> DEFINE i == r + 1 + fill
<1>8. i \in Nat /\ i = r + 1 + fill /\ i <= Block /\ (r + 1 <= LengthAt => i <= LengthAt)
  BY <1>1, <1>5, <1>6, <1>7
<1> HIDE DEF i
<1>9. fill + Gap(i, LengthAt) = Gap(r + 1, LengthAt)
  BY <1>1, <1>5, <1>8 DEF Gap
<1> QED BY <1>5, <1>8, <1>9 DEF i

LEMMA DividedInt ==
    ASSUME NEW b \in Nat \ {0}, NEW n \in Int
    PROVE  n \div b \in Int /\ n % b \in 0..(b - 1) /\ n = b * (n \div b) + (n % b)
<1>1. n \div b \in Int /\ n % b \in 0..(b - 1)
  OBVIOUS
<1>2. n = b * (n \div b) + (n % b)
  OBVIOUS
<1> QED BY <1>1, <1>2

\* % of a negative number, as the reference counts the zeros.
LEMMA NegativeRest ==
    ASSUME NEW j \in Nat, NEW k \in 0..(Block - 1), NEW n, n = k - Off(j)
    PROVE  n % Block = k
<1> DEFINE p == n \div Block
           s == n % Block
<1>1. Block \in Nat \ {0} /\ k \in Nat /\ k < Block /\ Off(j) \in Nat
  BY DigestAssumption, Offset
<1>2. n \in Int
  BY <1>1
<1>3. p \in Int /\ s \in 0..(Block - 1)
  BY <1>1, <1>2, DividedInt
<1>4. n = Block * p + s
  BY <1>1, <1>2, DividedInt
<1> HIDE DEF p, s
<1>5. Off(j) = Block * j
  BY <1>1 DEF Off
<1> DEFINE w == p + j
<1>6. w \in Int /\ Block * w = Block * p + Block * j
  BY <1>1, <1>3
<1>7. Block * p \in Int
  BY <1>1, <1>3
<1>8. Block * w = k - s
  BY <1>1, <1>3, <1>4, <1>5, <1>6, <1>7
<1> HIDE DEF w
<1>9. ~(w >= 1)
  <2> SUFFICES ASSUME w >= 1 PROVE FALSE
    OBVIOUS
  <2>1. w - 1 \in Nat /\ w = 1 + (w - 1)
    BY <1>6
  <2>2. Block * (1 + (w - 1)) = Block + Block * (w - 1) /\ Block * (w - 1) \in Nat
    BY <1>1, <2>1
  <2> QED BY <1>1, <1>3, <1>8, <2>1, <2>2
<1>10. ~(w <= -1)
  <2> SUFFICES ASSUME w <= -1 PROVE FALSE
    OBVIOUS
  <2>1. -1 - w \in Nat /\ w + (-1 - w) = -1 /\ w \in Int
    BY <1>6
  <2>2. Block * (w + (-1 - w)) = Block * w + Block * (-1 - w) /\ Block * (-1 - w) \in Nat
    BY <1>1, <2>1
  <2>3. Block * (-1) = -Block
    BY <1>1
  <2> QED BY <1>1, <1>3, <1>8, <2>1, <2>2, <2>3
<1>11. w = 0
  BY <1>6, <1>9, <1>10
<1>12. Block * 0 = 0
  BY <1>1
<1>13. s = k
  BY <1>1, <1>3, <1>8, <1>11, <1>12
<1> QED BY <1>13 DEF s

\* The zeros of the reference are those the code puts in.
LEMMA ZerosAsReference ==
    ASSUME NEW q \in Nat, NEW r \in 0..(Block - 1), NEW l, l = Off(q) + r,
           NEW at \in Nat, at <= LengthAt
    PROVE  ((at - l - 1) % Block) + (LengthAt - at) = Gap(r + 1, at)
<1>1. /\ Block \in Nat /\ LengthAt \in Nat /\ LengthAt < Block /\ r \in Nat /\ r < Block
      /\ Off(q) \in Nat /\ Off(q + 1) = Off(q) + Block
  BY DigestAssumption, Offset
<1> DEFINE o == Off(q)
           o1 == Off(q + 1)
<1>2. o \in Nat /\ o1 = o + Block /\ l = o + r
  BY <1>1
<1>3. CASE r + 1 <= at
  <2> DEFINE k == at - (r + 1)
  <2>1. k \in 0..(Block - 1) /\ at - l - 1 = k - Off(q)
    <3> HIDE DEF o, o1
    <3>1. o \in Nat /\ l \in Nat /\ at \in Nat /\ r \in Nat /\ Block \in Nat
          /\ at < Block /\ l = o + r /\ r < Block
      BY <1>1, <1>2
    <3>2. k \in Int /\ 0 <= k /\ k <= Block - 1
      BY <3>1, <1>3
    <3>3. at - l - 1 = k - o
      BY <3>1
    <3>4. k \in 0..(Block - 1) /\ at - l - 1 = k - o
      BY <3>1, <3>2, <3>3
    <3> QED BY <3>4 DEF o
  <2> HIDE DEF k
  <2>2. (at - l - 1) % Block = k
    BY <2>1, NegativeRest
  <2>3. k + (LengthAt - at) = LengthAt - (r + 1)
    BY <1>1 DEF k
  <2> QED BY <1>3, <2>2, <2>3 DEF Gap
<1>4. CASE ~(r + 1 <= at)
  <2> DEFINE k == Block + at - (r + 1)
  <2>1. k \in 0..(Block - 1) /\ at - l - 1 = k - Off(q + 1)
    <3> HIDE DEF o, o1
    <3>1. o1 \in Nat /\ l \in Nat /\ at \in Nat /\ r \in Nat /\ Block \in Nat
          /\ at < Block /\ l = (o1 - Block) + r /\ r < Block
      BY <1>1, <1>2
    <3>2. k \in Int /\ 0 <= k /\ k <= Block - 1
      BY <3>1, <1>4
    <3>3. at - l - 1 = k - o1
      BY <3>1
    <3>4. k \in 0..(Block - 1) /\ at - l - 1 = k - o1
      BY <3>1, <3>2, <3>3
    <3> QED BY <3>4 DEF o1
  <2> HIDE DEF k
  <2>2. (at - l - 1) % Block = k
    <3>1. q + 1 \in Nat
      OBVIOUS
    <3> QED BY <2>1, <3>1, NegativeRest
  <2>3. k + (LengthAt - at) = Block + LengthAt - (r + 1)
    BY <1>1 DEF k
  <2> QED BY <1>4, <2>2, <2>3 DEF Gap
<1> QED BY <1>3, <1>4

LengthPlace(alg) == IF alg = "whirlpool" THEN WideAt ELSE LengthAt
Mark(alg)   == IF alg = "tiger" THEN <<1>> ELSE <<128>>

LEMMA MarkIs ==
    ASSUME NEW W, Int \subseteq W, NEW alg
    PROVE  Mark(alg) \in Seq(W) /\ Len(Mark(alg)) = 1
BY DEF Mark

\* What every digest has to come to.
LEMMA Reference ==
    ASSUME NEW W, Int \subseteq W, NEW msg \in Seq(W), NEW alg,
           NEW q \in Nat, NEW r \in 0..(Block - 1), Len(msg) = Off(q) + r
    PROVE  Blocks(alg, msg)
             = Cut(Measured((msg \o Mark(alg)) \o Zeros(Gap(r + 1, LengthPlace(alg))), Len(msg)))
<1> DEFINE at == LengthPlace(alg)
           mark == Mark(alg)
           l == Len(msg)
           zeros == ((at - l - 1) % Block) + (LengthAt - at)
           z == Zeros(zeros)
           t == Zeros(Block - LengthAt - 1)
           one == <<l>>
           y == (msg \o mark) \o z
<1>1. at \in Nat /\ at <= LengthAt /\ LengthAt \in Nat /\ Block \in Nat /\ LengthAt < Block
  BY DigestAssumption DEF LengthPlace
<1>2. zeros = Gap(r + 1, at)
  <2> HIDE DEF at
  <2> QED BY <1>1, ZerosAsReference
<1>3. Gap(r + 1, at) \in Nat
  <2> HIDE DEF at
  <2>1. r \in Nat /\ r < Block
    BY <1>1
  <2> QED BY <1>1, <2>1 DEF Gap
<1>4. Blocks(alg, msg) = Cut((y \o one) \o t)
  BY DEF Blocks, Cut, LengthPlace, Mark
<1> HIDE DEF zeros, at
<1>5. z \in Seq(W) /\ t \in Seq(W) /\ one \in Seq(W) /\ mark \in Seq(W)
  <2>1. zeros \in Nat /\ Block - LengthAt - 1 \in Nat /\ 0 \in W /\ l \in W
    BY <1>1, <1>2, <1>3
  <2>2. z \in Seq(W) /\ t \in Seq(W)
    BY <2>1, ZerosAre
  <2>3. one \in Seq(W)
    BY <2>1
  <2> QED BY <2>2, <2>3, MarkIs
<1>6. (y \o one) \o t = y \o (one \o t)
  <2> HIDE DEF z, t, one, mark
  <2>1. msg \in Seq(W) /\ mark \in Seq(W)
    BY <1>5
  <2>2. msg \o mark \in Seq(W)
    BY <2>1, ConcatProperties
  <2>3. y \in Seq(W)
    BY <1>5, <2>2, ConcatProperties
  <2> HIDE DEF y
  <2>4. y \in Seq(W) /\ one \in Seq(W) /\ t \in Seq(W)
    BY <1>5, <2>3
  <2> QED BY <2>4, ConcatAssociative, SMTT(30)
<1>7. y \o (one \o t) = Measured(y, l)
  BY DEF Measured, Measure
<1>8. y = (msg \o mark) \o Zeros(Gap(r + 1, at))
  BY <1>2
<1> HIDE DEF y
<1> QED BY <1>4, <1>6, <1>7, <1>8 DEF at

\* What the digest comes to, in terms of the message and the bytes in the buffer.
Comes(msg, mark, at, r) == Cut(Measured((msg \o mark) \o Zeros(Gap(r + 1, at)), Len(msg)))

\* How much of what it holds is in the buffer.
LEMMA Buffered ==
    ASSUME NEW W, NEW c, NEW m, Holds(c, W, m)
    PROVE  \E q \in Nat, r \in 0..(Block - 1) :
             /\ Took(c, W, m, q) /\ Len(m) = Off(q) + r /\ r = Len(m) - Off(q)
             /\ c.length = Len(m) /\ c.length % Block = r /\ m \in Seq(W)
<1>1. PICK q \in Nat : Took(c, W, m, q) /\ Len(m) < Off(q) + Block
  BY DEF Holds, Rests
<1>2. c.length = Len(m) /\ m \in Seq(W)
  BY <1>1 DEF Holds, Took
<1> DEFINE r == Len(m) - Off(q)
<1>3. c.length % Block = r /\ r \in 0..(Block - 1)
  BY <1>1, <1>2, Place
<1>4. Len(m) \in Nat /\ Off(q) \in Nat
  BY <1>1, TookSizes
<1>5. Len(m) = Off(q) + r
  BY <1>4
<1> HIDE DEF r
<1>6. r = Len(m) - Off(q)
  BY DEF r
<1> QED BY <1>1, <1>2, <1>3, <1>5, <1>6

\* tiger, whirlpool, ripemd128: the mark, then finish_at.
LEMMA MarkedAndFinished ==
    ASSUME NEW W, Int \subseteq W, NEW c, NEW m, NEW q, Took(c, W, m, q),
           NEW r \in 0..(Block - 1), r = Len(m) - Off(q), c.length = Len(m),
           NEW mark \in Seq(W), Len(mark) = 1, NEW at \in Nat, at <= LengthAt
    PROVE  finish_at(Put(c, r, mark), r + 1, at) = Comes(m, mark, at, r)
<1> DEFINE d == Put(c, r, mark)
           y == m \o mark
           i == r + 1
<1>1. /\ q \in Nat /\ Off(q) \in Nat /\ Len(m) \in Nat /\ Block \in Nat /\ m \in Seq(W)
  BY TookSizes DEF Took
<1>2. r + Len(mark) <= Block
  BY <1>1
<1> HIDE DEF d, y, i
<1>3. Took(d, W, y, q) /\ d.length = c.length
  <2>1. r = Len(m) - Off(q)
    OBVIOUS
  <2>2. Took(d, W, m \o mark, q)
    BY <1>2, <2>1, Filling DEF d
  <2>3. d.length = c.length
    BY DEF d, Put, Took, Contexts
  <2> QED BY <2>2, <2>3 DEF y
<1>4. Len(y) = Len(m) + 1
  <2>1. Len(m \o mark) = Len(m) + Len(mark)
    BY <1>1, ConcatProperties
  <2> QED BY <2>1 DEF y
<1>5. i = Len(y) - Off(q)
  BY <1>1, <1>4 DEF i
<1>6. finish_at(d, i, at) = Cut(Measured(y \o Zeros(Gap(i, at)), d.length))
  <2>1. d.length \in Nat
    BY <1>1, <1>3
  <2> QED BY <1>3, <1>5, <2>1, Finished
<1>7. d.length = Len(m)
  BY <1>3
<1> QED BY <1>6, <1>7 DEF Comes, d, y, i

\* rhash_md5_final fills the word first.
LEMMA WordsFinished ==
    ASSUME NEW W, Int \subseteq W, NEW c, NEW m, Holds(c, W, m)
    PROVE  \E q \in Nat, r \in 0..(Block - 1) :
             Len(m) = Off(q) + r /\ rhash_md5_final(c) = Comes(m, <<128>>, LengthAt, r)
<1>1. PICK q \in Nat, r \in 0..(Block - 1) :
             /\ Took(c, W, m, q) /\ Len(m) = Off(q) + r /\ r = Len(m) - Off(q)
             /\ c.length = Len(m) /\ c.length % Block = r /\ m \in Seq(W)
  BY Buffered
<1> DEFINE mark == <<128>>
           fill == Word - 1 - (r % Word)
           z == Zeros(fill)
           x == mark \o z
           d == Put(c, r, x)
           y == m \o x
           i == r + 1 + fill
           g == Gap(i, LengthAt)
<1>2. /\ fill \in Nat /\ i <= Block /\ fill + g = Gap(r + 1, LengthAt)
  BY WordFill
<1>3. mark \in Seq(W) /\ Len(mark) = 1
  OBVIOUS
<1>4. rhash_md5_final(c) = finish_at(d, i, LengthAt)
  BY <1>1 DEF rhash_md5_final
<1>5. /\ Block \in Nat /\ LengthAt \in Nat /\ LengthAt <= LengthAt /\ LengthAt < Block
      /\ 0 \in W /\ r \in Nat /\ Off(q) \in Nat /\ Len(m) \in Nat
  BY <1>1, DigestAssumption, Offset
<1> HIDE DEF fill, mark
<1>6. z \in Seq(W) /\ Len(z) = fill
  BY <1>2, <1>5, ZerosAre
<1> HIDE DEF z
<1>7. x \in Seq(W) /\ Len(x) = 1 + fill
  <2>1. mark \in Seq(W)
    BY <1>3
  <2>2. z \in Seq(W)
    BY <1>6
  <2>3. x \in Seq(W)
    BY <2>1, <2>2, ConcatProperties
  <2>4. Len(x) = Len(mark) + Len(z)
    BY <2>1, <2>2, ConcatProperties
  <2> QED BY <1>3, <1>6, <2>3, <2>4
<1> HIDE DEF x, d, y
<1>8. r + Len(x) <= Block
  BY <1>2, <1>5, <1>7
<1>9. Took(d, W, y, q) /\ d.length = c.length
  <2>1. x \in Seq(W)
    BY <1>7
  <2>2. Took(c, W, m, q)
    BY <1>1
  <2>3. r = Len(m) - Off(q)
    BY <1>1
  <2>4. Took(d, W, m \o x, q)
    BY <1>8, <2>1, <2>2, <2>3, Filling DEF d
  <2>5. d.length = c.length
    BY <1>8, <2>1, <2>2, <2>3, Filling DEF d
  <2> QED BY <2>4, <2>5 DEF y
<1>10. Len(y) = Len(m) + Len(x)
  BY <1>1, <1>7, ConcatProperties DEF y
<1>11. i = Len(y) - Off(q) /\ i \in Nat
  <2> DEFINE o == Off(q)
             l == Len(m)
  <2>1. l \in Nat /\ o \in Nat /\ l = o + r /\ Len(y) = l + (1 + fill) /\ r \in Nat
    BY <1>1, <1>5, <1>7, <1>10
  <2> HIDE DEF o, l
  <2>2. r + 1 + fill = Len(y) - o /\ r + 1 + fill \in Nat
    BY <1>2, <2>1
  <2> QED BY <2>2 DEF o
<1>12. g \in Nat
  <2> HIDE DEF i
  <2> QED BY <1>2, <1>5, <1>11, SMTT(30) DEF Gap
<1> HIDE DEF i
<1>13. finish_at(d, i, LengthAt) = Cut(Measured(y \o Zeros(g), d.length))
  <2>1. d.length \in Nat
    BY <1>1, <1>5, <1>9
  <2> QED BY <1>5, <1>9, <1>11, <2>1, Finished
<1> DEFINE u == Zeros(g)
           both == Zeros(fill + g)
<1> HIDE DEF g
<1>14. u \in Seq(W)
  BY <1>5, <1>12, ZerosAre
<1>15. z \o u = both
  BY <1>2, <1>12, ZerosAdd DEF z
<1> HIDE DEF u
<1>16. y \o u = (m \o mark) \o both
  <2>1. m \in Seq(W) /\ mark \in Seq(W)
    BY <1>1, <1>3
  <2>2. (m \o x) \o u = m \o (x \o u)
    <3>1. x \in Seq(W)
      BY <1>7
    <3>2. m \in Seq(W)
      BY <2>1
    <3>3. u \in Seq(W)
      BY <1>14
    <3> QED BY <3>1, <3>2, <3>3, ConcatAssociative, SMTT(30)
  <2>3. (mark \o z) \o u = mark \o (z \o u)
    <3>1. mark \in Seq(W)
      BY <2>1
    <3>2. z \in Seq(W)
      BY <1>6
    <3>3. u \in Seq(W)
      BY <1>14
    <3> QED BY <3>1, <3>2, <3>3, ConcatAssociative
  <2>4. both \in Seq(W)
    <3>1. fill + g \in Nat
      BY <1>2, <1>12
    <3> QED BY <1>5, <3>1, ZerosAre
  <2> HIDE DEF both
  <2>5. (m \o mark) \o both = m \o (mark \o both)
    BY <2>1, <2>4, ConcatAssociative
  <2> QED BY <1>15, <2>2, <2>3, <2>5 DEF y, x
<1>17. both = Zeros(Gap(r + 1, LengthAt))
  BY <1>2
<1>18. rhash_md5_final(c) = Comes(m, mark, LengthAt, r)
  BY <1>1, <1>4, <1>9, <1>13, <1>16, <1>17 DEF Comes, u
<1> QED BY <1>1, <1>18 DEF mark

\* MD5Final takes the padding and the length as a message.
LEMMA MD5Finished ==
    ASSUME NEW W, Int \subseteq W, NEW c, NEW m, Holds(c, W, m)
    PROVE  \E q \in Nat, r \in 0..(Block - 1) :
             Len(m) = Off(q) + r /\ MD5Final(c) = Comes(m, <<128>>, LengthAt, r)
<1>1. PICK q \in Nat, r \in 0..(Block - 1) :
             /\ Took(c, W, m, q) /\ Len(m) = Off(q) + r /\ r = Len(m) - Off(q)
             /\ c.length = Len(m) /\ c.length % Block = r /\ m \in Seq(W)
  BY Buffered
<1> DEFINE mark == <<128>>
           g == Gap(r + 1, LengthAt)
           l == c.length
           padLen == IF r < LengthAt THEN LengthAt - r ELSE Block + LengthAt - r
           z == Zeros(g)
           x == mark \o z
           t == Measure(l)
           padded == MD5Update(c, x)
           d == MD5Update(padded, t)
<1>2. /\ Block \in Nat /\ LengthAt \in Nat /\ LengthAt < Block
      /\ 0 \in W /\ r \in Nat /\ Off(q) \in Nat /\ Len(m) \in Nat /\ l \in Nat /\ r < Block
  <2>1. Block \in Nat /\ LengthAt \in Nat /\ LengthAt < Block
    BY DigestAssumption
  <2>2. Len(m) \in Nat /\ l = Len(m)
    <3>1. m \in Seq(W)
      BY <1>1
    <3>2. l = Len(m)
      BY <1>1
    <3> QED BY <3>1, <3>2
  <2>3. Off(q) \in Nat
    BY Offset
  <2> QED BY <2>1, <2>2, <2>3
<1>3. padLen - 1 = g /\ g \in Nat
  BY <1>2 DEF Gap
<1>4. MD5Final(c) = d.hash
  <2>1. MD5Final(c) = MD5Update(MD5Update(c, mark \o Zeros(padLen - 1)), Measure(l)).hash
    BY <1>1 DEF MD5Final, Measure
  <2> HIDE DEF padLen, g
  <2> QED BY <1>3, <2>1
<1>5. mark \in Seq(W) /\ Len(mark) = 1
  OBVIOUS
<1> HIDE DEF g, padLen, mark
<1>6. z \in Seq(W) /\ Len(z) = g
  BY <1>2, <1>3, ZerosAre
<1> HIDE DEF z
<1>7. x \in Seq(W) /\ Len(x) = 1 + g
  <2>1. mark \in Seq(W)
    BY <1>5
  <2>2. z \in Seq(W)
    BY <1>6
  <2>3. x \in Seq(W)
    BY <2>1, <2>2, ConcatProperties
  <2>4. Len(x) = Len(mark) + Len(z)
    BY <2>1, <2>2, ConcatProperties
  <2> QED BY <1>5, <1>6, <2>3, <2>4
<1>8. t \in Seq(W) /\ Len(t) = Block - LengthAt
  <2> HIDE DEF l
  <2> QED BY <1>2, MeasureIs
<1> HIDE DEF x, t
<1> DEFINE y == m \o x
<1>9. Holds(padded, W, y)
  BY <1>7, MD5Takes
<1>10. y \in Seq(W) /\ Len(y) = Len(m) + (1 + g)
  <2>1. m \o x \in Seq(W) /\ Len(m \o x) = Len(m) + Len(x)
    BY <1>1, <1>7, ConcatProperties
  <2> QED BY <1>7, <2>1
<1> HIDE DEF y, padded
<1> DEFINE w == y \o t
<1>11. Holds(d, W, w)
  BY <1>8, <1>9, MD5Takes
<1>12. Len(w) = Len(y) + Len(t)
  BY <1>8, <1>10, ConcatProperties
<1> HIDE DEF w, d
<1>13. \E p \in Nat : Len(w) = Off(p)
  <2>1. /\ q + 1 \in Nat /\ (q + 1) + 1 \in Nat /\ Off(q + 1) = Off(q) + Block
        /\ Off((q + 1) + 1) = Off(q + 1) + Block
    BY Offset
  <2> DEFINE o == Off(q)
             lm == Len(m)
             lw == Len(w)
  <2>2. o \in Nat /\ lm = o + r
    BY <1>1, <1>2
  <2>3. lw = (lm + (1 + g)) + (Block - LengthAt)
    BY <1>8, <1>10, <1>12
  <2>4. g = IF r + 1 <= LengthAt THEN LengthAt - (r + 1) ELSE Block + LengthAt - (r + 1)
    BY DEF g, Gap
  <2> HIDE DEF o, lm, lw
  <2>5. lw = IF r + 1 <= LengthAt THEN o + Block ELSE (o + Block) + Block
    BY <1>2, <2>2, <2>3, <2>4
  <2>6. lw = IF r + 1 <= LengthAt THEN Off(q + 1) ELSE Off((q + 1) + 1)
    BY <2>1, <2>5 DEF o
  <2> QED BY <2>1, <2>6 DEF lw
<1>14. PICK p \in Nat : Len(w) = Off(p)
  BY <1>13
<1>15. PICK k \in Nat : Took(d, W, w, k) /\ Len(w) < Off(k) + Block
  BY <1>11 DEF Holds, Rests
<1>16. Len(w) = Off(k)
  <2>1. Off(k) \in Nat /\ Off(p) \in Nat /\ Off(k) <= Off(p) /\ Off(p) < Off(k) + Block
    BY <1>14, <1>15, Offset, TookSizes
  <2> DEFINE s == Off(p) - Off(k)
  <2>2. s \in 0..(Block - 1) /\ Off(p) = Off(k) + s
    BY <1>2, <2>1
  <2>3. 0 \in 0..(Block - 1) /\ Off(p) = Off(p) + 0
    BY <1>2, <2>1
  <2> HIDE DEF s
  <2>4. Off(p) \div Block = k
    BY <2>2, DividedBy
  <2>5. Off(p) \div Block = p
    BY <2>3, DividedBy
  <2> QED BY <1>14, <2>4, <2>5
<1>17. d.hash = Cut(w)
  BY <1>15, <1>16, AllCompressed
<1>18. y = (m \o mark) \o z
  <2>1. m \in Seq(W) /\ mark \in Seq(W) /\ z \in Seq(W)
    BY <1>1, <1>5, <1>6
  <2>2. (m \o mark) \o z = m \o (mark \o z)
    BY <2>1, ConcatAssociative
  <2> QED BY <2>2 DEF y, x
<1>19. d.hash = Comes(m, mark, LengthAt, r)
  BY <1>1, <1>17, <1>18 DEF Comes, Measured, w, t, z, g
<1> QED BY <1>1, <1>4, <1>19 DEF mark

\* A new context holds the empty message, whatever its buffer is.
LEMMA NewContext ==
    ASSUME NEW W, Int \subseteq W
    PROVE  Holds(Init_ctx, W, <<>>)
<1> DEFINE T == [1..Block -> W]
           none == <<>>
           c == Init_ctx
<1>1. Off(0) = 0 /\ Block \in Nat /\ Block > 0
  BY BlockSize DEF Off
<1>2. none \in Seq(T) /\ none \in Seq(W) /\ Len(none) = 0
  OBVIOUS
<1>3. c.length = 0 /\ c.hash = none /\ c \in Contexts(W)
  <2>1. Init_ctx.message \in T
    <3>1. -1 \in W
      OBVIOUS
    <3> QED BY <3>1 DEF Init_ctx
  <2>2. c = [length |-> 0, message |-> c.message, hash |-> none] /\ c.hash = none /\ c.length = 0
    BY DEF Init_ctx
  <2> HIDE DEF c, none, T
  <2>3. [length |-> 0, message |-> c.message, hash |-> none] \in [length : Nat, message : T, hash : Seq(T)]
    BY <1>2, <2>1 DEF c
  <2> QED BY <2>2, <2>3 DEF Contexts, T
<1> HIDE DEF none, c
<1>4. Took(c, W, none, 0)
  <2>1. 1..0 = {} /\ 1..(Len(none) - Off(0)) = {}
    BY <1>1, <1>2
  <2> QED BY <1>1, <1>2, <1>3, <2>1 DEF Took
<1>5. Len(none) < Off(0) + Block /\ 0 \in Nat
  BY <1>1, <1>2
<1>6. Holds(c, W, none)
  BY <1>2, <1>3, <1>4, <1>5 DEF Holds, Rests
<1> QED BY <1>6 DEF c, none

\* Each of the six updates takes a chunk.
LEMMA Taken ==
    ASSUME NEW W, NEW c, NEW m, Holds(c, W, m), NEW x \in Seq(W), NEW aligned,
           NEW alg \in Algorithms
    PROVE  Holds(Update(alg, c, x, aligned), W, m \o x)
<1> DEFINE d == MD5Update(c, x)
           e == rhash_md5_update(c, x, aligned)
<1>1. Update(alg, c, x, aligned) = d \/ Update(alg, c, x, aligned) = e
  BY DEF Update, Algorithms, rhash_sha1_update, ampheck_ripemd128_update, rhash_tiger_update,
         rhash_whirlpool_update
<1>2. Holds(d, W, m \o x)
  BY MD5Takes
<1>3. Holds(e, W, m \o x)
  BY RhashTakes
<1> QED BY <1>1, <1>2, <1>3

\* Each of the six finals comes to the reference.
LEMMA Finals ==
    ASSUME NEW W, Int \subseteq W, NEW c, NEW m, Holds(c, W, m), NEW alg \in Algorithms
    PROVE  Final(alg, c) = Blocks(alg, m)
<1> DEFINE Goal(q, r) == Final(alg, c) = Comes(m, Mark(alg), LengthPlace(alg), r)
<1>1. m \in Seq(W)
  BY DEF Holds, Rests, Took
<1>2. ASSUME NEW q \in Nat, NEW r \in 0..(Block - 1), Len(m) = Off(q) + r, Goal(q, r)
      PROVE  Final(alg, c) = Blocks(alg, m)
  <2>1. Blocks(alg, m) = Comes(m, Mark(alg), LengthPlace(alg), r)
    BY <1>1, <1>2, Reference DEF Comes
  <2> QED BY <1>2, <2>1
<1>3. CASE alg = "md5"
  <2>1. Final(alg, c) = MD5Final(c) /\ Mark(alg) = <<128>> /\ LengthPlace(alg) = LengthAt
    BY <1>3 DEF Final, Mark, LengthPlace
  <2> HIDE DEF Goal
  <2>2. PICK q \in Nat, r \in 0..(Block - 1) :
          Len(m) = Off(q) + r /\ MD5Final(c) = Comes(m, <<128>>, LengthAt, r)
    BY MD5Finished
  <2>3. Goal(q, r)
    BY <2>1, <2>2 DEF Goal
  <2> QED BY <1>2, <2>2, <2>3
<1>4. CASE alg \in {"rjmd5", "sha1"}
  <2>1. Final(alg, c) = rhash_md5_final(c) /\ Mark(alg) = <<128>> /\ LengthPlace(alg) = LengthAt
    BY <1>4 DEF Final, Mark, LengthPlace, rhash_sha1_final
  <2> HIDE DEF Goal
  <2>2. PICK q \in Nat, r \in 0..(Block - 1) :
          Len(m) = Off(q) + r /\ rhash_md5_final(c) = Comes(m, <<128>>, LengthAt, r)
    BY WordsFinished
  <2>3. Goal(q, r)
    BY <2>1, <2>2 DEF Goal
  <2> QED BY <1>2, <2>2, <2>3
<1>5. CASE alg \in {"tiger", "whirlpool", "ripemd128"}
  <2> DEFINE at == LengthPlace(alg)
             mark == Mark(alg)
             index == c.length % Block
  <2>1. Final(alg, c) = finish_at(Put(c, index, mark), index + 1, at)
    BY <1>5 DEF Final, Mark, LengthPlace, rhash_tiger_final, rhash_whirlpool_final,
               ampheck_ripemd128_finish
  <2>2. at \in Nat /\ at <= LengthAt
    BY DigestAssumption DEF LengthPlace
  <2>3. mark \in Seq(W) /\ Len(mark) = 1
    BY MarkIs
  <2>4. PICK q \in Nat, r \in 0..(Block - 1) :
             /\ Took(c, W, m, q) /\ Len(m) = Off(q) + r /\ r = Len(m) - Off(q)
             /\ c.length = Len(m) /\ c.length % Block = r /\ m \in Seq(W)
    BY Buffered
  <2> HIDE DEF at, mark, Goal
  <2>5. finish_at(Put(c, r, mark), r + 1, at) = Comes(m, mark, at, r)
    <3>1. Took(c, W, m, q)
      BY <2>4
    <3>2. r = Len(m) - Off(q)
      BY <2>4
    <3>3. c.length = Len(m)
      BY <2>4
    <3> QED BY <2>2, <2>3, <3>1, <3>2, <3>3, MarkedAndFinished
  <2>6. Goal(q, r)
    BY <2>1, <2>4, <2>5 DEF Goal, at, mark
  <2> QED BY <1>2, <2>4, <2>6
<1> QED BY <1>3, <1>4, <1>5 DEF Algorithms

\* A digest is that of the whole message, wherever it is cut.
LEMMA DigestIs ==
    ASSUME NEW U, NEW msg \in Seq(U), NEW alg \in Algorithms, NEW cut \in 0..Len(msg),
           NEW aligned
    PROVE  DigestOf(alg, msg, cut, aligned)
<1> DEFINE W == U \cup Int
           a == SubSeq(msg, 1, cut)
           b == SubSeq(msg, cut + 1, Len(msg))
           none == <<>>
           c1 == Update(alg, Init_ctx, a, aligned)
           c2 == Update(alg, c1, b, aligned)
<1>1. msg \in Seq(W) /\ Int \subseteq W
  OBVIOUS
<1> HIDE DEF W
<1>2. a \in Seq(W) /\ b \in Seq(W) /\ a \o b = msg
  BY <1>1, Halved
<1> HIDE DEF a, b
<1>3. Holds(Init_ctx, W, none)
  BY <1>1, NewContext
<1>4. none \o a = a
  BY <1>2, ConcatEmptySeq
<1> HIDE DEF none, c1
<1>5. Holds(c1, W, none \o a)
  BY <1>2, <1>3, Taken DEF c1
<1> HIDE DEF c2
<1>6. Holds(c2, W, a \o b)
  BY <1>2, <1>4, <1>5, Taken DEF c2
<1>7. Final(alg, c2) = Blocks(alg, msg)
  BY <1>1, <1>2, <1>6, Finals
<1> QED BY <1>7 DEF DigestOf, c2, c1, a, b

\* A text of any length is combined byte by byte.
LEMMA PasswordCombined ==
    ASSUME NEW U, NEW V, NEW md5 \in Seq(U), Len(md5) = 16, NEW username \in Seq(U),
           NEW password \in Seq(V), Len(username) + 16 <= 40, Len(password) <= 39
    PROVE  PwdHolds(md5, username, password)
<1> DEFINE hashed == username \o md5
           cleared == [i \in 1..40 |-> CASE i <= 16 -> 0
                                         [] i \in 17..Len(hashed) -> hashed[i]
                                         [] OTHER -> -1]
           tmp == [i \in 1..40 |-> CASE i <= Len(password) -> password[i]
                                     [] i = Len(password) + 1 -> 0
                                     [] OTHER -> cleared[i]]
<1>1. computePwd(md5, username, password) = [i \in 1..16 |-> <<<<"md5", hashed, i>>, tmp[i]>>]
  BY DEF computePwd
<1>2. ASSUME NEW i \in 1..16
      PROVE  tmp[i] = IF i <= Len(password) THEN password[i] ELSE 0
  <2>1. Len(password) \in Nat /\ i \in 1..40 /\ i <= 16 /\ ~(i \in 17..Len(hashed))
    OBVIOUS
  <2>2. cleared[i] = 0
    BY <2>1
  <2> HIDE DEF cleared
  <2>3. tmp[i] = CASE i <= Len(password) -> password[i]
                   [] i = Len(password) + 1 -> 0
                   [] OTHER -> cleared[i]
    BY <2>1
  <2> HIDE DEF tmp
  <2> QED BY <2>1, <2>2, <2>3
<1> HIDE DEF hashed, tmp
<1>3. [i \in 1..16 |-> <<<<"md5", hashed, i>>, tmp[i]>>]
        = [i \in 1..16 |-> <<<<"md5", hashed, i>>,
                              IF i <= Len(password) THEN password[i] ELSE 0>>]
  BY <1>2
<1> QED BY <1>1, <1>3 DEF PwdHolds, hashed
-----------------------------------------------------------------------------
(* The answer to a challenge                                                   *)

\* A text of one or more digits for each of n bytes.
Texted(x, c, n, U, g) ==
    /\ FlattenSeq([i \in 1..n |-> Digits(x[i], c[i])]) = g[n]
    /\ g[n] \in Seq(U)
    /\ Len(g[0]) = 0 /\ ToSet(g[0]) = {}
    /\ \A i \in 1..n : Len(g[i]) = Len(g[i - 1]) + c[i]
    /\ \A i \in 0..n : Len(g[i]) \in Nat
    /\ \A i \in 1..n : ToSet(g[i]) = ToSet(g[i - 1]) \cup {x[i]}

LEMMA TextOf ==
    ASSUME NEW U, NEW n \in Nat, n > 0, NEW x, NEW c,
           \A i \in 1..n : x[i] \in U, \A i \in 1..n : c[i] \in Nat \ {0}
    PROVE  \E g : Texted(x, c, n, U, g)
<1> DEFINE lists == [i \in 1..n |-> Digits(x[i], c[i])]
           T == Seq(U)
<1>1. \A i \in 1..n : lists[i] \in T /\ Len(lists[i]) = c[i] /\ ToSet(lists[i]) = {x[i]}
  <2> SUFFICES ASSUME NEW i \in 1..n
               PROVE  lists[i] \in T /\ Len(lists[i]) = c[i] /\ ToSet(lists[i]) = {x[i]}
    OBVIOUS
  <2> DEFINE b == x[i]
             k == c[i]
             d == Digits(b, k)
  <2>1. lists[i] = d /\ b \in U /\ k \in Nat /\ k # 0
    OBVIOUS
  <2> HIDE DEF b, k, lists
  <2>2. d \in Seq(U) /\ Len(d) = k /\ DOMAIN d = 1..k /\ \A j \in 1..k : d[j] = b
    BY <2>1 DEF Digits
  <2>3. 1 \in 1..k
    BY <2>1
  <2> HIDE DEF d
  <2>4. ToSet(d) = {b}
    BY <2>2, <2>3 DEF ToSet
  <2> QED BY <2>1, <2>2, <2>4 DEF b, k
<1>2. lists = [i \in 1..n |-> lists[i]]
  OBVIOUS
<1>3. FlattenSeq(lists) = FlattenSeq([i \in 1..n |-> Digits(x[i], c[i])])
  OBVIOUS
<1> HIDE DEF lists
<1>4. lists \in Seq(Seq(U)) /\ Len(lists) = n
  <2>1. lists \in Seq(T)
    <3>1. \A i \in 1..n : lists[i] \in T
      BY <1>1
    <3> HIDE DEF T
    <3> QED BY <1>2, <3>1, IsList
  <2>2. Len(lists) = n
    BY <1>2
  <2> QED BY <2>1, <2>2
<1>5. PICK g : Flattened(lists, Seq(U), g)
  BY <1>4, Flattening
<1>6. /\ g[0] = <<>>
      /\ \A i \in 0..n : g[i] \in T
      /\ \A i \in 1..n : g[i] = g[i - 1] \o lists[i]
      /\ FlattenSeq(lists) = g[n]
  BY <1>4, <1>5 DEF Flattened
<1>7. Len(g[0]) = 0 /\ ToSet(g[0]) = {}
  BY <1>6 DEF ToSet
<1>8. ASSUME NEW i \in 1..n
      PROVE  Len(g[i]) = Len(g[i - 1]) + c[i] /\ ToSet(g[i]) = ToSet(g[i - 1]) \cup {x[i]}
  <2> DEFINE p == g[i - 1]
             l == lists[i]
  <2>1. p \in Seq(U) /\ l \in Seq(U) /\ g[i] = p \o l
    <3>1. i - 1 \in 0..n
      OBVIOUS
    <3> QED BY <1>1, <1>6, <3>1
  <2>2. Len(l) = c[i] /\ ToSet(l) = {x[i]}
    BY <1>1
  <2> HIDE DEF p, l
  <2>3. Len(p \o l) = Len(p) + Len(l)
    BY <2>1, ConcatProperties
  <2>4. ToSet(p \o l) = ToSet(p) \cup ToSet(l)
    BY <2>1, SetOfConcat
  <2> QED BY <2>1, <2>2, <2>3, <2>4 DEF p
<1>9. g[n] \in Seq(U)
  <2>1. n \in 0..n
    OBVIOUS
  <2> QED BY <1>6, <2>1
<1>10. \A i \in 0..n : Len(g[i]) \in Nat
  BY <1>6
<1>11. FlattenSeq([i \in 1..n |-> Digits(x[i], c[i])]) = g[n]
  BY <1>6, <1>3
<1>12. \A i \in 1..n : Len(g[i]) = Len(g[i - 1]) + c[i]
  BY <1>8
<1>13. \A i \in 1..n : ToSet(g[i]) = ToSet(g[i - 1]) \cup {x[i]}
  BY <1>8
<1>14. Texted(x, c, n, U, g)
  BY <1>7, <1>9, <1>10, <1>11, <1>12, <1>13 DEF Texted
<1> QED BY <1>14

\* The digest in hexadecimal.
Sixteen(b, x, U) == b = [i \in 1..16 |-> x[i]] /\ \A i \in 1..16 : x[i] \in U
HexText(x, text, U) == text \in Seq(U) /\ Len(text) = 32 /\ ToSet(text) = {x[i] : i \in 1..16}

LEMMA DigestText ==
    ASSUME NEW U, NEW x, NEW b, Sixteen(b, x, U)
    PROVE  HexText(x, digest_text(b), U)
<1>1. b = [i \in 1..16 |-> x[i]] /\ \A i \in 1..16 : x[i] \in U
  BY DEF Sixteen
<1> DEFINE c == [i \in 1..16 |-> 2]
           lists == [i \in 1..16 |-> Digits(x[i], c[i])]
<1>2. \A i \in 1..16 : c[i] \in Nat \ {0} /\ c[i] = 2
  OBVIOUS
<1>3. digest_text(b) = FlattenSeq(lists)
  <2>1. DOMAIN b = 1..16 /\ \A i \in 1..16 : b[i] = x[i] /\ c[i] = 2
    BY <1>1
  <2> HIDE DEF c
  <2>2. [i \in DOMAIN b |-> Digits(b[i], 2)] = lists
    BY <2>1
  <2> QED BY <2>2 DEF digest_text
<1> HIDE DEF c
<1>4. \A i \in 1..16 : x[i] \in U
  BY <1>1
<1>5. PICK g : Texted(x, c, 16, U, g)
  <2>1. 16 \in Nat /\ 16 > 0
    OBVIOUS
  <2> QED BY <1>2, <1>4, <2>1, TextOf
<1>6. /\ FlattenSeq(lists) = g[16] /\ g[16] \in Seq(U)
      /\ Len(g[0]) = 0 /\ ToSet(g[0]) = {}
      /\ \A i \in 1..16 : Len(g[i]) = Len(g[i - 1]) + 2
      /\ \A i \in 1..16 : ToSet(g[i]) = ToSet(g[i - 1]) \cup {x[i]}
  BY <1>2, <1>5 DEF Texted
<1> HIDE DEF lists
<1> DEFINE N(k) == Len(g[k])
           M(k) == ToSet(g[k])
           A(k) == {x[i] : i \in 1..k}
<1>7. N(0) = 0 /\ \A k \in 1..16 : N(k) = N(k - 1) + 2
  BY <1>6
<1>8. M(0) = {} /\ \A k \in 1..16 : M(k) = M(k - 1) \cup {x[k]}
  BY <1>6
<1>9. A(0) = {}
  OBVIOUS
<1>10. \A k \in 1..16 : A(k) = A(k - 1) \cup {x[k]}
  <2> SUFFICES ASSUME NEW k \in 1..16 PROVE A(k) = A(k - 1) \cup {x[k]}
    OBVIOUS
  <2>1. 1..k = 1..(k - 1) \cup {k}
    OBVIOUS
  <2> QED BY <2>1
<1> HIDE DEF N, M, A
<1> DEFINE K == {k \in 0..16 : N(k) = 2 * k /\ M(k) = A(k)}
<1>11. 0 \in K
  BY <1>7, <1>8, <1>9
<1>12. ASSUME NEW k \in 1..16, k - 1 \in K PROVE k \in K
  <2>1. N(k - 1) = 2 * (k - 1) /\ M(k - 1) = A(k - 1)
    BY <1>12
  <2>2. N(k) = 2 * k
    BY <1>7, <2>1
  <2>3. M(k) = A(k)
    BY <1>8, <1>10, <2>1
  <2> QED BY <2>2, <2>3
<1>13. 16 \in K
  <2>1. \A k \in 1..16 : k - 1 \in K => k \in K
    BY <1>12
  <2>2. 16 \in Nat /\ 16 \in 0..16
    OBVIOUS
  <2> HIDE DEF K
  <2> QED BY <1>11, <2>1, <2>2, Induct
<1>14. Len(g[16]) = 32 /\ ToSet(g[16]) = {x[i] : i \in 1..16}
  BY <1>13 DEF N, M, A
<1> QED BY <1>3, <1>6, <1>14 DEF HexText

\* The bytes of a text, each named by what it comes from.
Origins == {Seed(i) : i \in 1..16}
           \cup {<<alg, table, i>> :
                    alg \in DOMAIN Size, table \in {"array", "array_1"}, i \in 1..24}
OfSeed(b) == b[1] = "seed"

LEMMA SeedOrigin ==
    ASSUME NEW i \in 1..16
    PROVE  Seed(i) \in Origins /\ OfSeed(Seed(i))
BY DEF Origins, OfSeed, Seed

LEMMA DigestOrigin ==
    ASSUME NEW alg \in {"md5", "sha1", "ripemd128", "tiger"}, NEW table \in {"array", "array_1"}
    PROVE  LET d == Digest(alg, table)
           IN  /\ d \in Seq(Origins)
               /\ Len(d) = CASE alg = "md5" -> 16 [] alg = "sha1" -> 20
                             [] alg = "ripemd128" -> 16 [] alg = "tiger" -> 24
               /\ \A i \in 1..Len(d) : ~OfSeed(d[i])
<1> DEFINE n == Size[alg]
           d == Digest(alg, table)
<1>1. /\ n \in 1..24
      /\ n = CASE alg = "md5" -> 16 [] alg = "sha1" -> 20
               [] alg = "ripemd128" -> 16 [] alg = "tiger" -> 24
  BY DEF Size
<1>2. alg \in DOMAIN Size
  BY DEF Size
<1>3. d = [i \in 1..n |-> <<alg, table, i>>]
  BY DEF Digest
<1> HIDE DEF n, d
<1>4. /\ d = [i \in 1..n |-> d[i]] /\ Len(d) = n
      /\ \A i \in 1..n : d[i] = <<alg, table, i>>
  BY <1>1, <1>3
<1>5. \A i \in 1..n : d[i] \in Origins /\ ~OfSeed(d[i])
  <2> SUFFICES ASSUME NEW i \in 1..n PROVE d[i] \in Origins /\ ~OfSeed(d[i])
    OBVIOUS
  <2>1. i \in 1..24
    BY <1>1
  <2>2. <<alg, table, i>> \in Origins
    BY <1>2, <2>1 DEF Origins
  <2>3. <<alg, table, i>>[1] = alg /\ alg # "seed"
    OBVIOUS
  <2> QED BY <1>4, <2>2, <2>3 DEF OfSeed
<1>6. d \in Seq(Origins)
  BY <1>1, <1>4, <1>5, IsList
<1> QED BY <1>1, <1>4, <1>5, <1>6 DEF d

LEMMA SeedPart ==
    ASSUME NEW from \in 1..16, NEW to \in 1..16, from <= to
    PROVE  LET p == SeedBytes(from, to)
           IN  /\ p \in Seq(Origins) /\ Len(p) = to - from + 1
               /\ \A i \in 1..Len(p) : p[i] = Seed(from + i - 1) /\ OfSeed(p[i])
<1> DEFINE p == SeedBytes(from, to)
           n == to - from + 1
<1>1. n \in Nat
  OBVIOUS
<1>2. p = [i \in 1..n |-> Seed(from + i - 1)]
  BY DEF SeedBytes
<1> HIDE DEF p
<1>3. p = [i \in 1..n |-> p[i]] /\ Len(p) = n /\ \A i \in 1..n : p[i] = Seed(from + i - 1)
  BY <1>1, <1>2
<1>4. \A i \in 1..n : p[i] \in Origins /\ OfSeed(p[i])
  <2> SUFFICES ASSUME NEW i \in 1..n PROVE p[i] \in Origins /\ OfSeed(p[i])
    OBVIOUS
  <2>1. from + i - 1 \in 1..16
    OBVIOUS
  <2> QED BY <1>3, <2>1, SeedOrigin
<1> HIDE DEF n
<1>5. p \in Seq(Origins)
  BY <1>1, <1>3, <1>4, IsList
<1> QED BY <1>3, <1>4, <1>5 DEF p, n

\* Two digests, each with a piece of the seed behind it.
FourParts(d, p, e, q) == ((d \o p) \o e) \o q

LEMMA WholeSeed ==
    ASSUME NEW d \in Seq(Origins), \A i \in 1..Len(d) : ~OfSeed(d[i]),
           NEW e \in Seq(Origins), \A i \in 1..Len(e) : ~OfSeed(e[i]),
           NEW cut \in 1..15, Len(d) + Len(e) <= 144
    PROVE  LET text == FourParts(d, SeedBytes(1, cut), e, SeedBytes(cut + 1, 16))
           IN  /\ Select(text, {b \in ToSet(text) : OfSeed(b)}) = SeedBytes(1, 16)
               /\ Len(text) <= 160
<1> DEFINE p == SeedBytes(1, cut)
           q == SeedBytes(cut + 1, 16)
           text == FourParts(d, p, e, q)
           dp == d \o p
           dpe == dp \o e
           S == {b \in ToSet(text) : OfSeed(b)}
           none == <<>>
           U == Origins
<1>1. /\ p \in Seq(U) /\ Len(p) = cut
      /\ \A i \in 1..cut : p[i] = Seed(i) /\ OfSeed(p[i])
  <2>1. 1 \in 1..16 /\ cut \in 1..16 /\ 1 <= cut /\ cut - 1 + 1 = cut
        /\ \A i \in 1..cut : 1 + i - 1 = i
    OBVIOUS
  <2>2. /\ p \in Seq(U) /\ Len(p) = cut - 1 + 1
        /\ \A i \in 1..Len(p) : p[i] = Seed(1 + i - 1) /\ OfSeed(p[i])
    BY <2>1, SeedPart
  <2> HIDE DEF p
  <2> QED BY <2>1, <2>2
<1>2. /\ q \in Seq(U) /\ Len(q) = 16 - cut
      /\ \A i \in 1..(16 - cut) : q[i] = Seed(cut + i) /\ OfSeed(q[i])
  <2> DEFINE from == cut + 1
  <2>1. from \in 1..16 /\ 16 \in 1..16 /\ from <= 16 /\ 16 - from + 1 = 16 - cut
        /\ \A i \in 1..(16 - cut) : from + i - 1 = cut + i
    OBVIOUS
  <2> HIDE DEF from
  <2>2. LET o == SeedBytes(from, 16)
        IN  /\ o \in Seq(U) /\ Len(o) = 16 - from + 1
            /\ \A i \in 1..Len(o) : o[i] = Seed(from + i - 1) /\ OfSeed(o[i])
    <3>1. from \in 1..16
      BY <2>1
    <3>2. 16 \in 1..16
      OBVIOUS
    <3>3. from <= 16
      BY <2>1
    <3> QED BY <3>1, <3>2, <3>3, SeedPart
  <2>3. q = SeedBytes(from, 16)
    BY DEF from
  <2> HIDE DEF q
  <2> QED BY <2>1, <2>2, <2>3
<1> HIDE DEF U, p, q
<1>3. d \in Seq(U) /\ e \in Seq(U)
  BY DEF U
<1>4. dp \in Seq(U) /\ Len(dp) = Len(d) + Len(p) /\ ToSet(dp) = ToSet(d) \cup ToSet(p)
  BY <1>1, <1>3, ConcatProperties, SetOfConcat
<1> HIDE DEF dp
<1>5. dpe \in Seq(U) /\ Len(dpe) = Len(dp) + Len(e) /\ ToSet(dpe) = ToSet(dp) \cup ToSet(e)
  <2>1. dp \in Seq(U)
    BY <1>4
  <2>2. e \in Seq(U)
    BY <1>3
  <2> QED BY <2>1, <2>2, ConcatProperties, SetOfConcat
<1>6. text = dpe \o q
  BY DEF FourParts, dp
<1> HIDE DEF dpe, text
<1>7. text \in Seq(U) /\ Len(text) = Len(dpe) + Len(q) /\ ToSet(text) = ToSet(dpe) \cup ToSet(q)
  BY <1>2, <1>5, <1>6, ConcatProperties, SetOfConcat
<1>8. Len(text) <= 160
  <2>1. Len(d) \in Nat /\ Len(e) \in Nat
    OBVIOUS
  <2> QED BY <1>1, <1>2, <1>4, <1>5, <1>7, <2>1
<1>9. Select(text, S) = ((Select(d, S) \o Select(p, S)) \o Select(e, S)) \o Select(q, S)
  <2> HIDE DEF S
  <2>1. Select(text, S) = Select(dpe, S) \o Select(q, S)
    <3>1. dpe \in Seq(U)
      BY <1>5
    <3>2. q \in Seq(U)
      BY <1>2
    <3>3. Select(dpe \o q, S) = Select(dpe, S) \o Select(q, S)
      BY <3>1, <3>2, SelectConcat
    <3> QED BY <1>6, <3>3
  <2>2. Select(dpe, S) = Select(dp, S) \o Select(e, S)
    BY <1>3, <1>4, SelectConcat DEF dpe
  <2>3. Select(dp, S) = Select(d, S) \o Select(p, S)
    BY <1>1, <1>3, SelectConcat DEF dp
  <2> QED BY <2>1, <2>2, <2>3
<1>10. Select(d, S) = none /\ Select(e, S) = none
  <2>1. \A i \in 1..Len(d) : d[i] \notin S
    OBVIOUS
  <2>2. \A i \in 1..Len(e) : e[i] \notin S
    OBVIOUS
  <2> HIDE DEF S
  <2> QED BY <1>3, <2>1, <2>2, SelectNone
<1>11. Select(p, S) = p /\ Select(q, S) = q
  <2>1. \A i \in 1..Len(p) : p[i] \in S
    <3>1. \A i \in 1..Len(p) : p[i] \in ToSet(p)
      BY <1>1 DEF ToSet
    <3> QED BY <1>1, <1>4, <1>5, <1>7, <3>1
  <2>2. \A i \in 1..Len(q) : q[i] \in S
    <3>1. \A i \in 1..Len(q) : q[i] \in ToSet(q)
      BY <1>2 DEF ToSet
    <3> QED BY <1>2, <1>7, <3>1
  <2> HIDE DEF S
  <2> QED BY <1>1, <1>2, <2>1, <2>2, SelectAll
<1> HIDE DEF none
<1>12. Select(text, S) = p \o q
  <2>1. none \o p = p /\ p \o none = p
    BY <1>1, ConcatEmptySeq DEF none
  <2> HIDE DEF S
  <2> QED BY <1>9, <1>10, <1>11, <2>1
<1>13. p \o q = SeedBytes(1, 16)
  <2> DEFINE o == SeedBytes(1, 16)
             pq == p \o q
  <2>1. o \in Seq(U) /\ Len(o) = 16 /\ \A i \in 1..16 : o[i] = Seed(i)
    <3>1. 1 \in 1..16 /\ 16 \in 1..16 /\ 1 <= 16 /\ 16 - 1 + 1 = 16
          /\ \A i \in 1..16 : 1 + i - 1 = i
      OBVIOUS
    <3>2. /\ o \in Seq(Origins) /\ Len(o) = 16 - 1 + 1
          /\ \A i \in 1..Len(o) : o[i] = Seed(1 + i - 1) /\ OfSeed(o[i])
      BY <3>1, SeedPart
    <3> HIDE DEF o
    <3> QED BY <3>1, <3>2 DEF U
  <2>2. /\ pq \in Seq(U) /\ Len(pq) = Len(p) + Len(q)
        /\ \A i \in 1..(Len(p) + Len(q)) : pq[i] = IF i <= Len(p) THEN p[i] ELSE q[i - Len(p)]
    <3>1. p \in Seq(U)
      BY <1>1
    <3>2. q \in Seq(U)
      BY <1>2
    <3> QED BY <3>1, <3>2, ConcatProperties
  <2> HIDE DEF o, pq
  <2>3. Len(pq) = 16 /\ \A i \in 1..16 : pq[i] = IF i <= cut THEN p[i] ELSE q[i - cut]
    <3>1. Len(p) + Len(q) = 16
      BY <1>1, <1>2
    <3> QED BY <1>1, <2>2, <3>1
  <2>4. \A i \in 1..16 : pq[i] = o[i]
    <3> SUFFICES ASSUME NEW i \in 1..16 PROVE pq[i] = o[i]
      OBVIOUS
    <3>1. IF i <= cut THEN i \in 1..cut ELSE i - cut \in 1..(16 - cut) /\ cut + (i - cut) = i
      OBVIOUS
    <3>2. CASE i <= cut
      <4>1. pq[i] = p[i]
        BY <2>3, <3>2
      <4>2. p[i] = Seed(i)
        BY <1>1, <3>1, <3>2
      <4> QED BY <2>1, <4>1, <4>2
    <3>3. CASE ~(i <= cut)
      <4> DEFINE j == i - cut
      <4>1. pq[i] = q[j]
        BY <2>3, <3>3
      <4>2. j \in 1..(16 - cut) /\ cut + j = i
        BY <3>1, <3>3
      <4> HIDE DEF j
      <4>3. q[j] = Seed(cut + j)
        BY <1>2, <4>2
      <4> QED BY <2>1, <4>1, <4>2, <4>3
    <3> QED BY <3>2, <3>3
  <2>5. pq = o
    <3>1. Len(pq) = Len(o) /\ \A i \in 1..Len(pq) : pq[i] = o[i]
      BY <2>1, <2>3, <2>4
    <3> QED BY <2>1, <2>2, <3>1, SeqEqual
  <2> QED BY <2>5 DEF pq, o
<1>14. Select(text, S) = SeedBytes(1, 16)
  BY <1>12, <1>13
<1> QED BY <1>8, <1>14 DEF text, p, q

Challenges == [1..16 -> 0..255]

\* 1 for a byte that as a char is negative, and how many there are.
Negative(s, i) == IF s[i] > 127 THEN 1 ELSE 0
NegativesUpTo(s, k) == Cardinality({i \in 1..k : s[i] > 127})

LEMMA CountNegatives ==
    ASSUME NEW s \in Challenges
    PROVE  /\ NegativesUpTo(s, 16) \in Nat
           /\ NegativesUpTo(s, 16)
                = Negative(s, 1) + Negative(s, 2) + Negative(s, 3) + Negative(s, 4)
                  + Negative(s, 5) + Negative(s, 6) + Negative(s, 7) + Negative(s, 8)
                  + Negative(s, 9) + Negative(s, 10) + Negative(s, 11) + Negative(s, 12)
                  + Negative(s, 13) + Negative(s, 14) + Negative(s, 15) + Negative(s, 16)
<1> DEFINE A(k) == {i \in 1..k : s[i] > 127}
           N(k) == NegativesUpTo(s, k)
           D(k) == Negative(s, k)
<1>1. \A k \in 0..16 : IsFiniteSet(A(k)) /\ N(k) \in Nat
  <2> SUFFICES ASSUME NEW k \in 0..16 PROVE IsFiniteSet(A(k)) /\ N(k) \in Nat
    OBVIOUS
  <2>1. 1 \in Int /\ k \in Int
    OBVIOUS
  <2>2. IsFiniteSet(1..k)
    BY <2>1, FS_Interval
  <2> DEFINE all == 1..k
             few == A(k)
  <2>3. few \in SUBSET all /\ IsFiniteSet(all)
    BY <2>2
  <2> HIDE DEF all, few
  <2>4. IsFiniteSet(few)
    BY <2>3, FS_Subset
  <2>5. Cardinality(few) \in Nat
    BY <2>4, FS_CardinalityType
  <2> QED BY <2>4, <2>5 DEF few, NegativesUpTo
<1>2. N(0) = 0
  <2>1. A(0) = {}
    OBVIOUS
  <2> QED BY <2>1, FS_EmptySet DEF NegativesUpTo
<1>3. \A k \in 1..16 : N(k) = N(k - 1) + D(k)
  <2> SUFFICES ASSUME NEW k \in 1..16 PROVE N(k) = N(k - 1) + D(k)
    OBVIOUS
  <2> DEFINE a == A(k - 1)
  <2>1. IsFiniteSet(a) /\ k \notin a
    <3>1. k - 1 \in 0..16 /\ k \notin 1..(k - 1)
      OBVIOUS
    <3>2. k \notin a
      BY <3>1
    <3>3. IsFiniteSet(A(k - 1))
      <4> HIDE DEF A, N
      <4> QED BY <1>1, <3>1
    <3> QED BY <3>2, <3>3
  <2>2. A(k) = IF s[k] > 127 THEN a \cup {k} ELSE a
    <3>1. 1..k = 1..(k - 1) \cup {k}
      OBVIOUS
    <3> QED BY <3>1
  <2>3. N(k - 1) = Cardinality(a) /\ N(k) = Cardinality(A(k))
    BY DEF NegativesUpTo
  <2>4. N(k - 1) \in Nat
    <3>1. k - 1 \in 0..16
      OBVIOUS
    <3> QED BY <1>1, <3>1
  <2> HIDE DEF a, A, N
  <2>5. Cardinality(a \cup {k}) = Cardinality(a) + 1
    BY <2>1, FS_AddElement
  <2> QED BY <2>2, <2>3, <2>4, <2>5 DEF Negative
<1>4. \A k \in 1..16 : D(k) \in {0, 1}
  BY DEF Negative
<1>5. N(16) \in Nat
  BY <1>1
<1> HIDE DEF N, D
<1>6. /\ N(1) = N(0) + D(1) /\ N(2) = N(1) + D(2) /\ N(3) = N(2) + D(3) /\ N(4) = N(3) + D(4)
      /\ N(5) = N(4) + D(5) /\ N(6) = N(5) + D(6) /\ N(7) = N(6) + D(7) /\ N(8) = N(7) + D(8)
      /\ N(9) = N(8) + D(9) /\ N(10) = N(9) + D(10) /\ N(11) = N(10) + D(11)
      /\ N(12) = N(11) + D(12) /\ N(13) = N(12) + D(13) /\ N(14) = N(13) + D(14)
      /\ N(15) = N(14) + D(15) /\ N(16) = N(15) + D(16)
  BY <1>3
<1>7. /\ D(1) \in {0, 1} /\ D(2) \in {0, 1} /\ D(3) \in {0, 1} /\ D(4) \in {0, 1}
      /\ D(5) \in {0, 1} /\ D(6) \in {0, 1} /\ D(7) \in {0, 1} /\ D(8) \in {0, 1}
      /\ D(9) \in {0, 1} /\ D(10) \in {0, 1} /\ D(11) \in {0, 1} /\ D(12) \in {0, 1}
      /\ D(13) \in {0, 1} /\ D(14) \in {0, 1} /\ D(15) \in {0, 1} /\ D(16) \in {0, 1}
  BY <1>4
<1>8. N(16) = D(1) + D(2) + D(3) + D(4) + D(5) + D(6) + D(7) + D(8) + D(9) + D(10) + D(11)
              + D(12) + D(13) + D(14) + D(15) + D(16)
  BY <1>2, <1>6, <1>7
<1> QED BY <1>5, <1>8 DEF N, D

\* The text of eight bytes of the seed.
LEMMA SeedText ==
    ASSUME NEW s \in Challenges, NEW places, places = [k \in 1..8 |-> places[k]],
           \A k \in 1..8 : places[k] \in 1..16
    PROVE  LET D(k) == Negative(s, places[k])
           IN  /\ seed_text(s, places) \in Seq(Origins)
               /\ Len(seed_text(s, places))
                    = 16 + 6 * (D(1) + D(2) + D(3) + D(4) + D(5) + D(6) + D(7) + D(8))
               /\ ToSet(seed_text(s, places)) = {Seed(places[k]) : k \in 1..8}
<1> DEFINE x == [k \in 1..8 |-> Seed(places[k])]
           D(k) == Negative(s, places[k])
           c == [k \in 1..8 |-> 2 + 6 * D(k)]
           lists == [k \in 1..8 |-> Digits(x[k], c[k])]
<1>1. \A k \in 1..8 : D(k) \in {0, 1} /\ c[k] = 2 + 6 * D(k) /\ c[k] \in Nat \ {0}
  BY DEF Negative
<1>2. seed_text(s, places) = FlattenSeq(lists)
  <2>1. DOMAIN places = 1..8
    OBVIOUS
  <2>2. ASSUME NEW k \in 1..8
        PROVE  /\ Seed(places[k]) = x[k]
               /\ (IF Signed(s[places[k]]) < 0 THEN 8 ELSE 2) = c[k]
    <3> DEFINE j == places[k]
    <3>3. j \in 1..16
      OBVIOUS
    <3> HIDE DEF j
    <3>4. s[j] \in 0..255
      BY <3>3 DEF Challenges
    <3>1. s[places[k]] \in 0..255
      BY <3>4 DEF j
    <3>2. Signed(s[places[k]]) < 0 <=> s[places[k]] > 127
      BY <3>1 DEF Signed
    <3> QED BY <3>2 DEF Negative
  <2> HIDE DEF x, c
  <2>3. [k \in DOMAIN places |->
            Digits(Seed(places[k]), IF Signed(s[places[k]]) < 0 THEN 8 ELSE 2)] = lists
    BY <2>1, <2>2
  <2> QED BY <2>3 DEF seed_text
<1>3. \A k \in 1..8 : x[k] \in Origins
  BY SeedOrigin
<1>4. {x[k] : k \in 1..8} = {Seed(places[k]) : k \in 1..8}
  OBVIOUS
<1> HIDE DEF c, x, D
<1>5. PICK g : Texted(x, c, 8, Origins, g)
  <2>1. 8 \in Nat /\ 8 > 0
    OBVIOUS
  <2> QED BY <1>1, <1>3, <2>1, TextOf
<1>6. /\ FlattenSeq(lists) = g[8] /\ g[8] \in Seq(Origins)
      /\ Len(g[0]) = 0 /\ ToSet(g[0]) = {}
  BY <1>5 DEF Texted
<1> DEFINE N(k) == Len(g[k])
           M(k) == ToSet(g[k])
<1>7. N(0) = 0 /\ \A k \in 1..8 : N(k) = N(k - 1) + c[k]
  BY <1>5 DEF Texted
<1>8. M(0) = {} /\ \A k \in 1..8 : M(k) = M(k - 1) \cup {x[k]}
  BY <1>5 DEF Texted
<1> HIDE DEF N, M, lists
<1>9. /\ N(1) = N(0) + c[1] /\ N(2) = N(1) + c[2] /\ N(3) = N(2) + c[3] /\ N(4) = N(3) + c[4]
      /\ N(5) = N(4) + c[5] /\ N(6) = N(5) + c[6] /\ N(7) = N(6) + c[7] /\ N(8) = N(7) + c[8]
  BY <1>7
<1>10. /\ c[1] = 2 + 6 * D(1) /\ c[2] = 2 + 6 * D(2) /\ c[3] = 2 + 6 * D(3) /\ c[4] = 2 + 6 * D(4)
       /\ c[5] = 2 + 6 * D(5) /\ c[6] = 2 + 6 * D(6) /\ c[7] = 2 + 6 * D(7) /\ c[8] = 2 + 6 * D(8)
       /\ D(1) \in {0, 1} /\ D(2) \in {0, 1} /\ D(3) \in {0, 1} /\ D(4) \in {0, 1}
       /\ D(5) \in {0, 1} /\ D(6) \in {0, 1} /\ D(7) \in {0, 1} /\ D(8) \in {0, 1}
  BY <1>1
<1>11. N(8) = 16 + 6 * (D(1) + D(2) + D(3) + D(4) + D(5) + D(6) + D(7) + D(8))
  BY <1>7, <1>9, <1>10
<1>12. /\ M(1) = M(0) \cup {x[1]} /\ M(2) = M(1) \cup {x[2]} /\ M(3) = M(2) \cup {x[3]}
       /\ M(4) = M(3) \cup {x[4]} /\ M(5) = M(4) \cup {x[5]} /\ M(6) = M(5) \cup {x[6]}
       /\ M(7) = M(6) \cup {x[7]} /\ M(8) = M(7) \cup {x[8]}
  BY <1>8
<1>13. M(8) = {x[k] : k \in 1..8}
  <2>1. M(8) = {x[1], x[2], x[3], x[4], x[5], x[6], x[7], x[8]}
    BY <1>8, <1>12
  <2>2. 1..8 = {1, 2, 3, 4, 5, 6, 7, 8}
    OBVIOUS
  <2> QED BY <2>1, <2>2
<1> QED BY <1>2, <1>4, <1>6, <1>11, <1>13 DEF N, M, D

LEMMA TypeOfCheck ==
    ASSUME NEW s \in Challenges
    PROVE  v4_check_type(s) \in 0..4
<1> DEFINE sum == Signed(s[1]) + Signed(s[4])
<1>1. sum \in Int
  <2>1. s[1] \in 0..255 /\ s[4] \in 0..255
    <3>1. 1 \in 1..16 /\ 4 \in 1..16
      OBVIOUS
    <3> QED BY <3>1 DEF Challenges
  <2>2. \A b \in 0..255 : Signed(b) \in Int
    BY DEF Signed
  <2>3. Signed(s[1]) \in Int
    BY <2>1, <2>2
  <2>4. Signed(s[4]) \in Int
    BY <2>1, <2>2
  <2> HIDE DEF Challenges
  <2> QED BY <2>3, <2>4
<1> HIDE DEF sum
<1>2. \A n \in Int : n % 5 \in 0..4
  OBVIOUS
<1>3. v4_check_type(s) = IF sum < 0 THEN (sum + 1) % 5 ELSE sum % 5
  BY DEF v4_check_type, sum
<1> QED BY <1>1, <1>2, <1>3

\* Types 1 to 4.
LEMMA BytesAnswer ==
    ASSUME NEW s \in Challenges, v4_check_type(s) # 0
    PROVE  V4Holds(s)
<1> DEFINE text == wtmp(s)
           S == {b \in ToSet(text) : OfSeed(b)}
<1>1. ASSUME NEW a \in {"md5", "sha1", "ripemd128", "tiger"}, NEW t \in {"array", "array_1"},
             NEW b \in {"md5", "sha1", "ripemd128", "tiger"}, NEW u \in {"array", "array_1"},
             NEW cut \in 1..15,
             text = FourParts(Digest(a, t), SeedBytes(1, cut), Digest(b, u), SeedBytes(cut + 1, 16))
      PROVE  Select(text, S) = SeedBytes(1, 16) /\ Len(text) <= 160
  <2> DEFINE d == Digest(a, t)
             e == Digest(b, u)
  <2>1. d \in Seq(Origins) /\ Len(d) \in 0..24 /\ \A i \in 1..Len(d) : ~OfSeed(d[i])
    <3>1. /\ d \in Seq(Origins)
          /\ Len(d) = CASE a = "md5" -> 16 [] a = "sha1" -> 20
                        [] a = "ripemd128" -> 16 [] a = "tiger" -> 24
          /\ \A i \in 1..Len(d) : ~OfSeed(d[i])
      BY DigestOrigin
    <3> HIDE DEF d
    <3>2. Len(d) \in 0..24
      BY <3>1
    <3> QED BY <3>1, <3>2
  <2>2. e \in Seq(Origins) /\ Len(e) \in 0..24 /\ \A i \in 1..Len(e) : ~OfSeed(e[i])
    <3>1. /\ e \in Seq(Origins)
          /\ Len(e) = CASE b = "md5" -> 16 [] b = "sha1" -> 20
                        [] b = "ripemd128" -> 16 [] b = "tiger" -> 24
          /\ \A i \in 1..Len(e) : ~OfSeed(e[i])
      BY DigestOrigin
    <3> HIDE DEF e
    <3>2. Len(e) \in 0..24
      BY <3>1
    <3> QED BY <3>1, <3>2
  <2>3. text = FourParts(d, SeedBytes(1, cut), e, SeedBytes(cut + 1, 16))
    BY <1>1
  <2> HIDE DEF d, e, text
  <2>4. Len(d) + Len(e) <= 144
    <3> DEFINE m == Len(d)
               n == Len(e)
    <3>1. m \in 0..24
      BY <2>1
    <3>2. n \in 0..24
      BY <2>2
    <3> HIDE DEF m, n
    <3>3. m + n <= 144
      BY <3>1, <3>2
    <3> QED BY <3>3 DEF m, n
  <2> DEFINE w == FourParts(d, SeedBytes(1, cut), e, SeedBytes(cut + 1, 16))
  <2>5. Select(w, {c \in ToSet(w) : OfSeed(c)}) = SeedBytes(1, 16) /\ Len(w) <= 160
    <3>1. d \in Seq(Origins) /\ e \in Seq(Origins)
      BY <2>1, <2>2
    <3>2. \A i \in 1..Len(d) : ~OfSeed(d[i])
      BY <2>1
    <3>3. \A i \in 1..Len(e) : ~OfSeed(e[i])
      BY <2>2
    <3> QED BY <2>4, <3>1, <3>2, <3>3, WholeSeed
  <2> HIDE DEF w
  <2>6. text = w
    BY <2>3 DEF w
  <2> QED BY <2>5, <2>6
<1>2. v4_check_type(s) \in 0..4
  BY TypeOfCheck
<1>3. CASE v4_check_type(s) = 1
  <2>1. text = FourParts(Digest("sha1", "array_1"), SeedBytes(1, 6), Digest("sha1", "array"),
                         SeedBytes(6 + 1, 16))
    BY <1>3 DEF wtmp, FourParts
  <2>2. 6 \in 1..15
    OBVIOUS
  <2> HIDE DEF text, S
  <2>3. Select(text, S) = SeedBytes(1, 16) /\ Len(text) <= 160
    BY <1>1, <2>1, <2>2
  <2> QED BY <1>3, <2>3 DEF V4Holds, computeV4, text, S, OfSeed
<1>4. CASE v4_check_type(s) = 2
  <2>1. text = FourParts(Digest("sha1", "array_1"), SeedBytes(1, 6), Digest("ripemd128", "array"),
                         SeedBytes(6 + 1, 16))
    BY <1>4 DEF wtmp, FourParts
  <2>2. 6 \in 1..15
    OBVIOUS
  <2> HIDE DEF text, S
  <2>3. Select(text, S) = SeedBytes(1, 16) /\ Len(text) <= 160
    BY <1>1, <2>1, <2>2
  <2> QED BY <1>4, <2>3 DEF V4Holds, computeV4, text, S, OfSeed
<1>5. CASE v4_check_type(s) = 3
  <2>1. text = FourParts(Digest("tiger", "array"), SeedBytes(1, 10), Digest("ripemd128", "array_1"),
                         SeedBytes(10 + 1, 16))
    BY <1>5 DEF wtmp, FourParts
  <2>2. 10 \in 1..15
    OBVIOUS
  <2> HIDE DEF text, S
  <2>3. Select(text, S) = SeedBytes(1, 16) /\ Len(text) <= 160
    BY <1>1, <2>1, <2>2
  <2> QED BY <1>5, <2>3 DEF V4Holds, computeV4, text, S, OfSeed
<1>6. CASE v4_check_type(s) = 4
  <2>1. text = FourParts(Digest("tiger", "array_1"), SeedBytes(1, 8), Digest("sha1", "array"),
                         SeedBytes(8 + 1, 16))
    BY <1>6 DEF wtmp, FourParts
  <2>2. 8 \in 1..15
    OBVIOUS
  <2> HIDE DEF text, S
  <2>3. Select(text, S) = SeedBytes(1, 16) /\ Len(text) <= 160
    BY <1>1, <2>1, <2>2
  <2> QED BY <1>6, <2>3 DEF V4Holds, computeV4, text, S, OfSeed
<1> QED BY <1>2, <1>3, <1>4, <1>5, <1>6

\* Type 0: the text is in hexadecimal, and its first 96 digits are hashed.
LEMMA HexAnswer ==
    ASSUME NEW s \in Challenges, v4_check_type(s) = 0
    PROVE  V4Holds(s)
<1> DEFINE odd == [k \in 1..8 |-> 2 * k - 1]
           even == [k \in 1..8 |-> 2 * k]
           d == digest_text(Digest("md5", "array"))
           p == seed_text(s, odd)
           e == digest_text(Digest("md5", "array_1"))
           q == seed_text(s, even)
           text == wtmp(s)
           U == Origins
           negatives == NegativesUpTo(s, 16)
           D(k) == Negative(s, k)
           all == {Seed(i) : i \in 1..16}
<1>1. text = FourParts(d, p, e, q)
  BY SMTT(30) DEF wtmp, FourParts
<1>2. ASSUME NEW t \in {"array", "array_1"}
      PROVE  LET x == digest_text(Digest("md5", t))
             IN  /\ x \in Seq(U) /\ Len(x) = 32
                 /\ \A b \in ToSet(x) : ~OfSeed(b)
  <2> DEFINE b == Digest("md5", t)
             x == digest_text(b)
  <2>1. b \in Seq(U) /\ Len(b) = 16 /\ \A i \in 1..16 : ~OfSeed(b[i])
    <3>1. "md5" \in {"md5", "sha1", "ripemd128", "tiger"}
      OBVIOUS
    <3>2. /\ b \in Seq(U)
          /\ Len(b) = CASE "md5" = "md5" -> 16 [] "md5" = "sha1" -> 20
                        [] "md5" = "ripemd128" -> 16 [] "md5" = "tiger" -> 24
          /\ \A i \in 1..Len(b) : ~OfSeed(b[i])
      BY <3>1, DigestOrigin
    <3> HIDE DEF b
    <3> QED BY <3>2
  <2> HIDE DEF b, U
  <2>2. b \in Seq(U)
    BY <2>1
  <2>3. Len(b) = 16
    BY <2>1
  <2>4. \A i \in 1..Len(b) : b[i] \in U
    BY <2>2, ElementOfSeq
  <2>5. \A i \in 1..16 : b[i] \in U
    BY <2>3, <2>4
  <2>6. b = [i \in 1..16 |-> b[i]]
    BY <2>2, <2>3
  <2>7. Sixteen(b, b, U)
    BY <2>5, <2>6 DEF Sixteen
  <2>8. HexText(b, x, U)
    BY <2>7, DigestText
  <2>9. x \in Seq(U) /\ Len(x) = 32 /\ ToSet(x) = {b[i] : i \in 1..16}
    BY <2>8 DEF HexText
  <2> HIDE DEF x
  <2>10. \A c \in ToSet(x) : ~OfSeed(c)
    BY <2>1, <2>9
  <2> QED BY <2>9, <2>10 DEF x, b
<1>3. d \in Seq(U) /\ Len(d) = 32 /\ \A b \in ToSet(d) : ~OfSeed(b)
  BY <1>2
<1>4. e \in Seq(U) /\ Len(e) = 32 /\ \A b \in ToSet(e) : ~OfSeed(b)
  BY <1>2
<1>5. /\ p \in Seq(U)
      /\ Len(p) = 16 + 6 * (D(1) + D(3) + D(5) + D(7) + D(9) + D(11) + D(13) + D(15))
      /\ ToSet(p) = {Seed(odd[k]) : k \in 1..8}
  <2>1. odd = [k \in 1..8 |-> odd[k]] /\ \A k \in 1..8 : odd[k] \in 1..16
    OBVIOUS
  <2>2. /\ odd[1] = 1 /\ odd[2] = 3 /\ odd[3] = 5 /\ odd[4] = 7
        /\ odd[5] = 9 /\ odd[6] = 11 /\ odd[7] = 13 /\ odd[8] = 15
    OBVIOUS
  <2> DEFINE o(k) == Negative(s, odd[k])
  <2>3. /\ o(1) = D(1) /\ o(2) = D(3) /\ o(3) = D(5) /\ o(4) = D(7)
        /\ o(5) = D(9) /\ o(6) = D(11) /\ o(7) = D(13) /\ o(8) = D(15)
    BY <2>2
  <2> HIDE DEF odd
  <2>4. /\ p \in Seq(Origins)
        /\ Len(p) = 16 + 6 * (o(1) + o(2) + o(3) + o(4) + o(5) + o(6) + o(7) + o(8))
        /\ ToSet(p) = {Seed(odd[k]) : k \in 1..8}
    BY <2>1, SeedText
  <2> HIDE DEF p, o, D
  <2>5. Len(p) = 16 + 6 * (D(1) + D(3) + D(5) + D(7) + D(9) + D(11) + D(13) + D(15))
    BY <2>4, <2>3
  <2> QED BY <2>4, <2>5
<1>6. /\ q \in Seq(U)
      /\ Len(q) = 16 + 6 * (D(2) + D(4) + D(6) + D(8) + D(10) + D(12) + D(14) + D(16))
      /\ ToSet(q) = {Seed(even[k]) : k \in 1..8}
  <2>1. even = [k \in 1..8 |-> even[k]] /\ \A k \in 1..8 : even[k] \in 1..16
    OBVIOUS
  <2>2. /\ even[1] = 2 /\ even[2] = 4 /\ even[3] = 6 /\ even[4] = 8
        /\ even[5] = 10 /\ even[6] = 12 /\ even[7] = 14 /\ even[8] = 16
    OBVIOUS
  <2> DEFINE o(k) == Negative(s, even[k])
  <2>3. /\ o(1) = D(2) /\ o(2) = D(4) /\ o(3) = D(6) /\ o(4) = D(8)
        /\ o(5) = D(10) /\ o(6) = D(12) /\ o(7) = D(14) /\ o(8) = D(16)
    BY <2>2
  <2> HIDE DEF even
  <2>4. /\ q \in Seq(Origins)
        /\ Len(q) = 16 + 6 * (o(1) + o(2) + o(3) + o(4) + o(5) + o(6) + o(7) + o(8))
        /\ ToSet(q) = {Seed(even[k]) : k \in 1..8}
    BY <2>1, SeedText
  <2> HIDE DEF q, o, D
  <2> QED BY <2>4, <2>3
<1>7. ToSet(p) \cup ToSet(q) = all
  <2>1. \A i \in 1..16 : \E k \in 1..8 : i = odd[k] \/ i = even[k]
    <3> SUFFICES ASSUME NEW i \in 1..16 PROVE \E k \in 1..8 : i = odd[k] \/ i = even[k]
      OBVIOUS
    <3>1. CASE i % 2 = 0
      <4>1. i \div 2 \in 1..8 /\ i = 2 * (i \div 2)
        BY <3>1
      <4> QED BY <4>1
    <3>2. CASE i % 2 # 0
      <4>1. (i + 1) \div 2 \in 1..8 /\ i = 2 * ((i + 1) \div 2) - 1
        BY <3>2
      <4> QED BY <4>1
    <3> QED BY <3>1, <3>2
  <2>2. \A k \in 1..8 : odd[k] \in 1..16 /\ even[k] \in 1..16
    OBVIOUS
  <2> DEFINE P == ToSet(p)
             Q == ToSet(q)
  <2>3. P = {Seed(odd[k]) : k \in 1..8}
    BY <1>5
  <2>4. Q = {Seed(even[k]) : k \in 1..8}
    BY <1>6
  <2> HIDE DEF odd, even, P, Q
  <2>5. P \cup Q = all
    <3>1. \A c \in all : c \in P \cup Q
      <4> SUFFICES ASSUME NEW i \in 1..16 PROVE Seed(i) \in P \cup Q
        OBVIOUS
      <4>1. PICK k \in 1..8 : i = odd[k] \/ i = even[k]
        BY <2>1
      <4> QED BY <2>3, <2>4, <4>1
    <3>2. \A c \in P : c \in all
      BY <2>2, <2>3
    <3>3. \A c \in Q : c \in all
      BY <2>2, <2>4
    <3> HIDE DEF all
    <3> QED BY <3>1, <3>2, <3>3
  <2> QED BY <2>5 DEF P, Q
<1> DEFINE dp == d \o p
           dpe == dp \o e
<1> HIDE DEF d, p, e, q, U, text
<1>8. dp \in Seq(U) /\ Len(dp) = Len(d) + Len(p) /\ ToSet(dp) = ToSet(d) \cup ToSet(p)
  <2>1. d \in Seq(U)
    BY <1>3
  <2>2. p \in Seq(U)
    BY <1>5
  <2> QED BY <2>1, <2>2, ConcatProperties, SetOfConcat
<1> HIDE DEF dp
<1>9. dpe \in Seq(U) /\ Len(dpe) = Len(dp) + Len(e) /\ ToSet(dpe) = ToSet(dp) \cup ToSet(e)
  <2>1. dp \in Seq(U)
    BY <1>8
  <2>2. e \in Seq(U)
    BY <1>4
  <2> QED BY <2>1, <2>2, ConcatProperties, SetOfConcat
<1>10. text = dpe \o q
  BY <1>1 DEF FourParts, dp
<1> HIDE DEF dpe
<1>11. text \in Seq(U) /\ Len(text) = Len(dpe) + Len(q) /\ ToSet(text) = ToSet(dpe) \cup ToSet(q)
  <2>1. dpe \in Seq(U)
    BY <1>9
  <2>2. q \in Seq(U)
    BY <1>6
  <2> QED BY <1>10, <2>1, <2>2, ConcatProperties, SetOfConcat
<1>12. negatives \in Nat /\ Len(text) = 96 + 6 * negatives
  <2>1. /\ negatives \in Nat
        /\ negatives = D(1) + D(2) + D(3) + D(4) + D(5) + D(6) + D(7) + D(8) + D(9) + D(10) + D(11)
                  + D(12) + D(13) + D(14) + D(15) + D(16)
    BY CountNegatives
  <2>2. \A k \in 1..16 : D(k) \in Int
    BY DEF Negative
  <2> HIDE DEF negatives, D
  <2>3. /\ D(1) \in Int /\ D(2) \in Int /\ D(3) \in Int /\ D(4) \in Int
        /\ D(5) \in Int /\ D(6) \in Int /\ D(7) \in Int /\ D(8) \in Int
        /\ D(9) \in Int /\ D(10) \in Int /\ D(11) \in Int /\ D(12) \in Int
        /\ D(13) \in Int /\ D(14) \in Int /\ D(15) \in Int /\ D(16) \in Int
    BY <2>2
  <2>4. Len(text) = ((32 + Len(p)) + 32) + Len(q)
    BY <1>3, <1>4, <1>8, <1>9, <1>11
  <2> DEFINE P == Len(p)
             Q == Len(q)
             L == Len(text)
  <2>5. P = 16 + 6 * (D(1) + D(3) + D(5) + D(7) + D(9) + D(11) + D(13) + D(15))
    BY <1>5
  <2>6. Q = 16 + 6 * (D(2) + D(4) + D(6) + D(8) + D(10) + D(12) + D(14) + D(16))
    BY <1>6
  <2>7. L = ((32 + P) + 32) + Q
    BY <2>4
  <2> DEFINE A == D(1) + D(3) + D(5) + D(7) + D(9) + D(11) + D(13) + D(15)
             B == D(2) + D(4) + D(6) + D(8) + D(10) + D(12) + D(14) + D(16)
  <2>8. A \in Int /\ B \in Int /\ negatives = A + B
    <3>1. A \in Int
      BY <2>3
    <3>2. B \in Int
      BY <2>3
    <3>3. negatives = A + B
      <4>1. negatives
              = D(1) + D(2) + D(3) + D(4) + D(5) + D(6) + D(7) + D(8) + D(9) + D(10) + D(11)
                + D(12) + D(13) + D(14) + D(15) + D(16)
        BY <2>1
      <4> QED BY <2>2, <4>1
    <3> QED BY <3>1, <3>2, <3>3
  <2> HIDE DEF P, Q, L, A, B
  <2>9. P = 16 + 6 * A
    BY <2>5 DEF A
  <2>10. Q = 16 + 6 * B
    BY <2>6 DEF B
  <2>11. L = 96 + 6 * negatives
    BY <2>7, <2>8, <2>9, <2>10
  <2> QED BY <2>1, <2>11 DEF L
<1> DEFINE hashed == SubSeq(text, 1, 96)
<1> HIDE DEF negatives
<1>13. hashed \in Seq(U) /\ Len(hashed) = 96
  <2> DEFINE L == Len(text)
  <2>1. L = 96 + 6 * negatives /\ negatives \in Nat
    BY <1>12
  <2> HIDE DEF L
  <2>2. L \in Nat /\ L >= 96
    BY <2>1
  <2>3. \A i \in 1..96 : i \in 1..L
    BY <2>2
  <2>4. \A i \in 1..L : text[i] \in U
    BY <1>11 DEF L
  <2>5. \A i \in 1..96 : text[i] \in U
    BY <2>3, <2>4
  <2>6. 1 \in Int /\ 96 \in Int /\ 1 <= 96 /\ 96 - 1 + 1 = 96
    OBVIOUS
  <2>7. hashed \in Seq(U) /\ Len(hashed) = IF 1 <= 96 THEN 96 - 1 + 1 ELSE 0
    BY <2>5, <2>6, SubSeqProperties
  <2> HIDE DEF hashed
  <2> QED BY <2>6, <2>7
<1>14. ASSUME negatives = 0
       PROVE  hashed = text
  <2>1. text \in Seq(U)
    BY <1>11
  <2>2. 96 + 6 * 0 = 96
    OBVIOUS
  <2>3. Len(text) = 96
    BY <1>12, <1>14, <2>2
  <2>4. SubSeq(text, 1, Len(text)) = text
    BY <2>1, SubSeqFull
  <2> QED BY <2>4, <2>3
<1> HIDE DEF hashed
<1> DEFINE S == {b \in ToSet(hashed) : OfSeed(b)}
<1>15. ASSUME negatives = 0
       PROVE  ToSet(Select(hashed, S)) = all
  <2>1. ToSet(hashed) = (ToSet(d) \cup ToSet(e)) \cup all
    BY <1>7, <1>8, <1>9, <1>11, <1>14, <1>15
  <2>2. \A b \in all : OfSeed(b)
    BY SeedOrigin
  <2> HIDE DEF all
  <2>3. ToSet(hashed) \cap S = all
    BY <1>3, <1>4, <2>1, <2>2
  <2> HIDE DEF S
  <2>4. ToSet(Select(hashed, S)) = ToSet(hashed) \cap S
    BY <1>13, SelectSet
  <2> QED BY <2>3, <2>4
<1>16. negatives <= 10 => Len(text) + 1 <= 160
  BY <1>12
<1>17. computeV4(s) = hashed
  BY DEF computeV4, hashed, text
<1>18. Cardinality({i \in 1..16 : s[i] > 127}) = negatives
  BY DEF negatives, NegativesUpTo
<1>19. {b \in ToSet(hashed) : b[1] = "seed"} = S
  BY DEF OfSeed
<1> HIDE DEF S, all
<1>20. negatives = 0 => ToSet(Select(hashed, S)) = all
  BY <1>15
<1> QED BY <1>13, <1>16, <1>17, <1>18, <1>19, <1>20 DEF V4Holds, text, all

LEMMA SeedAnswered ==
    ASSUME NEW s \in Challenges
    PROVE  V4Holds(s)
BY HexAnswer, BytesAnswer

\* What the pieces of data may be: any message, cut anywhere; any seed; a digest of
\* 16 bytes, a user's name that fits with it into the 40 bytes of computePwd and a
\* password that fits with its NUL.
DigestData ==
    \A d \in Data :
        /\ d.of = "digest" =>
              d.alg \in Algorithms /\ IsAList(d.msg) /\ d.cut \in 0..Len(d.msg)
        /\ d.of = "seed" => d.seed \in Challenges
        /\ d.of = "password" =>
              /\ IsAList(d.md5) /\ Len(d.md5) = 16
              /\ IsAList(d.username) /\ Len(d.username) + 16 <= 40
              /\ IsAList(d.password) /\ Len(d.password) <= 39

LEMMA PasswordOfData ==
    ASSUME NEW md5, NEW username, NEW password,
           IsAList(md5), Len(md5) = 16, IsAList(username), Len(username) + 16 <= 40,
           IsAList(password), Len(password) <= 39
    PROVE  PwdHolds(md5, username, password)
<1> DEFINE A == ToSet(md5)
           B == ToSet(username)
           U == A \cup B
           V == ToSet(password)
<1>1. md5 \in Seq(A) /\ username \in Seq(B) /\ password \in Seq(V)
  BY DEF IsAList
<1> HIDE DEF A, B, V
<1>2. md5 \in Seq(U) /\ username \in Seq(U)
  BY <1>1
<1> HIDE DEF U
<1> QED BY <1>1, <1>2, PasswordCombined

LEMMA DigestHolds ==
    ASSUME DigestData, NEW d \in Data
    PROVE  /\ d.of = "digest" => DigestOf(d.alg, d.msg, d.cut, d.aligned)
           /\ d.of = "seed" => V4Holds(d.seed)
           /\ d.of = "password" => PwdHolds(d.md5, d.username, d.password)
<1>1. ASSUME d.of = "digest"
      PROVE  DigestOf(d.alg, d.msg, d.cut, d.aligned)
  <2> DEFINE msg == d.msg
             U == ToSet(msg)
             alg == d.alg
             cut == d.cut
             aligned == d.aligned
  <2>1. msg \in Seq(U)
    BY <1>1 DEF DigestData, IsAList
  <2>2. alg \in Algorithms
    BY <1>1 DEF DigestData
  <2>3. cut \in 0..Len(msg)
    BY <1>1 DEF DigestData
  <2> HIDE DEF msg, U, alg, cut, aligned
  <2>4. DigestOf(alg, msg, cut, aligned)
    BY <2>1, <2>2, <2>3, DigestIs
  <2> QED BY <2>4 DEF msg, alg, cut, aligned
<1>2. ASSUME d.of = "seed"
      PROVE  V4Holds(d.seed)
  <2>1. d.seed \in Challenges
    BY <1>2 DEF DigestData
  <2> QED BY <2>1, SeedAnswered
<1>3. ASSUME d.of = "password"
      PROVE  PwdHolds(d.md5, d.username, d.password)
  <2>1. IsAList(d.md5) /\ Len(d.md5) = 16 /\ IsAList(d.username) /\ Len(d.username) + 16 <= 40
    BY <1>3 DEF DigestData
  <2>2. IsAList(d.password) /\ Len(d.password) <= 39
    BY <1>3 DEF DigestData
  <2> QED BY <2>1, <2>2, PasswordOfData
<1> QED BY <1>1, <1>2, <1>3

\* DigestOfMessage, for every message, in two chunks cut anywhere, aligned or not,
\* and any sizes of block and word that DigestAssumption allows: each of the six
\* digests compresses the blocks of the padded message.  Every challenge is answered
\* from its whole seed, within wtmp, and the password is combined with zeros behind it.
THEOREM DigestsWhole == DigestData => (Spec => []DigestOfMessage)
<1> SUFFICES ASSUME DigestData PROVE Spec => []DigestOfMessage
  OBVIOUS
<1>1. DataChosen => DigestOfMessage
  BY DigestHolds DEF DataChosen, DigestOfMessage
<1> QED BY <1>1, DataStays, PTL
-----------------------------------------------------------------------------
(* The builder                                                                 *)

IsBuilder(b) ==
    b \in [dest_mac : {b.dest_mac}, src_mac : {b.src_mac}, type : {b.type}, len : {b.len},
           id : {b.id}, eap_type : {b.eap_type}, md5_seed : {b.md5_seed}]

\* What the first, the second and the third call for a packet leave in the builder.
Addressed(b, server) == b.dest_mac = server /\ b.src_mac = "local"

Typed(b, kind, r) ==
    IF kind \in {"identity", "challenge"}
    THEN /\ b.type = "EAP_PACKET" /\ b.id = r.id /\ b.eap_type = kind
         /\ b.len = 5 + UserLength + (IF kind = "challenge" THEN 17 ELSE 0)
    ELSE b.type = type_of(kind) /\ b.len = 0

Seeded(b, kind, r) == kind = "challenge" => b.md5_seed = r.seed

LEMMA Calls ==
    ASSUME NEW b, IsBuilder(b), NEW kind \in Kinds, NEW r, NEW server
    PROVE  /\ IsBuilder(set_outgoing_eth_fields(b, server))
           /\ Addressed(set_outgoing_eth_fields(b, server), server)
           /\ IsBuilder(set_fields(b, kind, r)) /\ Typed(set_fields(b, kind, r), kind, r)
           /\ Addressed(b, server) => Addressed(set_fields(b, kind, r), server)
           /\ IsBuilder(set_seed(b, kind, r)) /\ Seeded(set_seed(b, kind, r), kind, r)
           /\ Addressed(b, server) => Addressed(set_seed(b, kind, r), server)
           /\ Typed(b, kind, r) => Typed(set_seed(b, kind, r), kind, r)
<1>1. /\ IsBuilder(set_outgoing_eth_fields(b, server))
      /\ Addressed(set_outgoing_eth_fields(b, server), server)
  BY DEF set_outgoing_eth_fields, builder_set_eth_field, IsBuilder, Addressed
<1>2. CASE kind \in {"identity", "challenge"}
  <2>1. set_fields(b, kind, r)
          = [b EXCEPT !.type = "EAP_PACKET", !.id = r.id, !.eap_type = kind,
                      !.len = EapHeaderSize + UserLength
                        + IF kind = "challenge" THEN MD5_CHALLENGE_DIGEST_SIZE + 1 ELSE 0]
    BY <1>2 DEF set_fields, builder_set_eap_fields
  <2>2. /\ EapHeaderSize + UserLength
             + (IF kind = "challenge" THEN MD5_CHALLENGE_DIGEST_SIZE + 1 ELSE 0)
           = 5 + UserLength + (IF kind = "challenge" THEN 17 ELSE 0)
    BY PacketAssumption DEF EapHeaderSize, MD5_CHALLENGE_DIGEST_SIZE
  <2>3. /\ IsBuilder(set_fields(b, kind, r)) /\ Typed(set_fields(b, kind, r), kind, r)
        /\ Addressed(b, server) => Addressed(set_fields(b, kind, r), server)
    BY <1>2, <2>1, <2>2 DEF IsBuilder, Typed, Addressed
  <2>4. set_seed(b, kind, r) = IF kind = "challenge" THEN [b EXCEPT !.md5_seed = r.seed] ELSE b
    BY DEF set_seed, builder_set_eap_md5_seed
  <2>5. /\ IsBuilder(set_seed(b, kind, r)) /\ Seeded(set_seed(b, kind, r), kind, r)
        /\ Addressed(b, server) => Addressed(set_seed(b, kind, r), server)
        /\ Typed(b, kind, r) => Typed(set_seed(b, kind, r), kind, r)
    BY <2>4 DEF IsBuilder, Typed, Addressed, Seeded
  <2> QED BY <1>1, <2>3, <2>5
<1>3. CASE kind \in {"start", "logoff"}
  <2>1. set_fields(b, kind, r) = [b EXCEPT !.type = type_of(kind), !.len = 0]
    BY <1>3 DEF set_fields, builder_set_eap_fields, type_of
  <2>2. set_seed(b, kind, r) = b
    BY <1>3 DEF set_seed
  <2> QED BY <1>1, <1>3, <2>1, <2>2 DEF IsBuilder, Typed, Addressed, Seeded
<1> QED BY <1>2, <1>3 DEF Kinds

\* The packet of a builder that all three calls have filled in.
LEMMA Built ==
    ASSUME NEW b, IsBuilder(b), NEW kind \in Kinds, NEW r, NEW server,
           Addressed(b, server), Typed(b, kind, r), Seeded(b, kind, r)
    PROVE  /\ rjv3_apply_bcast_addr(builder_build_packet(b)) = Asked(kind, r, server)
           /\ kind \in {"identity", "challenge"} =>
                builder_build_packet(b) = Asked(kind, r, server)
<1> DEFINE f == builder_build_packet(b)
<1>1. CASE kind = "identity"
  <2>1. f = [dest_mac |-> server, src_mac |-> "local", type |-> "EAP_PACKET",
             len |-> 5 + UserLength, eap |-> <<"identity", r.id>>,
             actual_len |-> EapolHeaderSize + (EapHeaderSize + UserLength)]
    BY <1>1, PacketAssumption DEF builder_build_packet, Addressed, Typed
  <2>2. Asked(kind, r, server)
          = [dest_mac |-> server, src_mac |-> "local", type |-> "EAP_PACKET",
             len |-> 5 + UserLength, eap |-> <<"identity", r.id>>,
             actual_len |-> 18 + (5 + UserLength)]
    BY <1>1, PacketAssumption DEF Asked, type_of, EapHeaderSize
  <2> QED BY <1>1, <2>1, <2>2 DEF rjv3_apply_bcast_addr, EapHeaderSize, EapolHeaderSize
<1>2. CASE kind = "challenge"
  <2>1. f = [dest_mac |-> server, src_mac |-> "local", type |-> "EAP_PACKET",
             len |-> 5 + UserLength + 17, eap |-> <<"challenge", r.id, <<r.id, r.seed>>>>,
             actual_len |-> EapolHeaderSize
                              + (EapHeaderSize + UserLength + MD5_CHALLENGE_DIGEST_SIZE + 1)]
    BY <1>2, PacketAssumption
       DEF builder_build_packet, Addressed, Typed, Seeded, hash_md5_pwd
  <2>2. Asked(kind, r, server)
          = [dest_mac |-> server, src_mac |-> "local", type |-> "EAP_PACKET",
             len |-> 5 + UserLength + 17, eap |-> <<"challenge", r.id, <<r.id, r.seed>>>>,
             actual_len |-> 18 + (5 + UserLength + 17)]
    BY <1>2, PacketAssumption DEF Asked, type_of, EapHeaderSize
  <2>3. EapolHeaderSize + (EapHeaderSize + UserLength + MD5_CHALLENGE_DIGEST_SIZE + 1)
          = 18 + (5 + UserLength + 17)
    BY PacketAssumption DEF EapHeaderSize, EapolHeaderSize, MD5_CHALLENGE_DIGEST_SIZE
  <2> QED BY <1>2, <2>1, <2>2, <2>3 DEF rjv3_apply_bcast_addr
<1>3. CASE kind \in {"start", "logoff"}
  <2>1. f = [dest_mac |-> server, src_mac |-> "local", type |-> type_of(kind),
             len |-> 0, eap |-> <<>>, actual_len |-> EapolHeaderSize + 0]
    BY <1>3 DEF builder_build_packet, Addressed, Typed, type_of
  <2>2. Asked(kind, r, server)
          = [dest_mac |-> IF kind = "start" /\ BcastRj THEN "rj_bcast" ELSE server,
             src_mac |-> "local", type |-> type_of(kind),
             len |-> 0, eap |-> <<>>, actual_len |-> 18]
    BY <1>3 DEF Asked
  <2>3. type_of(kind) = "EAPOL_START" <=> kind = "start"
    BY <1>3 DEF type_of
  <2> QED BY <1>3, <2>1, <2>2, <2>3 DEF rjv3_apply_bcast_addr, EapolHeaderSize
<1> QED BY <1>1, <1>2, <1>3 DEF Kinds

LEMMA Responses ==
    ASSUME NEW b, IsBuilder(b), NEW kind \in Kinds, NEW r, NEW server
    PROVE  /\ IsBuilder(send_response(b, kind, r, server))
           /\ rjv3_apply_bcast_addr(builder_build_packet(send_response(b, kind, r, server)))
                = Asked(kind, r, server)
           /\ kind \in {"identity", "challenge"} =>
                builder_build_packet(send_response(b, kind, r, server)) = Asked(kind, r, server)
<1> DEFINE eth == set_outgoing_eth_fields(b, server)
           fields == set_fields(eth, kind, r)
           seed == set_seed(fields, kind, r)
<1>1. IsBuilder(eth) /\ Addressed(eth, server)
  BY Calls
<1> HIDE DEF eth
<1>2. IsBuilder(fields) /\ Addressed(fields, server) /\ Typed(fields, kind, r)
  BY <1>1, Calls
<1> HIDE DEF fields
<1>3. IsBuilder(seed) /\ Addressed(seed, server) /\ Typed(seed, kind, r) /\ Seeded(seed, kind, r)
  BY <1>2, Calls
<1>4. send_response(b, kind, r, server) = seed
  BY DEF send_response, seed, fields, eth
<1> HIDE DEF seed
<1> QED BY <1>3, <1>4, Built

LEMMA Echoes ==
    ASSUME NEW b, IsBuilder(b), NEW dest
    PROVE  /\ IsBuilder(echo_fields(b, dest))
           /\ send_echo_frame(b, dest) = AskedEcho(dest)
<1> DEFINE e == echo_fields(b, dest)
           f == builder_build_packet(e)
<1>1. e = [dest_mac |-> dest, src_mac |-> "local", type |-> "EAPOL_RJ_PROPRIETARY_KEEPALIVE",
           len |-> 0, id |-> b.id, eap_type |-> b.eap_type, md5_seed |-> b.md5_seed]
  BY DEF echo_fields, builder_set_eap_fields, builder_set_eth_field, IsBuilder
<1> HIDE DEF e
<1>2. f = [dest_mac |-> dest, src_mac |-> "local", type |-> "EAPOL_RJ_PROPRIETARY_KEEPALIVE",
           len |-> 0, eap |-> <<>>, actual_len |-> 18]
  BY <1>1 DEF builder_build_packet, EapolHeaderSize
<1>3. send_echo_frame(b, dest) = [f EXCEPT !.len = 30, !.actual_len = @ + 27]
  BY DEF send_echo_frame, e
<1> HIDE DEF f
<1>4. send_echo_frame(b, dest) = AskedEcho(dest)
  <2>1. f.actual_len + 27 = 45
    BY <1>2
  <2> DEFINE F == [dest_mac : {dest}, src_mac : {"local"}, eap : {<<>>},
                   type : {"EAPOL_RJ_PROPRIETARY_KEEPALIVE"}, len : {0, 30}, actual_len : {18, 45}]
             g == [f EXCEPT !.len = 30, !.actual_len = 45]
  <2>2. f \in F
    BY <1>2
  <2>3. g \in F /\ g.len = 30 /\ g.actual_len = 45
    BY <2>2
  <2> HIDE DEF g
  <2>4. g = AskedEcho(dest)
    BY <2>3 DEF AskedEcho
  <2> QED BY <1>3, <2>1, <2>4 DEF g
<1>5. IsBuilder(e)
  BY <1>1 DEF IsBuilder
<1> QED BY <1>4, <1>5 DEF e
-----------------------------------------------------------------------------
(* How far the thread has come with the packet it was asked for, if no alarm has
   used the builder since.  UndisturbedAsAsked says only what was sent.          *)
BuilderInv ==
    /\ IsBuilder(builder)
    /\ request.kind \in Kinds
    /\ pc # "idle" /\ ~disturbed =>
         /\ server_mac = request.server
         /\ pc \in {"fields", "seed", "build"} => Addressed(builder, request.server)
         /\ pc \in {"seed", "build"} => Typed(builder, request.kind, request.r)
         /\ pc = "build" => Seeded(builder, request.kind, request.r)
    /\ UndisturbedAsAsked

\* The builder, at every place of the thread in a packet nobody interrupted, holds
\* what was asked for so far: the inductive invariant behind UndisturbedAsAsked.
THEOREM BuilderInvariant == Spec => []BuilderInv
<1>1. Init => BuilderInv
  BY DEF Init, BuilderInv, IsBuilder, Kinds, UndisturbedAsAsked
<1>2. BuilderInv /\ [Next]_vars => BuilderInv'
  <2> SUFFICES ASSUME BuilderInv, [Next]_vars PROVE BuilderInv'
    OBVIOUS
  <2>1. CASE Done
    BY <2>1 DEF Done, BuilderInv, UndisturbedAsAsked
  <2>2. ASSUME NEW kind \in Kinds, NEW r, NEW server, Begin(kind, r, server) PROVE BuilderInv'
    BY <2>2 DEF Begin, BuilderInv, UndisturbedAsAsked
  <2>3. ASSUME NEW server, Success(server) PROVE BuilderInv'
    BY <2>3 DEF Success, BuilderInv, UndisturbedAsAsked
  <2>4. CASE SetEth
    BY <2>4, Calls DEF SetEth, Step, BuilderInv, UndisturbedAsAsked
  <2>5. CASE SetFields
    BY <2>5, Calls DEF SetFields, Step, BuilderInv, UndisturbedAsAsked
  <2>6. CASE SetSeed
    BY <2>6, Calls DEF SetSeed, Step, BuilderInv, UndisturbedAsAsked
  <2>7. CASE Build
    <3>1. ~disturbed => rjv3_apply_bcast_addr(builder_build_packet(builder))
                          = Asked(request.kind, request.r, request.server)
      BY <2>7, Built DEF Build, BuilderInv
    <3> QED BY <2>7, <3>1 DEF Build, BuilderInv, UndisturbedAsAsked
  <2>8. ASSUME NEW server, StartAgain(server) PROVE BuilderInv'
    <3> DEFINE b == send_response(builder, "start", last, server)
    <3>1. /\ IsBuilder(b)
          /\ rjv3_apply_bcast_addr(builder_build_packet(b)) = Asked("start", last, server)
      BY Responses DEF BuilderInv, Kinds
    <3>2. Alarm(b, rjv3_apply_bcast_addr(builder_build_packet(b)), Asked("start", last, server))
      BY <2>8 DEF StartAgain
    <3> HIDE DEF b
    <3> QED BY <3>1, <3>2 DEF Alarm, BuilderInv, UndisturbedAsAsked
  <2>9. ASSUME NEW kind \in Kinds, Retransmit(kind) PROVE BuilderInv'
    <3> DEFINE b == send_response(builder, kind, last, server_mac)
    <3>1. IsBuilder(b) /\ builder_build_packet(b) = Asked(kind, last, server_mac)
      BY <2>9, Responses DEF Retransmit, BuilderInv
    <3>2. Alarm(b, builder_build_packet(b), Asked(kind, last, server_mac))
      BY <2>9 DEF Retransmit
    <3> HIDE DEF b
    <3> QED BY <3>1, <3>2 DEF Alarm, BuilderInv, UndisturbedAsAsked
  <2>10. CASE Heartbeat
    <3>1. /\ IsBuilder(echo_fields(builder, dest_mac))
          /\ send_echo_frame(builder, dest_mac) = AskedEcho(dest_mac)
      BY Echoes DEF BuilderInv
    <3> QED BY <2>10, <3>1 DEF Heartbeat, Alarm, BuilderInv, UndisturbedAsAsked
  <2>11. CASE UNCHANGED vars
    BY <2>11 DEF vars, BuilderInv, UndisturbedAsAsked
  <2> QED BY <2>1, <2>2, <2>3, <2>4, <2>5, <2>6, <2>7, <2>8, <2>9, <2>10, <2>11
          DEF Next, Request, Simple
<1> QED BY <1>1, <1>2, PTL DEF Spec

\* UndisturbedAsAsked, for any servers, identifiers and seeds and any length of the
\* user's name: whoever used g_builder before, a packet whose calls no alarm came
\* between is the one that was asked for, and so is every packet of an alarm.
THEOREM PacketsAsAsked == Spec => []UndisturbedAsAsked
<1>1. BuilderInv => UndisturbedAsAsked
  BY DEF BuilderInv
<1> QED BY <1>1, BuilderInvariant, PTL
=============================================================================
