---------------------------- MODULE Lists_proofs ----------------------------
(***************************************************************************)
(* Facts about sets of numbers and lists that the proofs about the         *)
(* components share: the least and the greatest of a set, the places of a  *)
(* list in order, a list with an entry inserted or removed.                *)
(*                                                                         *)
(* What holds for every length is shown without the library's induction    *)
(* theorems: were there a length for which it does not hold, then there    *)
(* would be a least one, and it would hold for the one before.             *)
(***************************************************************************)
EXTENDS Lists, Integers, SequencesExt, SequenceTheorems, FiniteSetTheorems,
        WellFoundedInduction, TLAPS

LEMMA LeastIs ==
  ASSUME NEW S \in SUBSET Nat, S # {}
  PROVE  Min(S) \in S /\ \A y \in S : Min(S) <= y
<1>1. PICK x \in S : \A y \in S : <<y, x>> \notin OpToRel(<, Nat)
  BY NatLessThanWellFounded, WFMin
<1>2. ASSUME NEW y \in S  PROVE x <= y
  <2>1. CASE y < x
    <3>1. <<y, x>> \in Nat \X Nat /\ <<y, x>>[1] < <<y, x>>[2]
      BY <2>1
    <3>2. <<y, x>> \in OpToRel(<, Nat)
      BY <3>1 DEF OpToRel
    <3> QED
      BY <1>1, <3>2
  <2> QED
    BY <2>1
<1> QED
  BY <1>2 DEF Min

LEMMA GreatestIs ==
  ASSUME NEW n \in Nat, NEW S \in SUBSET (0 .. n), S # {}
  PROVE  Max(S) \in S /\ \A y \in S : Max(S) >= y
<1> DEFINE T == {n - x : x \in S}
<1>1. T \in SUBSET Nat /\ T # {}
  <2>1. \A x \in S : n - x \in Nat
    OBVIOUS
  <2> QED
    BY <2>1
<1>2. PICK t \in T : \A y \in T : t <= y
  BY <1>1, LeastIs
<1>3. PICK x \in S : t = n - x
  BY <1>2
<1>4. \A y \in S : x >= y
  BY <1>2, <1>3
<1> QED
  BY <1>3, <1>4 DEF Max

\* What holds for 0, and for a number if for the one before, holds up to n.
LEMMA CountUp ==
  ASSUME NEW n \in Nat, NEW P, 0 \in P, \A i \in 1 .. n : i - 1 \in P => i \in P
  PROVE  0 .. n \subseteq P
<1> DEFINE Bad == {i \in 0 .. n : i \notin P}
<1>1. CASE Bad # {}
  <2>1. Bad \in SUBSET Nat
    OBVIOUS
  <2>2. Min(Bad) \in Bad /\ \A i \in Bad : Min(Bad) <= i
    BY <1>1, <2>1, LeastIs
  <2> DEFINE b == Min(Bad)
  <2> HIDE DEF b
  <2>3. b \in 0 .. n /\ b \notin P /\ \A i \in 0 .. n : i \notin P => b <= i
    BY <2>2 DEF b
  <2>4. b \in 1 .. n /\ b - 1 \in 0 .. n /\ ~ (b <= b - 1)
    BY <2>3
  <2> QED
    BY <2>3, <2>4
<1> QED
  BY <1>1

\* The rules of a walk of n steps, and a walk from b that keeps to them.
Paces(n, V) == [(1 .. n) \X V -> V]

Course(f, n, b, G) == f[0] = b /\ \A i \in 1 .. n : f[i] = G[<<i, f[i - 1]>>]

\* A value that is computed along a list, step by step from b, exists.
LEMMA CourseExists ==
  ASSUME NEW n \in Nat, NEW V, NEW b \in V, NEW G \in Paces(n, V)
  PROVE  \E f \in [0 .. n -> V] : Course(f, n, b, G)
<1> DEFINE P == {m \in 0 .. n : \E f \in [0 .. m -> V] : Course(f, m, b, G)}
<1>1. 0 \in P
  <2> DEFINE f == [i \in 0 .. 0 |-> b]
  <2>1. f \in [0 .. 0 -> V] /\ f[0] = b
    OBVIOUS
  <2>2. \A i \in 1 .. 0 : f[i] = G[<<i, f[i - 1]>>]
    OBVIOUS
  <2> HIDE DEF f
  <2>3. 0 \in 0 .. n
    OBVIOUS
  <2> QED
    BY <2>1, <2>2, <2>3 DEF Course
<1>2. ASSUME NEW m \in 1 .. n, m - 1 \in P  PROVE m \in P
  <2>1. PICK f \in [0 .. m - 1 -> V] :
               f[0] = b /\ \A i \in 1 .. m - 1 : f[i] = G[<<i, f[i - 1]>>]
    BY <1>2 DEF Course
  <2> DEFINE g == [i \in 0 .. m |-> IF i = m THEN G[<<m, f[m - 1]>>] ELSE f[i]]
  <2>2. f[m - 1] \in V
    BY <2>1
  <2>3. G[<<m, f[m - 1]>>] \in V
    BY <2>2 DEF Paces
  <2>4. \A i \in 0 .. m : i # m => i \in 0 .. m - 1
    OBVIOUS
  <2>5. g \in [0 .. m -> V]
    BY <2>1, <2>3, <2>4
  <2>6. \A i \in 0 .. m - 1 : g[i] = f[i]
    OBVIOUS
  <2>7. g[m] = G[<<m, f[m - 1]>>]
    OBVIOUS
  <2> HIDE DEF g
  <2>8. g[0] = b
    BY <2>1, <2>6
  <2>9. ASSUME NEW i \in 1 .. m  PROVE g[i] = G[<<i, g[i - 1]>>]
    <3>1. i - 1 \in 0 .. m - 1
      OBVIOUS
    <3>2. CASE i = m
      BY <2>6, <2>7, <3>1, <3>2
    <3>3. CASE i # m
      <4>1. i \in 1 .. m - 1 /\ i \in 0 .. m - 1
        BY <3>3
      <4> QED
        BY <2>1, <2>6, <3>1, <4>1
    <3> QED
      BY <3>2, <3>3
  <2> QED
    BY <2>5, <2>8, <2>9 DEF Course
<1> HIDE DEF P
<1>3. 0 .. n \subseteq P
  BY <1>1, <1>2, CountUp
<1> QED
  BY <1>3 DEF P

-----------------------------------------------------------------------------
(* Some of the places of a list *)

Orders(r, S) ==
  /\ r \in [1 .. Cardinality(S) -> S]
  /\ \A i, j \in 1 .. Cardinality(S) : i < j => r[i] < r[j]
  /\ \A k \in S : \E i \in 1 .. Cardinality(S) : r[i] = k

\* A set of numbers up to n can be put in ascending order.
LEMMA CanAscend ==
  ASSUME NEW n \in Nat
  PROVE  \A S \in SUBSET (1 .. n) : Cardinality(S) \in Nat /\ \E r : Orders(r, S)
<1> DEFINE Good(m) == \A S \in SUBSET (1 .. m) : \E r : Orders(r, S)
           Bad == {m \in Nat : ~Good(m)}
<1>1. \A m \in Nat : \A S \in SUBSET (1 .. m) : IsFiniteSet(S) /\ Cardinality(S) \in Nat
  <2> TAKE m \in Nat
  <2> TAKE S \in SUBSET (1 .. m)
  <2>1. IsFiniteSet(1 .. m)
    BY FS_Interval
  <2>2. IsFiniteSet(S)
    BY <2>1, FS_Subset
  <2> QED
    BY <2>2, FS_CardinalityType
<1>2. Good(0)
  <2> SUFFICES ASSUME NEW S \in SUBSET (1 .. 0)
               PROVE  \E r : Orders(r, S)
    OBVIOUS
  <2>1. S = {}
    OBVIOUS
  <2>2. Cardinality(S) = 0
    BY <2>1, FS_EmptySet
  <2>3. Orders([i \in 1 .. 0 |-> i], S)
    BY <2>1, <2>2 DEF Orders
  <2> QED
    BY <2>3
<1>3. ASSUME NEW m \in Nat, Good(m)  PROVE Good(m + 1)
  <2> SUFFICES ASSUME NEW S \in SUBSET (1 .. m + 1)
               PROVE  \E r : Orders(r, S)
    OBVIOUS
  <2>1. CASE m + 1 \notin S
    <3>1. S \in SUBSET (1 .. m)
      BY <2>1
    <3> QED
      BY <1>3, <3>1
  <2>2. CASE m + 1 \in S
    <3> DEFINE T == S \ {m + 1}
               c == Cardinality(T)
    <3>1. T \in SUBSET (1 .. m)
      OBVIOUS
    <3>2. PICK r : Orders(r, T)
      BY <1>3, <3>1
    <3>3. c \in Nat /\ Cardinality(S) = c + 1
      <4>1. IsFiniteSet(T) /\ c \in Nat
        BY <1>1, <3>1
      <4>2. S = T \cup {m + 1}
        BY <2>2
      <4>3. m + 1 \notin T
        OBVIOUS
      <4> HIDE DEF T
      <4> QED
        BY <4>1, <4>2, <4>3, FS_AddElement
    <3> DEFINE q == [i \in 1 .. c + 1 |-> IF i = c + 1 THEN m + 1 ELSE r[i]]
    <3>4. /\ \A i \in 1 .. c : r[i] \in 1 .. m /\ r[i] \in S
          /\ \A i, j \in 1 .. c : i < j => r[i] < r[j]
          /\ \A k \in T : \E i \in 1 .. c : r[i] = k
      BY <3>1, <3>2 DEF Orders
    <3> HIDE DEF c
    <3>5. q \in [1 .. Cardinality(S) -> S]
      BY <2>2, <3>3, <3>4
    <3>6. ASSUME NEW i \in 1 .. c + 1, NEW j \in 1 .. c + 1, i < j
          PROVE  q[i] < q[j]
      <4>1. i \in 1 .. c /\ i # c + 1
        BY <3>3, <3>6
      <4>2. CASE j = c + 1
        BY <3>3, <3>4, <4>1, <4>2
      <4>3. CASE j # c + 1
        <5>1. j \in 1 .. c
          BY <3>3, <4>3
        <5> QED
          BY <3>3, <3>4, <3>6, <4>1, <5>1
      <4> QED
        BY <4>2, <4>3
    <3>7. ASSUME NEW k \in S  PROVE \E i \in 1 .. c + 1 : q[i] = k
      <4>1. CASE k = m + 1
        <5>1. c + 1 \in 1 .. c + 1 /\ q[c + 1] = k
          BY <3>3, <4>1
        <5> QED
          BY <5>1
      <4>2. CASE k # m + 1
        <5>1. PICK i \in 1 .. c : r[i] = k
          BY <3>4, <4>2
        <5>2. i \in 1 .. c + 1 /\ i # c + 1
          BY <3>3
        <5> QED
          BY <5>1, <5>2
      <4> QED
        BY <4>1, <4>2
    <3> HIDE DEF q
    <3>8. Orders(q, S)
      BY <3>3, <3>5, <3>6, <3>7 DEF Orders
    <3> QED
      BY <3>8
  <2> QED
    BY <2>1, <2>2
<1> HIDE DEF Good
<1>4. Bad = {}
  <2> SUFFICES ASSUME Bad # {}  PROVE FALSE
    OBVIOUS
  <2>1. Min(Bad) \in Bad /\ \A m \in Bad : Min(Bad) <= m
    BY LeastIs
  <2> DEFINE b == Min(Bad)
  <2>2. b \in Nat \ {0}
    BY <1>2, <2>1
  <2>3. b - 1 \in Nat /\ b - 1 \notin Bad /\ (b - 1) + 1 = b
    BY <2>1, <2>2
  <2>4. Good(b)
    BY <1>3, <2>3
  <2> QED
    BY <2>1, <2>4
<1> QED
  BY <1>1, <1>4 DEF Good

LEMMA AscendingIs ==
  ASSUME NEW n \in Nat, NEW S \in SUBSET (1 .. n)
  PROVE  Cardinality(S) \in Nat /\ Orders(Ascending(S), S)
<1> DEFINE c == Cardinality(S)
           Fits(r) == r \in Bijection(1 .. c, S) /\ \A i, j \in DOMAIN r : i < j => r[i] < r[j]
<1>1. c \in Nat
  BY CanAscend
<1>2. PICK q : Orders(q, S)
  BY CanAscend
<1>3. Fits(q)
  <2>1. \A i \in 1 .. c : q[i] \in 1 .. n
    BY <1>2 DEF Orders
  <2>2. \A i, j \in 1 .. c : q[i] = q[j] => i = j
    <3>1. \A i, j \in 1 .. c : i < j \/ j < i \/ i = j
      BY <1>1
    <3> QED
      BY <1>2, <2>1, <3>1 DEF Orders
  <2>3. IsInjective(q)
    BY <1>2, <2>2 DEF Orders, IsInjective
  <2> QED
    BY <1>2, <2>3 DEF Orders, Bijection, Injection, Surjection
<1>4. Fits(Ascending(S))
  BY <1>3 DEF Ascending
<1> HIDE DEF c
<1>5. \A r : Fits(r) => /\ r \in [1 .. c -> S] /\ \A i, j \in 1 .. c : i < j => r[i] < r[j]
                        /\ \A k \in S : \E i \in 1 .. c : r[i] = k
  BY DEF Bijection, Injection, Surjection
<1> HIDE DEF Fits
<1> QED
  BY <1>1, <1>4, <1>5 DEF Orders, c

\* The entries at some places are in the old order, each once.
LEMMA SublistIs ==
  ASSUME NEW S, NEW s \in Seq(S), NEW K \in SUBSET DOMAIN s
  PROVE  /\ Sublist(s, K) \in Seq(S)
         /\ \E r : /\ Orders(r, K)
                   /\ Cardinality(K) = Len(Sublist(s, K))
                   /\ \A j \in 1 .. Len(Sublist(s, K)) : Sublist(s, K)[j] = s[r[j]]
<1> DEFINE r == Ascending(K)
           c == Cardinality(K)
           t == [j \in 1 .. c |-> s[r[j]]]
<1>1. DOMAIN s = 1 .. Len(s) /\ Len(s) \in Nat
  OBVIOUS
<1>2. c \in Nat /\ Orders(r, K)
  BY <1>1, AscendingIs
<1> HIDE DEF r
<1>3. \A j \in 1 .. c : r[j] \in DOMAIN s
  BY <1>2 DEF Orders
<1>4. Sublist(s, K) = t
  <2>1. DOMAIN r = 1 .. c
    BY <1>2 DEF Orders
  <2> QED
    BY <2>1 DEF Sublist, r
<1> HIDE DEF c
<1>5. t \in Seq(S) /\ Len(t) = c /\ \A j \in 1 .. c : t[j] = s[r[j]]
  BY <1>1, <1>2, <1>3
<1> HIDE DEF t
<1> QED
  BY <1>2, <1>4, <1>5 DEF c

-----------------------------------------------------------------------------
(* Queues and lists *)

LEMMA OneIsSeq ==
  ASSUME NEW S, NEW e \in S
  PROVE  <<e>> \in Seq(S)
OBVIOUS

LEMMA HeadIs ==
  ASSUME NEW S, NEW q \in Seq(S), q # <<>>
  PROVE  Head(q) \in S /\ Tail(q) \in Seq(S)
OBVIOUS

\* A list with s inserted behind its first k entries.
LEMMA InsertIs ==
  ASSUME NEW l \in Seq(Int), NEW k \in 0 .. Len(l), NEW s \in Int
  PROVE  /\ InsertAt(l, k + 1, s) \in Seq(Int)
         /\ Len(InsertAt(l, k + 1, s)) = Len(l) + 1
         /\ \A i \in 1 .. Len(l) + 1 :
              InsertAt(l, k + 1, s)[i] = IF i <= k THEN l[i]
                                         ELSE IF i = k + 1 THEN s ELSE l[i - 1]
<1> DEFINE u == SubSeq(l, 1, k)
           v == SubSeq(l, k + 1, Len(l))
           us == u \o <<s>>
           all == us \o v
<1>1. /\ u \in Seq(Int) /\ v \in Seq(Int) /\ Len(u) = k /\ Len(v) = Len(l) - k
      /\ \A i \in 1 .. k : u[i] = l[i]
      /\ \A i \in 1 .. Len(l) - k : v[i] = l[k + i]
      /\ Len(l) \in Nat
  OBVIOUS
<1>2. InsertAt(l, k + 1, s) = all
  <2>1. (k + 1) - 1 = k
    OBVIOUS
  <2>2. InsertAt(l, k + 1, s)
          = SubSeq(l, 1, (k + 1) - 1) \o <<s>> \o SubSeq(l, k + 1, Len(l))
    BY Zenon DEF InsertAt
  <2> QED
    BY <2>1, <2>2, Zenon
<1> HIDE DEF u, v
<1>3. <<s>> \in Seq(Int) /\ Len(<<s>>) = 1 /\ <<s>>[1] = s
  OBVIOUS
<1>4. /\ us \in Seq(Int) /\ Len(us) = k + 1
      /\ \A i \in 1 .. k + 1 : us[i] = IF i <= k THEN u[i] ELSE <<s>>[i - k]
  BY <1>1, <1>3, ConcatProperties
<1> HIDE DEF us
<1>5. /\ all \in Seq(Int) /\ Len(all) = Len(us) + Len(v)
      /\ \A i \in 1 .. Len(us) + Len(v) :
           all[i] = IF i <= Len(us) THEN us[i] ELSE v[i - Len(us)]
  BY <1>1, <1>4, ConcatProperties
<1> HIDE DEF all
<1>6. Len(all) = Len(l) + 1
  BY <1>1, <1>4, <1>5
<1>7. ASSUME NEW i \in 1 .. Len(l) + 1
      PROVE  all[i] = IF i <= k THEN l[i] ELSE IF i = k + 1 THEN s ELSE l[i - 1]
  <2>1. i \in 1 .. Len(us) + Len(v)
    BY <1>1, <1>4
  <2>2. CASE i <= k
    <3>1. i \in 1 .. k /\ i \in 1 .. k + 1
      BY <2>2
    <3> QED
      BY <1>1, <1>4, <1>5, <2>1, <2>2, <3>1
  <2>3. CASE i = k + 1
    <3>1. ~(i <= k) /\ i - k = 1 /\ i \in 1 .. k + 1
      BY <1>1, <2>3
    <3> QED
      BY <1>3, <1>4, <1>5, <2>1, <2>3, <3>1
  <2>4. CASE i > k + 1
    <3>1. i - (k + 1) \in 1 .. Len(l) - k /\ k + (i - (k + 1)) = i - 1 /\ ~(i <= k + 1)
      BY <1>1, <2>4
    <3>2. all[i] = v[i - (k + 1)]
      BY <1>4, <1>5, <2>1, <3>1
    <3>3. v[i - (k + 1)] = l[i - 1]
      BY <1>1, <3>1
    <3>4. ~(i <= k) /\ i # k + 1
      BY <1>1, <2>4
    <3> QED
      BY <3>2, <3>3, <3>4
  <2> QED
    BY <2>2, <2>3, <2>4
<1> QED
  BY <1>2, <1>5, <1>6, <1>7

LEMMA InsertType ==
  ASSUME NEW S, NEW l \in Seq(S), NEW k \in 0 .. Len(l), NEW s \in S
  PROVE  InsertAt(l, k + 1, s) \in Seq(S)
<1> DEFINE u == SubSeq(l, 1, k)
           v == SubSeq(l, k + 1, Len(l))
<1>1. u \in Seq(S) /\ v \in Seq(S) /\ <<s>> \in Seq(S)
  OBVIOUS
<1>2. InsertAt(l, k + 1, s) = (u \o <<s>>) \o v
  <2>1. (k + 1) - 1 = k
    OBVIOUS
  <2>2. InsertAt(l, k + 1, s)
          = SubSeq(l, 1, (k + 1) - 1) \o <<s>> \o SubSeq(l, k + 1, Len(l))
    BY Zenon DEF InsertAt
  <2> QED
    BY <2>1, <2>2, Zenon
<1> HIDE DEF u, v
<1> DEFINE us == u \o <<s>>
<1>3. us \in Seq(S)
  BY <1>1
<1> HIDE DEF us
<1>4. us \o v \in Seq(S)
  BY <1>1, <1>3
<1> QED
  BY <1>2, <1>4 DEF us

\* The entry of a list taken away, whatever it is.
LEMMA RemoveIs ==
  ASSUME NEW S, NEW s \in Seq(S), NEW i \in DOMAIN s
  PROVE  /\ RemoveAt(s, i) \in Seq(S)
         /\ Len(RemoveAt(s, i)) = Len(s) - 1
         /\ \A j \in 1 .. Len(s) - 1 :
              RemoveAt(s, i)[j] = s[IF j < i THEN j ELSE j + 1]
<1> DEFINE u == SubSeq(s, 1, i - 1)
           v == SubSeq(s, i + 1, Len(s))
           t == u \o v
<1>1. i \in 1 .. Len(s) /\ Len(s) \in Nat
  OBVIOUS
<1>2. /\ u \in Seq(S) /\ v \in Seq(S)
      /\ Len(u) = i - 1 /\ Len(v) = Len(s) - i
      /\ \A j \in 1 .. i - 1 : u[j] = s[j]
      /\ \A j \in 1 .. Len(s) - i : v[j] = s[i + j]
  BY <1>1
<1> HIDE DEF u, v
<1>3. t \in Seq(S) /\ Len(t) = Len(s) - 1
  BY <1>1, <1>2
<1>4. \A k \in 1 .. Len(u) + Len(v) : t[k] = IF k <= Len(u) THEN u[k] ELSE v[k - Len(u)]
  BY <1>2, ConcatProperties
<1>5. ASSUME NEW j \in 1 .. Len(s) - 1
      PROVE  t[j] = s[IF j < i THEN j ELSE j + 1]
  <2>1. CASE j < i
    BY <1>1, <1>2, <1>4, <2>1
  <2>2. CASE ~ (j < i)
    <3>1. j - Len(u) \in 1 .. Len(s) - i /\ i + (j - Len(u)) = j + 1
      BY <1>1, <1>2, <2>2
    <3>2. j \in 1 .. Len(u) + Len(v) /\ ~ (j <= Len(u))
      BY <1>1, <1>2, <2>2
    <3> QED
      BY <1>2, <1>4, <2>2, <3>1, <3>2
  <2> QED
    BY <2>1, <2>2
<1> HIDE DEF t
<1> QED
  BY <1>3, <1>5 DEF t, u, v, RemoveAt

\* One list behind another.
LEMMA JoinIs ==
  ASSUME NEW S, NEW u \in Seq(S), NEW v \in Seq(S)
  PROVE  /\ u \o v \in Seq(S)
         /\ ToSet(u \o v) = ToSet(u) \cup ToSet(v)
         /\ IsInjective(u) /\ IsInjective(v) /\ ToSet(u) \cap ToSet(v) = {} => IsInjective(u \o v)
<1> DEFINE t == u \o v
           m == Len(u)
           n == Len(v)
<1>1. m \in Nat /\ n \in Nat /\ DOMAIN u = 1 .. m /\ DOMAIN v = 1 .. n
  OBVIOUS
<1>2. t \in Seq(S) /\ DOMAIN t = 1 .. m + n
  OBVIOUS
<1>3. \A k \in 1 .. m + n : t[k] = IF k <= m THEN u[k] ELSE v[k - m]
  BY ConcatProperties
<1> HIDE DEF t, m, n
<1>4. \A k \in 1 .. m : k \in 1 .. m + n /\ t[k] = u[k]
  BY <1>1, <1>3
<1>5. \A k \in 1 .. n : m + k \in 1 .. m + n /\ t[m + k] = v[k]
  <2> SUFFICES ASSUME NEW k \in 1 .. n  PROVE m + k \in 1 .. m + n /\ t[m + k] = v[k]
    OBVIOUS
  <2>1. m + k \in 1 .. m + n /\ ~ (m + k <= m) /\ (m + k) - m = k
    BY <1>1
  <2> QED
    BY <1>3, <2>1
<1>6. \A k \in 1 .. m + n : k \in 1 .. m \/ (k - m \in 1 .. n /\ t[k] = v[k - m] /\ ~ (k <= m))
  BY <1>1, <1>3
<1>7. ToSet(t) = ToSet(u) \cup ToSet(v)
  <2>1. ASSUME NEW k \in 1 .. m + n  PROVE t[k] \in ToSet(u) \cup ToSet(v)
    <3>1. CASE k \in 1 .. m
      BY <1>1, <1>4, <3>1 DEF ToSet
    <3>2. CASE k - m \in 1 .. n /\ t[k] = v[k - m]
      BY <1>1, <3>2 DEF ToSet
    <3> QED
      BY <1>6, <3>1, <3>2
  <2>2. \A k \in 1 .. m : u[k] \in ToSet(t)
    BY <1>2, <1>4 DEF ToSet
  <2>3. \A k \in 1 .. n : v[k] \in ToSet(t)
    BY <1>2, <1>5 DEF ToSet
  <2> QED
    BY <1>1, <1>2, <2>1, <2>2, <2>3 DEF ToSet
<1>8. ASSUME IsInjective(u), IsInjective(v), ToSet(u) \cap ToSet(v) = {}
      PROVE  IsInjective(t)
  <2> SUFFICES ASSUME NEW k \in 1 .. m + n, NEW l \in 1 .. m + n, t[k] = t[l]
               PROVE  k = l
    BY <1>2 DEF IsInjective
  <2>1. \A i \in 1 .. m, j \in 1 .. n : u[i] # v[j]
    BY <1>1, <1>8 DEF ToSet
  <2>2. CASE k <= m /\ l <= m
    <3>1. k \in 1 .. m /\ l \in 1 .. m
      BY <1>1, <2>2
    <3> QED
      BY <1>1, <1>4, <1>8, <3>1 DEF IsInjective
  <2>3. CASE ~ (k <= m) /\ ~ (l <= m)
    <3>1. k - m \in 1 .. n /\ l - m \in 1 .. n /\ v[k - m] = v[l - m]
      BY <1>1, <1>3, <2>3
    <3>2. k - m = l - m
      BY <1>1, <1>8, <3>1 DEF IsInjective
    <3> QED
      BY <1>1, <3>2
  <2>4. CASE (k <= m) # (l <= m)
    BY <1>1, <1>4, <1>6, <2>1, <2>4
  <2> QED
    BY <2>2, <2>3, <2>4
<1> QED
  BY <1>2, <1>7, <1>8 DEF t

\* Lists without repetition, of which no two share an entry.
Separate(ss) ==
  /\ \A i \in DOMAIN ss : IsInjective(ss[i])
  /\ \A i, j \in DOMAIN ss : ToSet(ss[i]) \cap ToSet(ss[j]) # {} => i = j

\* Strung together, they hold what they held, each entry once.
LEMMA FlattenIs ==
  ASSUME NEW S, NEW ss \in Seq(Seq(S)), Separate(ss)
  PROVE  /\ FlattenSeq(ss) \in Seq(S)
         /\ IsInjective(FlattenSeq(ss))
         /\ \A e : e \in ToSet(FlattenSeq(ss)) <=> \E i \in DOMAIN ss : e \in ToSet(ss[i])
<1> SUFFICES ASSUME NEW n \in Nat, Len(ss) = n,
                    \A i \in 1 .. n : IsInjective(ss[i]),
                    \A i, j \in 1 .. n : ToSet(ss[i]) \cap ToSet(ss[j]) # {} => i = j
             PROVE  /\ FlattenSeq(ss) \in Seq(S)
                    /\ IsInjective(FlattenSeq(ss))
                    /\ \A e : e \in ToSet(FlattenSeq(ss)) <=>
                              \E i \in 1 .. n : e \in ToSet(ss[i])
  <2>1. Len(ss) \in Nat /\ DOMAIN ss = 1 .. Len(ss)
    OBVIOUS
  <2> QED
    BY <2>1 DEF Separate
<1>1. CASE n = 0
  <2>1. FlattenSeq(ss) = ss /\ ss = <<>>
    BY <1>1 DEF FlattenSeq
  <2>2. <<>> \in Seq(S) /\ DOMAIN <<>> = {}
    OBVIOUS
  <2> QED
    BY <1>1, <2>1, <2>2 DEF IsInjective, ToSet
<1>2. CASE n # 0
  <2> DEFINE f == CHOOSE f : f = [i \in 1 .. n |-> IF i = 1 THEN ss[i] ELSE f[i - 1] \o ss[i]]
             Q(m) == /\ f[m] \in Seq(S) /\ IsInjective(f[m])
                     /\ \A e : e \in ToSet(f[m]) <=> \E i \in 1 .. m : e \in ToSet(ss[i])
             P == {0} \cup {m \in 1 .. n : Q(m)}
             G == [x \in (1 .. n) \X Seq(S) |-> IF x[1] = 1 THEN ss[1] ELSE x[2] \o ss[x[1]]]
  <2>1. FlattenSeq(ss) = f[n]
    BY <1>2 DEF FlattenSeq
  <2>2. \A i \in 1 .. n : ss[i] \in Seq(S)
    OBVIOUS
  <2>3. \E h : h = [i \in 1 .. n |-> IF i = 1 THEN ss[i] ELSE h[i - 1] \o ss[i]]
    <3>1. \A x \in (1 .. n) \X Seq(S) : x[2] \o ss[x[1]] \in Seq(S)
      <4>1. ASSUME NEW i \in 1 .. n, NEW v \in Seq(S)  PROVE v \o ss[i] \in Seq(S)
        BY <2>2
      <4> QED
        BY <4>1
    <3>2. 1 \in 1 .. n
      BY <1>2
    <3>3. G \in [(1 .. n) \X Seq(S) -> Seq(S)]
      BY <2>2, <3>1, <3>2
    <3>4. \A i \in 1 .. n, v \in Seq(S) : G[<<i, v>>] = IF i = 1 THEN ss[i] ELSE v \o ss[i]
      OBVIOUS
    <3>5. <<>> \in Seq(S)
      OBVIOUS
    <3> HIDE DEF G
    <3> DEFINE V == Seq(S)
               b == <<>>
    <3> HIDE DEF V, b
    <3>0. \E g \in [0 .. n -> V] : Course(g, n, b, G)
      <4>1. b \in V /\ G \in Paces(n, V)
        BY <3>3, <3>5 DEF V, b, Paces
      <4> QED
        BY <4>1, CourseExists
    <3>6. PICK g \in [0 .. n -> Seq(S)] : \A i \in 1 .. n : g[i] = G[<<i, g[i - 1]>>]
      BY <3>0 DEF V, Course
    <3> DEFINE h == [i \in 1 .. n |-> g[i]]
    <3>7. ASSUME NEW i \in 1 .. n  PROVE h[i] = IF i = 1 THEN ss[i] ELSE h[i - 1] \o ss[i]
      <4>1. i - 1 \in 0 .. n /\ (i # 1 => i - 1 \in 1 .. n)
        OBVIOUS
      <4>2. g[i - 1] \in Seq(S)
        BY <3>6, <4>1
      <4>3. h[i] = IF i = 1 THEN ss[i] ELSE g[i - 1] \o ss[i]
        BY <3>4, <3>6, <4>2
      <4> QED
        BY <4>1, <4>3
    <3>8. h = [i \in 1 .. n |-> h[i]]
      OBVIOUS
    <3> HIDE DEF h
    <3>9. h = [i \in 1 .. n |-> IF i = 1 THEN ss[i] ELSE h[i - 1] \o ss[i]]
      BY <3>7, <3>8
    <3> QED
      BY <3>9
  <2>4. f = [i \in 1 .. n |-> IF i = 1 THEN ss[i] ELSE f[i - 1] \o ss[i]]
    BY <2>3
  <2> HIDE DEF f
  <2>5. \A i \in 1 .. n : f[i] = IF i = 1 THEN ss[i] ELSE f[i - 1] \o ss[i]
    BY <2>4
  <2>6. ASSUME NEW m \in 1 .. n, m - 1 \in P  PROVE m \in P
    <3>1. CASE m = 1
      <4>1. f[m] = ss[1]
        BY <2>5, <3>1
      <4> QED
        BY <2>2, <3>1, <4>1
    <3>2. CASE m # 1
      <4>1. m - 1 \in 1 .. n /\ Q(m - 1)
        BY <2>6, <3>2
      <4>2. f[m] = f[m - 1] \o ss[m]
        BY <2>5, <3>2
      <4>3. ToSet(f[m - 1]) \cap ToSet(ss[m]) = {}
        <5>1. \A i \in 1 .. m - 1 : i \in 1 .. n /\ i # m
          OBVIOUS
        <5> QED
          BY <4>1, <5>1
      <4>4. /\ f[m] \in Seq(S) /\ IsInjective(f[m])
            /\ ToSet(f[m]) = ToSet(f[m - 1]) \cup ToSet(ss[m])
        BY <2>2, <4>1, <4>2, <4>3, JoinIs
      <4>5. \A i : i \in 1 .. m <=> i \in 1 .. m - 1 \/ i = m
        BY <3>2
      <4> QED
        BY <4>1, <4>4, <4>5
    <3> QED
      BY <3>1, <3>2
  <2>7. 0 .. n \subseteq P
    <3>1. 0 \in P
      OBVIOUS
    <3> HIDE DEF P
    <3> QED
      BY <2>6, <3>1, CountUp
  <2>8. n \in P
    <3>1. n \in 0 .. n
      OBVIOUS
    <3> HIDE DEF P
    <3> QED
      BY <2>7, <3>1
  <2>9. Q(n)
    BY <1>2, <2>8
  <2> HIDE DEF P
  <2> QED
    BY <2>1, <2>9
<1> QED
  BY <1>1, <1>2

=============================================================================
