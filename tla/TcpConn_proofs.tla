--------------------------- MODULE TcpConn_proofs ---------------------------
(***************************************************************************)
(* For all sets of clients and children, all capacities of the links and   *)
(* every number of retransmissions: the connection's state keeps its       *)
(* types, no connection is queued or handed out twice, and every walk      *)
(* along a bucket or a timer list comes to an end, as long as no two calls *)
(* on a list overlap.                                                      *)
(*                                                                         *)
(* What has to be told is what shape the lists have.  A bucket holds one   *)
(* socket or none, and a socket deleted still points to its head, so that  *)
(* deleting it again only empties the bucket.  Only the running client has *)
(* timers in its list, two at most; its TIME_WAIT timer may be put in      *)
(* twice, and then points to itself (ClientList).  The server's list may   *)
(* be bent: accept makes a socket ESTABLISHED whatever it has become, and  *)
(* a second FIN arms a timer that is armed.  This happens to one socket    *)
(* only, the one that accept returned, and a bent list still leads back to *)
(* its head, because a prev pointer of it that is wrong leads to no other  *)
(* entry (AddAgainIs, AddBentIs, DeleteBentIs).                            *)
(*                                                                         *)
(* For one client, and any number of children, of packets in flight and of *)
(* retransmissions: what the two sides make of each other, OneInv.  A      *)
(* packet with data or a FIN is on a link only if its application has got  *)
(* that far, nothing that follows it goes back behind it, and the other    *)
(* side has received only what was sent.  From this follow the properties  *)
(* of the handshake, of the data and of the close.                         *)
(***************************************************************************)
EXTENDS TcpConn, Lists_proofs

(* Lists in memory *)

\* The node of the list q at place i: the head h is at 0, and again behind the
\* last entry.
Place(h, q, i) == IF i \in DOMAIN q THEN q[i] ELSE h

\* Forward from the head h the entries are q; all its nodes are in N.
IsList(m, N, h, q) ==
  /\ q \in Seq(N) /\ h \notin ToSet(q) /\ IsInjective(q)
  /\ \A i \in 0 .. Len(q) : m.next[Place(h, q, i)] = Place(h, q, i + 1)

\* And the same backward.
Linked(m, N, h, q) ==
  /\ IsList(m, N, h, q)
  /\ \A i \in 0 .. Len(q) : m.prev[Place(h, q, i + 1)] = Place(h, q, i)

\* An entry inserted while it is in the list leaves it bent: a prev pointer that
\* is wrong leads out of the list, or to its own node.
Bent(m, N, h, q) ==
  /\ IsList(m, N, h, q)
  /\ \A i \in 0 .. Len(q) :
       LET y == Place(h, q, i + 1)
       IN  \/ m.prev[y] = Place(h, q, i)
           \/ m.prev[y] = y /\ y # h
           \/ m.prev[y] \notin ToSet(q) \cup {h}

\* The nodes of the list, and those its prev pointers lead to.
Touched(m, h, q) == ToSet(q) \cup {m.prev[y] : y \in ToSet(q) \cup {h}}

\* The pointers of the nodes in N stay in N.
Closed(m, N) == \A n \in N : m.next[n] \in N /\ m.prev[n] \in N

(* What list_add_tail, list_delete_entry and list_add_head, into an empty list, do to
   every pointer. *)
LEMMA AddTailPointers ==
  ASSUME NEW D, NEW m \in Memory(D), NEW h \in D, NEW t \in D, t # h
  PROVE  /\ list_add_tail(m, t, h) \in Memory(D)
         /\ \A y \in D : list_add_tail(m, t, h).next[y] =
              IF y = t THEN h ELSE IF y = m.prev[h] THEN t ELSE m.next[y]
         /\ \A y \in D : list_add_tail(m, t, h).prev[y] =
              IF y = t THEN m.prev[h] ELSE IF y = h THEN t ELSE m.prev[y]
<1> DEFINE n == list_add_tail(m, t, h)
<1>1. m.prev[h] \in D
  BY DEF Memory
<1>2. n.next = [[m.next EXCEPT ![m.prev[h]] = t] EXCEPT ![t] = h]
  BY DEF list_add_tail, list_insert, Memory
<1>3. n.prev = [[m.prev EXCEPT ![h] = t] EXCEPT ![t] = m.prev[h]]
  BY DEF list_add_tail, list_insert, Memory
<1>4. n = [next |-> n.next, prev |-> n.prev]
  <2>1. PICK a \in [D -> D], b \in [D -> D] : m = [next |-> a, prev |-> b]
    BY DEF Memory
  <2>2. n = [[[[m EXCEPT !.prev[h] = t] EXCEPT !.next[m.prev[h]] = t] EXCEPT !.next[t] = h]
               EXCEPT !.prev[t] = m.prev[h]]
    BY DEF list_add_tail, list_insert
  <2> QED
    BY <2>1, <2>2
<1> HIDE DEF n
<1>5. m.next \in [D -> D] /\ m.prev \in [D -> D]
  BY DEF Memory
<1>6. n.next \in [D -> D] /\ n.prev \in [D -> D]
  BY <1>1, <1>2, <1>3, <1>5
<1>7. n \in Memory(D)
  BY <1>4, <1>6 DEF Memory
<1>8. \A y \in D : n.next[y] = IF y = t THEN h ELSE IF y = m.prev[h] THEN t ELSE m.next[y]
  BY <1>1, <1>2, <1>5
<1>9. \A y \in D : n.prev[y] = IF y = t THEN m.prev[h] ELSE IF y = h THEN t ELSE m.prev[y]
  BY <1>1, <1>3, <1>5
<1> QED
  BY <1>7, <1>8, <1>9 DEF n

LEMMA DeletePointers ==
  ASSUME NEW D, NEW m \in Memory(D), NEW e \in D
  PROVE  /\ list_delete_entry(m, e) \in Memory(D)
         /\ \A y \in D : list_delete_entry(m, e).next[y] =
              IF y = m.prev[e] THEN m.next[e] ELSE m.next[y]
         /\ \A y \in D : list_delete_entry(m, e).prev[y] =
              IF y = m.next[e] THEN m.prev[e] ELSE m.prev[y]
<1> DEFINE m1 == [m EXCEPT !.prev[m.next[e]] = m.prev[e]]
           n == list_delete_entry(m, e)
<1>1. m.next \in [D -> D] /\ m.prev \in [D -> D] /\ m = [next |-> m.next, prev |-> m.prev]
  BY DEF Memory
<1>2. m1.next = m.next /\ m1.prev = [m.prev EXCEPT ![m.next[e]] = m.prev[e]]
      /\ m1 = [next |-> m1.next, prev |-> m1.prev]
  BY <1>1
<1>3. n = [m1 EXCEPT !.next[m1.prev[e]] = m1.next[e]]
  BY DEF list_delete_entry
<1> HIDE DEF m1, n
<1>4. m1.prev[e] = m.prev[e]
  BY <1>1, <1>2
<1>5. n.next = [m.next EXCEPT ![m.prev[e]] = m.next[e]] /\ n.prev = m1.prev
      /\ n = [next |-> n.next, prev |-> n.prev]
  BY <1>1, <1>2, <1>3, <1>4
<1>6. n.next \in [D -> D] /\ n.prev \in [D -> D]
  BY <1>1, <1>2, <1>5
<1>7. n \in Memory(D)
  BY <1>5, <1>6 DEF Memory
<1>8. \A y \in D : n.next[y] = IF y = m.prev[e] THEN m.next[e] ELSE m.next[y]
  BY <1>1, <1>5
<1>9. \A y \in D : n.prev[y] = IF y = m.next[e] THEN m.prev[e] ELSE m.prev[y]
  BY <1>1, <1>2, <1>5
<1> QED
  BY <1>7, <1>8, <1>9 DEF n

LEMMA AddHeadPointers ==
  ASSUME NEW D, NEW m \in Memory(D), NEW h \in D, NEW t \in D, t # h, m.next[h] = h
  PROVE  /\ list_add_head(m, t, h) \in Memory(D)
         /\ \A y \in D : list_add_head(m, t, h).next[y] =
              IF y = t THEN h ELSE IF y = h THEN t ELSE m.next[y]
         /\ \A y \in D : list_add_head(m, t, h).prev[y] =
              IF y = t THEN h ELSE IF y = h THEN t ELSE m.prev[y]
<1> DEFINE n == list_add_head(m, t, h)
<1>2. n.next = [[m.next EXCEPT ![h] = t] EXCEPT ![t] = h]
  BY DEF list_add_head, list_insert, Memory
<1>3. n.prev = [[m.prev EXCEPT ![h] = t] EXCEPT ![t] = h]
  BY DEF list_add_head, list_insert, Memory
<1>4. n = [next |-> n.next, prev |-> n.prev]
  <2>1. PICK a \in [D -> D], b \in [D -> D] : m = [next |-> a, prev |-> b]
    BY DEF Memory
  <2>2. n = [[[[m EXCEPT !.prev[h] = t] EXCEPT !.next[h] = t] EXCEPT !.next[t] = h]
               EXCEPT !.prev[t] = h]
    BY DEF list_add_head, list_insert
  <2> QED
    BY <2>1, <2>2
<1> HIDE DEF n
<1>5. m.next \in [D -> D] /\ m.prev \in [D -> D]
  BY DEF Memory
<1>6. n.next \in [D -> D] /\ n.prev \in [D -> D]
  BY <1>2, <1>3, <1>5
<1>7. n \in Memory(D)
  BY <1>4, <1>6 DEF Memory
<1>8. \A y \in D : n.next[y] = IF y = t THEN h ELSE IF y = h THEN t ELSE m.next[y]
  BY <1>2, <1>5
<1>9. \A y \in D : n.prev[y] = IF y = t THEN h ELSE IF y = h THEN t ELSE m.prev[y]
  BY <1>3, <1>5
<1> QED
  BY <1>7, <1>8, <1>9 DEF n

LEMMA ListType ==
  ASSUME NEW m, NEW N, NEW h, NEW q, IsList(m, N, h, q)
  PROVE  /\ Len(q) \in Nat /\ DOMAIN q = 1 .. Len(q) /\ ToSet(q) = {q[i] : i \in 1 .. Len(q)}
         /\ \A i \in 1 .. Len(q) : q[i] \in N /\ q[i] # h /\ Place(h, q, i) = q[i]
         /\ \A i, j \in 1 .. Len(q) : q[i] = q[j] => i = j
         /\ Place(h, q, 0) = h /\ Place(h, q, Len(q) + 1) = h
         /\ \A i \in 0 .. Len(q) + 1 : Place(h, q, i) \in ToSet(q) \cup {h}
         /\ \A i, j \in 0 .. Len(q) : Place(h, q, i) = Place(h, q, j) => i = j
         /\ \A i, j \in 1 .. Len(q) + 1 : Place(h, q, i) = Place(h, q, j) => i = j
<1>1. q \in Seq(N) /\ h \notin ToSet(q) /\ IsInjective(q)
  BY DEF IsList
<1>2. Len(q) \in Nat /\ DOMAIN q = 1 .. Len(q) /\ \A i \in 1 .. Len(q) : q[i] \in N
  BY <1>1
<1>3. ToSet(q) = {q[i] : i \in 1 .. Len(q)}
  BY <1>2 DEF ToSet, Range
<1>4. \A i, j \in 1 .. Len(q) : q[i] = q[j] => i = j
  BY <1>1, <1>2 DEF IsInjective
<1>5. 0 \notin DOMAIN q /\ Len(q) + 1 \notin DOMAIN q
  BY <1>2
<1>6. /\ \A i \in 0 .. Len(q) + 1 : i = 0 \/ i = Len(q) + 1 \/ i \in 1 .. Len(q)
      /\ \A i \in 0 .. Len(q) : i = 0 \/ i \in 1 .. Len(q)
      /\ \A i \in 1 .. Len(q) + 1 : i = Len(q) + 1 \/ i \in 1 .. Len(q)
  BY <1>2
<1>7. /\ \A i \in 1 .. Len(q) : q[i] # h /\ Place(h, q, i) = q[i] /\ q[i] \in ToSet(q)
      /\ Place(h, q, 0) = h /\ Place(h, q, Len(q) + 1) = h
  BY <1>1, <1>2, <1>3, <1>5 DEF Place
<1>8. /\ \A i, j \in 0 .. Len(q) : Place(h, q, i) = Place(h, q, j) => i = j
      /\ \A i, j \in 1 .. Len(q) + 1 : Place(h, q, i) = Place(h, q, j) => i = j
      /\ \A i \in 0 .. Len(q) + 1 : Place(h, q, i) \in ToSet(q) \cup {h}
  BY <1>4, <1>6, <1>7
<1> QED
  BY <1>1, <1>2, <1>3, <1>4, <1>7, <1>8

\* A walk along a list meets its entries and ends at the head.
LEMMA WalkIs ==
  ASSUME NEW D, IsFiniteSet(D), NEW m \in Memory(D), NEW N \in SUBSET D, NEW h \in D, NEW q,
         IsList(m, N, h, q)
  PROVE  WalkEnds(m, h) /\ Entries(m, h) = ToSet(q)
<1> DEFINE n == Cardinality(D)
           l == Len(q)
           V == [at : D, met : SUBSET D]
           b == [at |-> m.next[h], met |-> {}]
           step(w) == IF w.at = h THEN w
                      ELSE [at |-> m.next[w.at], met |-> w.met \cup {w.at}]
           G == [x \in (1 .. n) \X V |-> step(x[2])]
           walk == CHOOSE f : f = [i \in 0 .. n |-> IF i = 0 THEN b ELSE step(f[i - 1])]
<1>1. m.next \in [D -> D] /\ DOMAIN m.next = D
  BY DEF Memory
<1>2. n \in Nat
  BY FS_CardinalityType
<1>3. Walk(m, h) = walk[n]
  BY <1>1 DEF Walk
<1>4. l \in Nat /\ l <= n
  <2>1. l \in Nat /\ DOMAIN q = 1 .. l /\ q \in [1 .. l -> D] /\ \A i, j \in 1 .. l : q[i] = q[j] => i = j
    <3>1. l \in Nat /\ DOMAIN q = 1 .. l /\ \A i \in 1 .. l : q[i] \in D
      BY ListType
    <3>2. q = [i \in 1 .. l |-> q[i]]
      BY <3>1 DEF IsList
    <3> QED
      BY <3>1, <3>2, ListType
  <2>2. q \in Injection(1 .. l, D)
    BY <2>1 DEF Injection, IsInjective
  <2>3. Cardinality(1 .. l) <= n
    BY <2>2, FS_Injection
  <2>4. Cardinality(1 .. l) = l
    BY <2>1, FS_Interval
  <2> QED
    BY <2>1, <2>3, <2>4
<1>5. \E f : f = [i \in 0 .. n |-> IF i = 0 THEN b ELSE step(f[i - 1])]
  <2>1. \A w \in V : step(w) \in V
    <3> SUFFICES ASSUME NEW w \in V  PROVE step(w) \in V
      OBVIOUS
    <3>1. w.at \in D /\ w.met \in SUBSET D /\ m.next[w.at] \in D
      BY <1>1
    <3>2. w.met \cup {w.at} \in SUBSET D
      BY <3>1
    <3> QED
      BY <3>1, <3>2
  <2>2. \A i \in 1 .. n, w \in V : G[<<i, w>>] = step(w)
    OBVIOUS
  <2>3. b \in V
    BY <1>1
  <2> HIDE DEF step
  <2>4. \A x \in (1 .. n) \X V : step(x[2]) \in V
    BY <2>1
  <2>5. G \in Paces(n, V)
    BY <2>4 DEF Paces
  <2> HIDE DEF G, V, n, b
  <2>6. PICK f \in [0 .. n -> V] : Course(f, n, b, G)
    BY <1>2, <2>3, <2>5, CourseExists
  <2>7. ASSUME NEW i \in 0 .. n
        PROVE  f[i] = IF i = 0 THEN b ELSE step(f[i - 1])
    <3>1. CASE i = 0
      BY <2>6, <3>1 DEF Course
    <3>2. CASE i # 0
      <4>1. i \in 1 .. n /\ i - 1 \in 0 .. n
        BY <1>2, <3>2
      <4>2. f[i - 1] \in V
        BY <2>6, <4>1
      <4> QED
        BY <2>2, <2>6, <3>2, <4>1, <4>2 DEF Course
    <3> QED
      BY <3>1, <3>2
  <2>8. f = [i \in 0 .. n |-> f[i]]
    BY <2>6
  <2>9. f = [i \in 0 .. n |-> IF i = 0 THEN b ELSE step(f[i - 1])]
    BY <2>7, <2>8
  <2> QED
    BY <2>9
<1>6. walk = [i \in 0 .. n |-> IF i = 0 THEN b ELSE step(walk[i - 1])]
  BY <1>5
<1> HIDE DEF walk, G, V
<1> DEFINE P == {i \in 0 .. n :
                   /\ walk[i].at = IF i <= l THEN Place(h, q, i + 1) ELSE h
                   /\ walk[i].met = {q[j] : j \in {j \in 1 .. l : j <= i}}}
<1>7. \A i \in 0 .. l : m.next[Place(h, q, i)] = Place(h, q, i + 1)
  BY DEF IsList
<1>8. /\ Place(h, q, 0) = h /\ Place(h, q, l + 1) = h
      /\ \A i \in 1 .. l : Place(h, q, i) = q[i] /\ q[i] # h
  BY ListType
<1>9. 0 \in P
  <2>1. walk[0] = b /\ 0 \in 0 .. n /\ 0 \in 0 .. l /\ 0 <= l
    BY <1>2, <1>4, <1>6
  <2>2. {q[j] : j \in {j \in 1 .. l : j <= 0}} = {}
    BY <1>4
  <2>3. b.at = m.next[h] /\ b.met = {}
    OBVIOUS
  <2> HIDE DEF b, n, l
  <2> QED
    BY <1>7, <1>8, <2>1, <2>2, <2>3
<1>10. ASSUME NEW i \in 1 .. n, i - 1 \in P  PROVE i \in P
  <2> DEFINE w == walk[i - 1]
  <2>1. i \in 0 .. n /\ i # 0 /\ walk[i] = step(w)
    <3> HIDE DEF b, step, l
    <3>1. i \in 0 .. n /\ i # 0
      BY <1>2
    <3> HIDE DEF n
    <3> QED
      BY <1>6, <3>1
  <2>2. /\ w.at = IF i - 1 <= l THEN Place(h, q, i) ELSE h
        /\ w.met = {q[j] : j \in {j \in 1 .. l : j <= i - 1}}
    BY <1>2, <1>10
  <2> HIDE DEF w, n, l
  <2>3. CASE i <= l
    <3>1. i \in 1 .. l /\ i \in 0 .. l /\ i - 1 <= l
      BY <1>2, <1>4, <2>3
    <3>2. w.at = q[i] /\ q[i] # h
      BY <1>8, <2>2, <3>1
    <3>3. walk[i] = [at |-> m.next[q[i]], met |-> w.met \cup {q[i]}]
      BY <2>1, <3>2
    <3>4. m.next[q[i]] = Place(h, q, i + 1)
      BY <1>7, <1>8, <3>1
    <3>5. {j \in 1 .. l : j <= i} = {j \in 1 .. l : j <= i - 1} \cup {i}
      BY <1>4, <3>1
    <3>6. {q[j] : j \in {j \in 1 .. l : j <= i}} = {q[j] : j \in {j \in 1 .. l : j <= i - 1}} \cup {q[i]}
      BY <3>5
    <3> QED
      BY <2>1, <2>2, <2>3, <3>3, <3>4, <3>6
  <2>4. CASE ~ (i <= l)
    <3>1. w.at = h
      <4>1. i - 1 <= l => i = l + 1
        BY <1>2, <1>4, <2>4
      <4> QED
        BY <1>8, <2>2, <4>1
    <3>2. walk[i] = w
      BY <2>1, <3>1
    <3>3. {j \in 1 .. l : j <= i} = {j \in 1 .. l : j <= i - 1}
      BY <1>2, <1>4, <2>4
    <3> QED
      BY <2>1, <2>2, <2>4, <3>1, <3>2, <3>3
  <2> QED
    BY <2>3, <2>4
<1> HIDE DEF P, n, l, b, step
<1>11. n \in P
  <2>1. n \in 0 .. n
    BY <1>2
  <2> QED
    BY <1>2, <1>9, <1>10, <2>1, CountUp
<1>12. walk[n].at = h
  <2>1. n <= l => n = l
    BY <1>2, <1>4
  <2> QED
    BY <1>8, <1>11, <2>1 DEF P
<1>13. walk[n].met = ToSet(q)
  <2>1. {j \in 1 .. l : j <= n} = 1 .. l
    BY <1>2, <1>4
  <2>2. ToSet(q) = {q[i] : i \in 1 .. l}
    BY ListType DEF l
  <2> QED
    BY <1>11, <2>1, <2>2 DEF P
<1> QED
  BY <1>3, <1>12, <1>13 DEF WalkEnds, Entries

LEMMA AppendIs ==
  ASSUME NEW m, NEW N, NEW h, NEW q, IsList(m, N, h, q), NEW t \in N, t \notin ToSet(q), t # h
  PROVE  /\ Append(q, t) \in Seq(N) /\ IsInjective(Append(q, t)) /\ Len(Append(q, t)) = Len(q) + 1
         /\ ToSet(Append(q, t)) = ToSet(q) \cup {t}
         /\ \A i \in 0 .. Len(q) : Place(h, Append(q, t), i) = Place(h, q, i)
         /\ Place(h, Append(q, t), Len(q) + 1) = t /\ Place(h, Append(q, t), Len(q) + 2) = h
<1> DEFINE l == Len(q)
           r == Append(q, t)
<1>1. l \in Nat /\ DOMAIN q = 1 .. l /\ ToSet(q) = {q[i] : i \in 1 .. l} /\ q \in Seq(N)
  <2>1. q \in Seq(N)
    BY DEF IsList
  <2> QED
    BY <2>1, ListType
<1>2. r \in Seq(N) /\ Len(r) = l + 1 /\ DOMAIN r = 1 .. l + 1
      /\ (\A i \in 1 .. l : r[i] = q[i]) /\ r[l + 1] = t
  BY <1>1
<1> HIDE DEF r
<1>3. \A i \in 1 .. l + 1 : i \in 1 .. l \/ i = l + 1
  BY <1>1
<1>4. ToSet(r) = ToSet(q) \cup {t}
  <2>1. ToSet(r) = {r[i] : i \in 1 .. l + 1}
    BY <1>2 DEF ToSet, Range
  <2>2. 1 .. l + 1 = (1 .. l) \cup {l + 1}
    BY <1>1
  <2> HIDE DEF l
  <2>3. {r[i] : i \in (1 .. l) \cup {l + 1}} = {q[i] : i \in 1 .. l} \cup {t}
    BY <1>2
  <2> QED
    BY <1>1, <2>1, <2>2, <2>3
<1>5. IsInjective(r)
  <2>1. \A i, j \in 1 .. l : q[i] = q[j] => i = j
    BY ListType
  <2>2. \A i \in 1 .. l : q[i] # t
    BY <1>1
  <2> QED
    BY <1>2, <1>3, <2>1, <2>2 DEF IsInjective
<1>6. \A i \in 0 .. l : Place(h, r, i) = Place(h, q, i)
  <2>1. \A i \in 0 .. l : i \in DOMAIN r <=> i \in DOMAIN q
    BY <1>1, <1>2
  <2> QED
    BY <1>1, <1>2, <2>1 DEF Place
<1>7. Place(h, r, l + 1) = t /\ Place(h, r, l + 2) = h
  <2>1. l + 1 \in DOMAIN r /\ l + 2 \notin DOMAIN r
    BY <1>1, <1>2
  <2> QED
    BY <1>2, <2>1 DEF Place
<1> QED
  BY <1>2, <1>4, <1>5, <1>6, <1>7 DEF r

\* A new entry behind the last one.
LEMMA AddForward ==
  ASSUME NEW D, NEW m \in Memory(D), NEW N \in SUBSET D, NEW h \in N, NEW q, IsList(m, N, h, q),
         NEW t \in N, t \notin ToSet(q), t # h, m.prev[h] = Place(h, q, Len(q))
  PROVE  IsList(list_add_tail(m, t, h), N, h, Append(q, t))
<1> DEFINE l == Len(q)
           r == Append(q, t)
           n == list_add_tail(m, t, h)
           p == m.prev[h]
<1>1. l \in Nat /\ h \in D /\ t \in D /\ p \in D
  BY ListType DEF Memory
<1>2. \A y \in D : n.next[y] = IF y = t THEN h ELSE IF y = p THEN t ELSE m.next[y]
  BY <1>1, AddTailPointers
<1>3. /\ r \in Seq(N) /\ IsInjective(r) /\ Len(r) = l + 1 /\ ToSet(r) = ToSet(q) \cup {t}
      /\ \A i \in 0 .. l : Place(h, r, i) = Place(h, q, i)
      /\ Place(h, r, l + 1) = t /\ Place(h, r, l + 2) = h
  BY AppendIs
<1>4. /\ \A i \in 0 .. l + 1 : Place(h, q, i) \in ToSet(q) \cup {h}
      /\ \A i, j \in 0 .. l : Place(h, q, i) = Place(h, q, j) => i = j
      /\ \A x \in ToSet(q) : x \in N
      /\ h \notin ToSet(q)
      /\ \A i \in 0 .. l : m.next[Place(h, q, i)] = Place(h, q, i + 1)
  <2>1. /\ h \notin ToSet(q)
        /\ \A i \in 0 .. l : m.next[Place(h, q, i)] = Place(h, q, i + 1)
    BY DEF IsList
  <2>2. /\ \A i \in 0 .. l + 1 : Place(h, q, i) \in ToSet(q) \cup {h}
        /\ \A i, j \in 0 .. l : Place(h, q, i) = Place(h, q, j) => i = j
    BY ListType
  <2>3. \A x \in ToSet(q) : x \in N
    BY ListType
  <2> QED
    BY <2>1, <2>2, <2>3
<1> HIDE DEF r, n, l, p
<1>5. ASSUME NEW i \in 0 .. l + 1  PROVE n.next[Place(h, r, i)] = Place(h, r, i + 1)
  <2>1. CASE i = l + 1
    <3>1. i + 1 = l + 2
      BY <1>1, <2>1
    <3> QED
      BY <1>1, <1>2, <1>3, <2>1, <3>1
  <2>2. CASE i = l
    <3>1. i \in 0 .. l /\ i + 1 = l + 1 /\ l \in 0 .. l + 1 /\ l \in 0 .. l
      BY <1>1, <2>2
    <3>2. Place(h, r, i) = p
      BY <1>3, <2>2, <3>1 DEF p, l
    <3>3. p # t
      BY <1>3, <1>4, <2>2, <3>1, <3>2
    <3> QED
      BY <1>1, <1>2, <1>3, <3>1, <3>2, <3>3, <2>2
  <2>3. CASE i # l + 1 /\ i # l
    <3>1. i \in 0 .. l /\ i + 1 \in 0 .. l /\ l \in 0 .. l /\ i # l /\ i \in 0 .. l + 1
      BY <1>1, <2>3
    <3>2. Place(h, r, i) = Place(h, q, i) /\ Place(h, r, i + 1) = Place(h, q, i + 1)
      BY <1>3, <3>1
    <3>3. Place(h, q, i) # t /\ Place(h, q, i) # p /\ Place(h, q, i) \in D
      BY <1>1, <1>4, <3>1 DEF p, l
    <3> QED
      BY <1>2, <1>4, <3>1, <3>2, <3>3
  <2> QED
    BY <2>1, <2>2, <2>3
<1> QED
  BY <1>3, <1>4, <1>5 DEF IsList, r, n, l

(* list_add_tail of a node that is not in the list. *)
LEMMA AddIs ==
  ASSUME NEW D, NEW m \in Memory(D), NEW N \in SUBSET D, NEW h \in N, NEW q, Linked(m, N, h, q),
         NEW t \in N, t \notin ToSet(q), t # h
  PROVE  /\ Linked(list_add_tail(m, t, h), N, h, Append(q, t))
         /\ ToSet(Append(q, t)) = ToSet(q) \cup {t}
<1> DEFINE l == Len(q)
           r == Append(q, t)
           n == list_add_tail(m, t, h)
<1>1. IsList(m, N, h, q) /\ \A i \in 0 .. l : m.prev[Place(h, q, i + 1)] = Place(h, q, i)
  BY DEF Linked
<1>2. l \in Nat /\ l \in 0 .. l /\ Place(h, q, l + 1) = h /\ h \in D /\ t \in D
  BY <1>1, ListType
<1>3. m.prev[h] = Place(h, q, l)
  BY <1>1, <1>2
<1>4. IsList(n, N, h, r)
  BY <1>1, <1>3, AddForward
<1>5. \A y \in D : n.prev[y] = IF y = t THEN m.prev[h] ELSE IF y = h THEN t ELSE m.prev[y]
  BY <1>2, AddTailPointers
<1>6. /\ Len(r) = l + 1 /\ ToSet(r) = ToSet(q) \cup {t}
      /\ \A i \in 0 .. l : Place(h, r, i) = Place(h, q, i)
      /\ Place(h, r, l + 1) = t /\ Place(h, r, l + 2) = h
  BY <1>1, AppendIs
<1>7. \A i \in 1 .. l : Place(h, q, i) \in D /\ Place(h, q, i) # h /\ Place(h, q, i) # t
  <2>1. \A i \in 1 .. l : Place(h, q, i) = q[i] /\ q[i] \in N /\ q[i] # h /\ q[i] \in ToSet(q)
    BY <1>1, ListType
  <2> QED
    BY <2>1
<1> HIDE DEF r, n, l
<1>8. ASSUME NEW i \in 0 .. l + 1  PROVE n.prev[Place(h, r, i + 1)] = Place(h, r, i)
  <2>1. CASE i = l + 1
    <3>1. i + 1 = l + 2
      BY <1>2, <2>1
    <3> QED
      BY <1>2, <1>5, <1>6, <2>1, <3>1
  <2>2. CASE i = l
    BY <1>2, <1>3, <1>5, <1>6, <2>2
  <2>3. CASE i # l + 1 /\ i # l
    <3>1. i \in 0 .. l /\ i + 1 \in 0 .. l /\ i + 1 \in 1 .. l
      BY <1>2, <2>3
    <3>2. Place(h, r, i) = Place(h, q, i) /\ Place(h, r, i + 1) = Place(h, q, i + 1)
      BY <1>6, <3>1
    <3> QED
      BY <1>1, <1>5, <1>7, <3>1, <3>2 DEF l
  <2> QED
    BY <2>1, <2>2, <2>3
<1> QED
  BY <1>4, <1>6, <1>8 DEF Linked, r, n, l

\* The same into a list that is bent, of an entry that nothing refers to: it is
\* behind the last one, or in no list.
LEMMA AddBentIs ==
  ASSUME NEW D, NEW m \in Memory(D), NEW N \in SUBSET D, NEW h \in N, NEW q, Bent(m, N, h, q),
         NEW t \in N, t \notin Touched(m, h, q), t # h
  PROVE  \E r : /\ Bent(list_add_tail(m, t, h), N, h, r)
                /\ Touched(list_add_tail(m, t, h), h, r) \subseteq Touched(m, h, q) \cup {t, h}
<1> DEFINE l == Len(q)
           r == Append(q, t)
           n == list_add_tail(m, t, h)
           p == m.prev[h]
           Bends(a, s, i) == LET y == Place(h, s, i + 1)
                             IN  \/ a.prev[y] = Place(h, s, i)
                                 \/ a.prev[y] = y /\ y # h
                                 \/ a.prev[y] \notin ToSet(s) \cup {h}
<1>1. IsList(m, N, h, q) /\ \A i \in 0 .. l : Bends(m, q, i)
  BY DEF Bent
<1>2. /\ l \in Nat /\ l \in 0 .. l /\ Place(h, q, l + 1) = h /\ h \in D /\ t \in D /\ p \in D
      /\ \A y \in ToSet(q) : y \in N /\ y \in D /\ y # h
      /\ ToSet(q) = {q[i] : i \in 1 .. l}
      /\ \A i \in 1 .. l : q[i] \in ToSet(q) /\ Place(h, q, i) = q[i]
      /\ \A i \in 0 .. l : Place(h, q, i) \in ToSet(q) \cup {h}
  BY <1>1, ListType DEF Memory
<1>3. t \notin ToSet(q) /\ \A y \in ToSet(q) \cup {h} : m.prev[y] # t
  BY DEF Touched
<1>4. /\ \A y \in D : n.next[y] = IF y = t THEN h ELSE IF y = p THEN t ELSE m.next[y]
      /\ \A y \in D : n.prev[y] = IF y = t THEN p ELSE IF y = h THEN t ELSE m.prev[y]
  BY <1>2, AddTailPointers
<1>5. Bends(m, q, l)
  BY <1>1, <1>2
<1>6. p = Place(h, q, l) \/ p \notin ToSet(q) \cup {h}
  BY <1>2, <1>5
<1>7. CASE p = Place(h, q, l)
  <2>1. IsList(n, N, h, r)
    BY <1>1, <1>3, <1>7, AddForward
  <2>2. /\ Len(r) = l + 1 /\ ToSet(r) = ToSet(q) \cup {t}
        /\ \A i \in 0 .. l : Place(h, r, i) = Place(h, q, i)
        /\ Place(h, r, l + 1) = t /\ Place(h, r, l + 2) = h
    BY <1>1, <1>3, AppendIs
  <2> HIDE DEF r, n, l, p
  <2>3. ASSUME NEW i \in 0 .. l + 1  PROVE Bends(n, r, i)
    <3>1. CASE i = l + 1
      <4>1. i + 1 = l + 2
        BY <1>2, <3>1
      <4> QED
        BY <1>2, <1>4, <2>2, <3>1, <4>1
    <3>2. CASE i = l
      BY <1>2, <1>4, <1>7, <2>2, <3>2
    <3>3. CASE i # l + 1 /\ i # l
      <4>1. i \in 0 .. l /\ i + 1 \in 0 .. l /\ i + 1 \in 1 .. l
        <5>1. l \in Nat
          BY <1>2
        <5> QED
          BY <3>3, <5>1
      <4>2. Place(h, r, i) = Place(h, q, i) /\ Place(h, r, i + 1) = Place(h, q, i + 1)
        BY <2>2, <4>1
      <4> DEFINE y == Place(h, q, i + 1)
      <4>3. y \in ToSet(q) /\ y \in D /\ y # h /\ y # t
        BY <1>2, <1>3, <4>1
      <4>4. n.prev[y] = m.prev[y] /\ m.prev[y] # t
        BY <1>3, <1>4, <4>3
      <4>5. Bends(m, q, i)
        BY <1>1, <4>1
      <4> QED
        BY <2>2, <4>2, <4>3, <4>4, <4>5
    <3> QED
      BY <3>1, <3>2, <3>3
  <2>4. Bent(n, N, h, r)
    BY <2>1, <2>2, <2>3 DEF Bent
  <2>5. Touched(n, h, r) \subseteq Touched(m, h, q) \cup {t, h}
    <3>1. \A y \in ToSet(q) \cup {t, h} : n.prev[y] = t \/ n.prev[y] = p \/ (y \in ToSet(q) /\ n.prev[y] = m.prev[y])
      BY <1>2, <1>4
    <3>2. p \in Touched(m, h, q)
      BY DEF Touched, p
    <3> QED
      BY <2>2, <3>1, <3>2 DEF Touched
  <2> QED
    BY <2>4, <2>5 DEF n
<1>8. CASE p \notin ToSet(q) \cup {h}
  <2>1. \A y \in ToSet(q) \cup {h} : n.next[y] = m.next[y]
    BY <1>2, <1>3, <1>4, <1>8
  <2>2. \A y \in ToSet(q) : n.prev[y] = m.prev[y]
    BY <1>2, <1>3, <1>4
  <2>3. n.prev[h] = t
    BY <1>2, <1>4
  <2> HIDE DEF n, l, p
  <2>4. IsList(n, N, h, q)
    <3>1. \A i \in 0 .. l : n.next[Place(h, q, i)] = Place(h, q, i + 1)
      BY <1>1, <1>2, <2>1 DEF IsList, l
    <3> QED
      BY <1>1, <3>1 DEF IsList, l
  <2>5. ASSUME NEW i \in 0 .. l  PROVE Bends(n, q, i)
    <3>1. CASE i = l
      BY <1>2, <1>3, <2>3, <3>1
    <3>2. CASE i # l
      <4>1. i + 1 \in 1 .. l
        <5>1. l \in Nat
          BY <1>2
        <5> QED
          BY <3>2, <5>1
      <4>2. Place(h, q, i + 1) \in ToSet(q)
        BY <1>2, <4>1
      <4>3. Bends(m, q, i)
        BY <1>1
      <4> QED
        BY <2>2, <4>2, <4>3
    <3> QED
      BY <3>1, <3>2
  <2>6. Bent(n, N, h, q)
    BY <2>4, <2>5 DEF Bent, l
  <2>7. Touched(n, h, q) \subseteq Touched(m, h, q) \cup {t, h}
    BY <2>2, <2>3 DEF Touched
  <2> QED
    BY <2>6, <2>7 DEF n
<1> QED
  BY <1>6, <1>7, <1>8

\* An entry put in again while it is in the list: those behind it are lost.
LEMMA AddAgainIs ==
  ASSUME NEW D, NEW m \in Memory(D), NEW N \in SUBSET D, NEW h \in N, NEW q, Linked(m, N, h, q),
         NEW t \in ToSet(q)
  PROVE  \E r : /\ Bent(list_add_tail(m, t, h), N, h, r)
                /\ Touched(list_add_tail(m, t, h), h, r) \subseteq Touched(m, h, q) \cup {t, h}
<1> DEFINE l == Len(q)
           n == list_add_tail(m, t, h)
           p == m.prev[h]
<1>1. IsList(m, N, h, q) /\ \A i \in 0 .. l : m.prev[Place(h, q, i + 1)] = Place(h, q, i)
  BY DEF Linked
<1>2. /\ q \in Seq(N) /\ h \notin ToSet(q) /\ IsInjective(q)
      /\ \A i \in 0 .. l : m.next[Place(h, q, i)] = Place(h, q, i + 1)
  BY <1>1 DEF IsList
<1>3. /\ l \in Nat /\ l \in 0 .. l /\ Place(h, q, l + 1) = h /\ Place(h, q, 0) = h /\ h \in D /\ p \in D
      /\ \A y \in ToSet(q) : y \in N /\ y \in D /\ y # h
      /\ ToSet(q) = {q[i] : i \in 1 .. l}
      /\ \A i \in 1 .. l : q[i] \in ToSet(q) /\ Place(h, q, i) = q[i]
      /\ \A i, j \in 1 .. l : q[i] = q[j] => i = j
  <2>1. h \in D /\ p \in D
    BY DEF Memory
  <2>2. l \in Nat /\ Place(h, q, l + 1) = h /\ Place(h, q, 0) = h
    BY <1>1, ListType
  <2>3. /\ ToSet(q) = {q[i] : i \in 1 .. l}
        /\ \A i \in 1 .. l : q[i] \in N /\ q[i] # h /\ Place(h, q, i) = q[i]
        /\ \A i, j \in 1 .. l : q[i] = q[j] => i = j
    BY <1>1, ListType
  <2> QED
    BY <2>1, <2>2, <2>3
<1>4. PICK k \in 1 .. l : q[k] = t
  BY <1>3
<1>5. /\ \A y \in D : n.next[y] = IF y = t THEN h ELSE IF y = p THEN t ELSE m.next[y]
      /\ \A y \in D : n.prev[y] = IF y = t THEN p ELSE IF y = h THEN t ELSE m.prev[y]
  BY <1>3, AddTailPointers
<1> DEFINE r == SubSeq(q, 1, k)
<1>6. /\ r \in Seq(N) /\ Len(r) = k /\ DOMAIN r = 1 .. k
      /\ \A i \in 1 .. k : r[i] = q[i]
  BY <1>2, <1>3
<1>7. p = q[l] /\ l \in 1 .. l /\ k \in Nat /\ k \in 1 .. k /\ k <= l
  BY <1>1, <1>3, <1>4
<1> HIDE DEF r, n, l, p
<1>8. ToSet(r) = {q[i] : i \in 1 .. k}
  BY <1>6 DEF ToSet, Range
<1>9. \A i \in 1 .. k : i \in 1 .. l /\ i + 1 \in 1 .. l + 1 /\ i \in 0 .. l /\ i - 1 \in 0 .. l
  BY <1>3, <1>4
<1>10. /\ \A i \in 1 .. k : Place(h, r, i) = q[i]
       /\ Place(h, r, 0) = h /\ Place(h, r, k + 1) = h
  <2>1. 0 \notin DOMAIN r /\ k + 1 \notin DOMAIN r
    BY <1>6, <1>7
  <2> QED
    BY <1>6, <2>1 DEF Place
<1>11. IsList(n, N, h, r)
  <2>1. h \notin ToSet(r)
    BY <1>3, <1>8, <1>9
  <2>2. IsInjective(r)
    BY <1>3, <1>6, <1>9 DEF IsInjective
  <2>3. ASSUME NEW i \in 0 .. k  PROVE n.next[Place(h, r, i)] = Place(h, r, i + 1)
    <3>1. CASE i = k
      BY <1>3, <1>4, <1>5, <1>7, <1>10, <3>1
    <3>2. CASE i # k
      <4>1. i + 1 \in 1 .. k /\ i \in 0 .. l /\ i # l /\ (i = 0 \/ i \in 1 .. k)
        BY <1>3, <1>7, <3>2
      <4>2. Place(h, r, i) = Place(h, q, i) /\ Place(h, r, i + 1) = Place(h, q, i + 1)
        BY <1>3, <1>9, <1>10, <4>1
      <4>3. Place(h, q, i) \in D /\ Place(h, q, i) # t /\ Place(h, q, i) # p
        <5>1. CASE i = 0
          BY <1>3, <1>4, <1>7, <5>1
        <5>2. CASE i \in 1 .. k
          BY <1>3, <1>4, <1>7, <1>9, <3>2, <4>1, <5>2
        <5> QED
          BY <4>1, <5>1, <5>2
      <4> QED
        BY <1>2, <1>5, <4>1, <4>2, <4>3
    <3> QED
      BY <3>1, <3>2
  <2> QED
    BY <1>6, <2>1, <2>2, <2>3 DEF IsList
<1>12. ASSUME NEW i \in 0 .. k
       PROVE  LET y == Place(h, r, i + 1)
              IN  \/ n.prev[y] = Place(h, r, i)
                  \/ n.prev[y] = y /\ y # h
                  \/ n.prev[y] \notin ToSet(r) \cup {h}
  <2>1. CASE i = k
    BY <1>3, <1>4, <1>5, <1>7, <1>10, <2>1
  <2>2. CASE i # k
    <3>1. i + 1 \in 1 .. k /\ i \in 0 .. l /\ (i = 0 \/ i \in 1 .. k)
      BY <1>3, <1>7, <2>2
    <3>2. Place(h, r, i) = Place(h, q, i) /\ Place(h, r, i + 1) = q[i + 1] /\ Place(h, q, i + 1) = q[i + 1]
      BY <1>3, <1>9, <1>10, <3>1
    <3>3. CASE i + 1 = k
      <4>1. n.prev[t] = q[l]
        BY <1>3, <1>5, <1>7
      <4>2. k # l => q[l] \notin ToSet(r)
        BY <1>3, <1>7, <1>8, <1>9
      <4> QED
        BY <1>3, <1>4, <1>7, <3>2, <3>3, <4>1, <4>2
    <3>4. CASE i + 1 # k
      <4>1. q[i + 1] # t /\ q[i + 1] # h /\ q[i + 1] \in D
        BY <1>3, <1>4, <1>9, <3>1, <3>4
      <4> QED
        BY <1>1, <1>5, <3>1, <3>2, <4>1 DEF l
    <3> QED
      BY <3>3, <3>4
  <2> QED
    BY <2>1, <2>2
<1>13. Bent(n, N, h, r)
  BY <1>6, <1>11, <1>12 DEF Bent
<1>14. Touched(n, h, r) \subseteq Touched(m, h, q) \cup {t, h}
  <2>1. ToSet(r) \subseteq ToSet(q)
    BY <1>3, <1>8, <1>9
  <2>2. \A y \in ToSet(q) \cup {h} : n.prev[y] = t \/ n.prev[y] = p \/ n.prev[y] = m.prev[y]
    BY <1>3, <1>5
  <2>3. p \in Touched(m, h, q)
    BY DEF Touched, p
  <2> QED
    BY <2>1, <2>2, <2>3 DEF Touched
<1> QED
  BY <1>13, <1>14 DEF n

\* The places of a list without its entry k.
LEMMA WithoutIs ==
  ASSUME NEW m, NEW N, NEW h, NEW q, IsList(m, N, h, q), NEW k \in 1 .. Len(q)
  PROVE  /\ RemoveAt(q, k) \in Seq(N) /\ Len(RemoveAt(q, k)) = Len(q) - 1 /\ IsInjective(RemoveAt(q, k))
         /\ ToSet(RemoveAt(q, k)) = ToSet(q) \ {q[k]}
         /\ \A i \in 0 .. Len(q) :
              Place(h, RemoveAt(q, k), i) = Place(h, q, IF i < k THEN i ELSE i + 1)
<1> DEFINE l == Len(q)
           r == RemoveAt(q, k)
<1>1. q \in Seq(N)
  BY DEF IsList
<1>2. /\ l \in Nat /\ DOMAIN q = 1 .. l
      /\ ToSet(q) = {q[i] : i \in 1 .. l}
      /\ \A i, j \in 1 .. l : q[i] = q[j] => i = j
      /\ Place(h, q, l + 1) = h
  BY ListType
<1>3. r \in Seq(N) /\ Len(r) = l - 1 /\ \A j \in 1 .. l - 1 : r[j] = q[IF j < k THEN j ELSE j + 1]
  <2>1. k \in DOMAIN q
    BY <1>2
  <2> HIDE DEF r
  <2>2. /\ RemoveAt(q, k) \in Seq(N)
        /\ Len(RemoveAt(q, k)) = Len(q) - 1
        /\ \A j \in 1 .. Len(q) - 1 : RemoveAt(q, k)[j] = q[IF j < k THEN j ELSE j + 1]
    BY <1>1, <2>1, RemoveIs
  <2> QED
    BY <2>2 DEF r
<1>4. DOMAIN r = 1 .. l - 1
  BY <1>3
<1> HIDE DEF r, l
<1>5. k \in Nat /\ 1 <= k /\ k <= l
  BY <1>2 DEF l
<1>6. \A j \in 1 .. l - 1 : LET a == IF j < k THEN j ELSE j + 1 IN a \in 1 .. l /\ a # k
  BY <1>2, <1>5
<1>7. ToSet(r) = ToSet(q) \ {q[k]}
  <2>1. ToSet(r) = {r[j] : j \in 1 .. l - 1}
    BY <1>4 DEF ToSet, Range
  <2>2. \A j \in 1 .. l - 1 : r[j] \in ToSet(q) \ {q[k]}
    <3> TAKE j \in 1 .. l - 1
    <3> DEFINE a == IF j < k THEN j ELSE j + 1
    <3>1. a \in 1 .. l /\ a # k /\ r[j] = q[a]
      BY <1>3, <1>6
    <3>2. k \in 1 .. l
      BY <1>2, <1>5
    <3> HIDE DEF a
    <3> QED
      BY <1>2, <3>1, <3>2
  <2>3. \A i \in 1 .. l : i # k => \E j \in 1 .. l - 1 : r[j] = q[i]
    <3> SUFFICES ASSUME NEW i \in 1 .. l, i # k  PROVE \E j \in 1 .. l - 1 : r[j] = q[i]
      OBVIOUS
    <3>1. CASE i < k
      <4>1. i \in 1 .. l - 1
        BY <1>2, <1>5, <3>1
      <4> QED
        BY <1>3, <3>1, <4>1
    <3>2. CASE ~ (i < k)
      <4>1. i - 1 \in 1 .. l - 1 /\ ~ (i - 1 < k) /\ (i - 1) + 1 = i
        BY <1>2, <1>5, <3>2
      <4>2. r[i - 1] = q[(i - 1) + 1]
        BY <1>3, <4>1
      <4> QED
        BY <4>1, <4>2
    <3> QED
      BY <3>1, <3>2
  <2>4. \A x \in ToSet(q) : x # q[k] => x \in ToSet(r)
    BY <1>2, <2>1, <2>3
  <2> QED
    BY <2>1, <2>2, <2>4
<1>8. IsInjective(r)
  <2> SUFFICES ASSUME NEW i \in 1 .. l - 1, NEW j \in 1 .. l - 1, r[i] = r[j]  PROVE i = j
    BY <1>4 DEF IsInjective
  <2> DEFINE a == IF i < k THEN i ELSE i + 1
             b == IF j < k THEN j ELSE j + 1
  <2>1. a \in 1 .. l /\ b \in 1 .. l /\ r[i] = q[a] /\ r[j] = q[b]
    BY <1>3, <1>6
  <2>2. a = b
    <3> HIDE DEF a, b
    <3> QED
      BY <1>2, <2>1
  <2> QED
    BY <1>2, <1>5, <2>2
<1>9. ASSUME NEW i \in 0 .. l  PROVE Place(h, r, i) = Place(h, q, IF i < k THEN i ELSE i + 1)
  <2>1. CASE i = 0
    <3>1. 0 \notin DOMAIN r /\ 0 \notin DOMAIN q /\ 0 < k
      BY <1>2, <1>4, <1>5
    <3> QED
      BY <2>1, <3>1 DEF Place
  <2>2. CASE i \in 1 .. l - 1
    <3> DEFINE a == IF i < k THEN i ELSE i + 1
    <3>1. a \in 1 .. l /\ r[i] = q[a]
      BY <1>3, <1>6, <2>2
    <3> HIDE DEF a
    <3>2. Place(h, r, i) = q[a] /\ Place(h, q, a) = q[a]
      BY <1>2, <1>4, <2>2, <3>1 DEF Place
    <3> QED
      BY <3>2 DEF a
  <2>3. CASE i = l
    <3>1. i \notin DOMAIN r /\ ~ (i < k)
      BY <1>2, <1>4, <1>5, <2>3
    <3> QED
      BY <1>2, <2>3, <3>1 DEF Place
  <2>4. i = 0 \/ i \in 1 .. l - 1 \/ i = l
    BY <1>2
  <2> QED
    BY <2>1, <2>2, <2>3, <2>4
<1> QED
  BY <1>3, <1>7, <1>8, <1>9 DEF r, l

\* An entry deleted whose prev pointer leads to the one before.
LEMMA DeleteForward ==
  ASSUME NEW D, NEW m \in Memory(D), NEW N \in SUBSET D, NEW h \in N, NEW q, IsList(m, N, h, q),
         NEW k \in 1 .. Len(q), m.prev[q[k]] = Place(h, q, k - 1)
  PROVE  IsList(list_delete_entry(m, q[k]), N, h, RemoveAt(q, k))
<1> DEFINE l == Len(q)
           r == RemoveAt(q, k)
           n == list_delete_entry(m, q[k])
<1> HIDE DEF r, n, l
<1>1. /\ r \in Seq(N) /\ Len(r) = l - 1 /\ IsInjective(r)
      /\ ToSet(r) = ToSet(q) \ {q[k]}
      /\ \A i \in 0 .. l : Place(h, r, i) = Place(h, q, IF i < k THEN i ELSE i + 1)
  <2>1. IsList(m, N, h, q) /\ k \in 1 .. Len(q)
    OBVIOUS
  <2>2. /\ RemoveAt(q, k) \in Seq(N) /\ Len(RemoveAt(q, k)) = Len(q) - 1 /\ IsInjective(RemoveAt(q, k))
        /\ ToSet(RemoveAt(q, k)) = ToSet(q) \ {q[k]}
        /\ \A i \in 0 .. Len(q) :
              Place(h, RemoveAt(q, k), i) = Place(h, q, IF i < k THEN i ELSE i + 1)
    BY <2>1, WithoutIs, SMTT(30)
  <2> QED
    BY <2>2 DEF l, r
<1> USE DEF r, n, l
<1>2. /\ h \notin ToSet(q)
      /\ \A i \in 0 .. l : m.next[Place(h, q, i)] = Place(h, q, i + 1)
  BY DEF IsList
<1>3. /\ l \in Nat /\ k \in Nat /\ 1 <= k /\ k <= l
      /\ \A i \in 1 .. l : q[i] \in D /\ Place(h, q, i) = q[i]
      /\ \A x \in ToSet(q) : x \in D
  BY ListType
<1>4. /\ \A i \in 0 .. l + 1 : Place(h, q, i) \in ToSet(q) \cup {h}
      /\ \A i, j \in 0 .. l : Place(h, q, i) = Place(h, q, j) => i = j
  BY ListType
<1>5. \A y \in D : n.next[y] = IF y = m.prev[q[k]] THEN m.next[q[k]] ELSE m.next[y]
  BY <1>3, DeletePointers
<1>6. m.next[q[k]] = Place(h, q, k + 1) /\ k \in 0 .. l /\ k - 1 \in 0 .. l
  BY <1>2, <1>3
<1> HIDE DEF r, n, l
<1>7. \A i \in 0 .. l + 1 : Place(h, q, i) \in D
  BY <1>3, <1>4
<1>8. ASSUME NEW i \in 0 .. l - 1  PROVE n.next[Place(h, r, i)] = Place(h, r, i + 1)
  <2>1. CASE i = k - 1
    <3>1. i < k /\ ~ (i + 1 < k) /\ (i + 1) + 1 = k + 1 /\ i \in 0 .. l /\ i + 1 \in 0 .. l /\ i \in 0 .. l + 1
      BY <1>3, <2>1
    <3>2. Place(h, r, i) = Place(h, q, k - 1) /\ Place(h, r, i + 1) = Place(h, q, k + 1)
      BY <1>1, <2>1, <3>1
    <3> QED
      BY <1>5, <1>6, <1>7, <2>1, <3>1, <3>2
  <2>2. CASE i < k - 1
    <3>1. i < k /\ i + 1 < k /\ i \in 0 .. l /\ i + 1 \in 0 .. l /\ i # k - 1 /\ i \in 0 .. l + 1
      BY <1>3, <2>2
    <3>2. Place(h, r, i) = Place(h, q, i) /\ Place(h, r, i + 1) = Place(h, q, i + 1)
      BY <1>1, <3>1
    <3>3. Place(h, q, i) # Place(h, q, k - 1)
      BY <1>4, <1>6, <3>1
    <3> QED
      BY <1>2, <1>5, <1>7, <3>1, <3>2, <3>3
  <2>3. CASE ~ (i < k)
    <3>1. ~ (i + 1 < k) /\ i \in 0 .. l /\ i + 1 \in 0 .. l /\ i + 1 # k - 1 /\ i + 1 \in 0 .. l + 1
      BY <1>3, <2>3
    <3>2. Place(h, r, i) = Place(h, q, i + 1) /\ Place(h, r, i + 1) = Place(h, q, (i + 1) + 1)
      BY <1>1, <2>3, <3>1
    <3>3. Place(h, q, i + 1) # Place(h, q, k - 1)
      BY <1>4, <1>6, <3>1
    <3> QED
      BY <1>2, <1>5, <1>7, <3>1, <3>2, <3>3
  <2>4. i = k - 1 \/ i < k - 1 \/ ~ (i < k)
    BY <1>3
  <2> QED
    BY <2>1, <2>2, <2>3, <2>4
<1>9. h \notin ToSet(r)
  BY <1>1, <1>2
<1> QED
  BY <1>1, <1>8, <1>9 DEF IsList, n, r

(* list_delete_entry of an entry. *)
LEMMA DeleteIs ==
  ASSUME NEW D, NEW m \in Memory(D), NEW N \in SUBSET D, NEW h \in N, NEW q, Linked(m, N, h, q),
         NEW t \in ToSet(q)
  PROVE  \E r : Linked(list_delete_entry(m, t), N, h, r) /\ ToSet(r) = ToSet(q) \ {t}
<1> DEFINE l == Len(q)
<1>1. IsList(m, N, h, q) /\ \A i \in 0 .. l : m.prev[Place(h, q, i + 1)] = Place(h, q, i)
  BY DEF Linked
<1>2. /\ ToSet(q) = {q[i] : i \in 1 .. l} /\ l \in Nat
      /\ \A i \in 1 .. l : q[i] \in D /\ Place(h, q, i) = q[i]
      /\ \A x \in ToSet(q) : x \in D
  BY <1>1, ListType
<1>3. PICK k \in 1 .. l : q[k] = t
  BY <1>2
<1> DEFINE r == RemoveAt(q, k)
           n == list_delete_entry(m, t)
<1>4. /\ r \in Seq(N) /\ Len(r) = l - 1 /\ IsInjective(r)
      /\ ToSet(r) = ToSet(q) \ {q[k]}
      /\ \A i \in 0 .. l : Place(h, r, i) = Place(h, q, IF i < k THEN i ELSE i + 1)
  BY <1>1, WithoutIs
<1>5. k \in Nat /\ 1 <= k /\ k <= l /\ k \in 0 .. l /\ k - 1 \in 0 .. l /\ (k - 1) + 1 = k
  BY <1>2
<1>6. m.prev[q[k]] = Place(h, q, k - 1)
  BY <1>1, <1>2, <1>5
<1>7. IsList(n, N, h, r)
  BY <1>1, <1>3, <1>6, DeleteForward
<1>8. \A y \in D : n.prev[y] = IF y = m.next[t] THEN m.prev[t] ELSE m.prev[y]
  BY <1>2, DeletePointers
<1>9. m.next[t] = Place(h, q, k + 1)
  BY <1>1, <1>2, <1>3, <1>5 DEF IsList
<1>10. /\ \A i \in 0 .. l + 1 : Place(h, q, i) \in ToSet(q) \cup {h}
       /\ \A i, j \in 1 .. l + 1 : Place(h, q, i) = Place(h, q, j) => i = j
  BY <1>1, ListType
<1>11. \A i \in 0 .. l + 1 : Place(h, q, i) \in D
  BY <1>2, <1>10
<1> HIDE DEF r, n, l
<1>12. ASSUME NEW i \in 0 .. l - 1  PROVE n.prev[Place(h, r, i + 1)] = Place(h, r, i)
  <2>1. CASE i = k - 1
    <3>1. i < k /\ ~ (i + 1 < k) /\ (i + 1) + 1 = k + 1 /\ i \in 0 .. l /\ i + 1 \in 0 .. l /\ k + 1 \in 0 .. l + 1
      BY <1>2, <1>5, <2>1
    <3>2. Place(h, r, i) = Place(h, q, k - 1) /\ Place(h, r, i + 1) = Place(h, q, k + 1)
      BY <1>4, <2>1, <3>1
    <3> QED
      BY <1>3, <1>6, <1>8, <1>9, <1>11, <3>1, <3>2
  <2>2. CASE i < k - 1
    <3>1. i < k /\ i + 1 < k /\ i \in 0 .. l /\ i + 1 \in 0 .. l + 1 /\ i + 1 \in 0 .. l
          /\ i + 1 \in 1 .. l + 1 /\ k + 1 \in 1 .. l + 1 /\ i + 1 # k + 1
      BY <1>2, <1>5, <2>2
    <3>2. Place(h, r, i) = Place(h, q, i) /\ Place(h, r, i + 1) = Place(h, q, i + 1)
      BY <1>4, <3>1
    <3>3. Place(h, q, i + 1) # Place(h, q, k + 1)
      BY <1>10, <3>1
    <3> QED
      BY <1>1, <1>8, <1>9, <1>11, <3>1, <3>2, <3>3
  <2>3. CASE ~ (i < k)
    <3>1. ~ (i + 1 < k) /\ i \in 0 .. l /\ i + 1 \in 0 .. l /\ (i + 1) + 1 \in 1 .. l + 1
          /\ k + 1 \in 1 .. l + 1 /\ (i + 1) + 1 # k + 1 /\ (i + 1) + 1 \in 0 .. l + 1
      BY <1>2, <1>5, <2>3
    <3>2. Place(h, r, i) = Place(h, q, i + 1) /\ Place(h, r, i + 1) = Place(h, q, (i + 1) + 1)
      BY <1>4, <2>3, <3>1
    <3>3. Place(h, q, (i + 1) + 1) # Place(h, q, k + 1)
      BY <1>10, <3>1
    <3> QED
      BY <1>1, <1>8, <1>9, <1>11, <3>1, <3>2, <3>3
  <2>4. i = k - 1 \/ i < k - 1 \/ ~ (i < k)
    BY <1>2, <1>5
  <2> QED
    BY <2>1, <2>2, <2>3, <2>4
<1>13. Linked(n, N, h, r)
  BY <1>4, <1>7, <1>12 DEF Linked
<1> QED
  BY <1>3, <1>4, <1>13 DEF n

\* Deleting from a bent list takes the entry out, or has no effect on the list.
LEMMA DeleteBentIs ==
  ASSUME NEW D, NEW m \in Memory(D), NEW N \in SUBSET D, NEW h \in N, NEW q, Bent(m, N, h, q),
         NEW t \in ToSet(q)
  PROVE  \E r : /\ Bent(list_delete_entry(m, t), N, h, r)
                /\ Touched(list_delete_entry(m, t), h, r) \subseteq Touched(m, h, q)
<1> DEFINE l == Len(q)
           n == list_delete_entry(m, t)
           Bends(a, s, i) == LET y == Place(h, s, i + 1)
                             IN  \/ a.prev[y] = Place(h, s, i)
                                 \/ a.prev[y] = y /\ y # h
                                 \/ a.prev[y] \notin ToSet(s) \cup {h}
<1>1. IsList(m, N, h, q) /\ \A i \in 0 .. l : Bends(m, q, i)
  BY DEF Bent
<1>2. /\ ToSet(q) = {q[i] : i \in 1 .. l} /\ l \in Nat /\ h \notin ToSet(q) /\ h \in D
      /\ \A i \in 1 .. l : q[i] \in D /\ Place(h, q, i) = q[i]
      /\ \A x \in ToSet(q) : x \in D
  <2>1. h \notin ToSet(q)
    BY <1>1 DEF IsList
  <2> QED
    BY <1>1, <2>1, ListType
<1>3. PICK k \in 1 .. l : q[k] = t
  BY <1>2
<1>4. k \in Nat /\ 1 <= k /\ k <= l /\ k \in 0 .. l /\ k - 1 \in 0 .. l /\ (k - 1) + 1 = k
  BY <1>2
<1>5. /\ \A y \in D : n.next[y] = IF y = m.prev[t] THEN m.next[t] ELSE m.next[y]
      /\ \A y \in D : n.prev[y] = IF y = m.next[t] THEN m.prev[t] ELSE m.prev[y]
  BY <1>2, DeletePointers
<1>6. m.next[t] = Place(h, q, k + 1)
  BY <1>1, <1>2, <1>3, <1>4 DEF IsList
<1>7. /\ \A i \in 0 .. l + 1 : Place(h, q, i) \in ToSet(q) \cup {h}
      /\ \A i, j \in 1 .. l + 1 : Place(h, q, i) = Place(h, q, j) => i = j
  BY <1>1, ListType
<1>8. \A i \in 0 .. l + 1 : Place(h, q, i) \in D
  BY <1>2, <1>7
<1>9. Bends(m, q, k - 1) /\ Place(h, q, k) = t /\ t # h
  BY <1>1, <1>2, <1>3, <1>4
<1>10. m.prev[t] \in Touched(m, h, q)
  BY DEF Touched
<1>11. CASE m.prev[t] = Place(h, q, k - 1)
  <2> DEFINE r == RemoveAt(q, k)
  <2>1. /\ r \in Seq(N) /\ Len(r) = l - 1 /\ IsInjective(r)
        /\ ToSet(r) = ToSet(q) \ {q[k]}
        /\ \A i \in 0 .. l : Place(h, r, i) = Place(h, q, IF i < k THEN i ELSE i + 1)
    BY <1>1, WithoutIs
  <2>2. IsList(n, N, h, r)
    BY <1>1, <1>3, <1>11, DeleteForward
  <2> HIDE DEF r, n, l
  <2>3. ToSet(r) \subseteq ToSet(q)
    BY <2>1
  <2>4. ASSUME NEW i \in 0 .. l - 1  PROVE Bends(n, r, i)
    <3>1. CASE i = k - 1
      <4>1. i < k /\ ~ (i + 1 < k) /\ (i + 1) + 1 = k + 1 /\ i \in 0 .. l /\ i + 1 \in 0 .. l /\ k + 1 \in 0 .. l + 1
        BY <1>2, <1>4, <3>1
      <4>2. Place(h, r, i) = Place(h, q, k - 1) /\ Place(h, r, i + 1) = Place(h, q, k + 1)
        BY <2>1, <3>1, <4>1
      <4> QED
        BY <1>5, <1>6, <1>8, <1>11, <4>1, <4>2
    <3>2. CASE i < k - 1
      <4>1. i < k /\ i + 1 < k /\ i \in 0 .. l /\ i + 1 \in 0 .. l + 1 /\ i + 1 \in 0 .. l
            /\ i + 1 \in 1 .. l + 1 /\ k + 1 \in 1 .. l + 1 /\ i + 1 # k + 1
        BY <1>2, <1>4, <3>2
      <4>2. Place(h, r, i) = Place(h, q, i) /\ Place(h, r, i + 1) = Place(h, q, i + 1)
        BY <2>1, <4>1
      <4>3. Place(h, q, i + 1) # Place(h, q, k + 1)
        BY <1>7, <4>1
      <4>4. n.prev[Place(h, q, i + 1)] = m.prev[Place(h, q, i + 1)]
        BY <1>5, <1>6, <1>8, <4>1, <4>3
      <4>5. Bends(m, q, i)
        BY <1>1, <4>1
      <4> QED
        BY <2>3, <4>2, <4>4, <4>5
    <3>3. CASE ~ (i < k)
      <4>1. ~ (i + 1 < k) /\ i \in 0 .. l /\ i + 1 \in 0 .. l /\ (i + 1) + 1 \in 1 .. l + 1
            /\ k + 1 \in 1 .. l + 1 /\ (i + 1) + 1 # k + 1 /\ (i + 1) + 1 \in 0 .. l + 1
        BY <1>2, <1>4, <3>3
      <4>2. Place(h, r, i) = Place(h, q, i + 1) /\ Place(h, r, i + 1) = Place(h, q, (i + 1) + 1)
        BY <2>1, <3>3, <4>1
      <4>3. Place(h, q, (i + 1) + 1) # Place(h, q, k + 1)
        BY <1>7, <4>1
      <4>4. n.prev[Place(h, q, (i + 1) + 1)] = m.prev[Place(h, q, (i + 1) + 1)]
        BY <1>5, <1>6, <1>8, <4>1, <4>3
      <4>5. Bends(m, q, i + 1)
        BY <1>1, <4>1
      <4> QED
        BY <2>3, <4>2, <4>4, <4>5
    <3>4. i = k - 1 \/ i < k - 1 \/ ~ (i < k)
      <4>1. l \in Nat
        BY <1>2
      <4> QED
        BY <1>4, <4>1
    <3> QED
      BY <3>1, <3>2, <3>3, <3>4
  <2>5. Bent(n, N, h, r)
    BY <2>1, <2>2, <2>4 DEF Bent
  <2>6. Touched(n, h, r) \subseteq Touched(m, h, q)
    <3>1. \A y \in ToSet(q) \cup {h} : n.prev[y] = m.prev[t] \/ n.prev[y] = m.prev[y]
      BY <1>2, <1>5
    <3> QED
      BY <1>10, <2>3, <3>1 DEF Touched
  <2> QED
    BY <2>5, <2>6 DEF n
<1>12. CASE m.prev[t] = t \/ m.prev[t] \notin ToSet(q) \cup {h}
  <2> HIDE DEF n, l
  <2>1. \A y \in ToSet(q) \cup {h} : n.next[y] = m.next[y]
    BY <1>2, <1>5, <1>12
  <2>2. \A i \in 0 .. l : i \in 0 .. l + 1 /\ i + 1 \in 0 .. l + 1 /\ i + 1 \in 1 .. l + 1
    <3>1. l \in Nat
      BY <1>2
    <3> QED
      BY <3>1
  <2>3. IsList(n, N, h, q)
    <3>1. \A i \in 0 .. l : n.next[Place(h, q, i)] = Place(h, q, i + 1)
      BY <1>1, <1>7, <2>1, <2>2 DEF IsList, l
    <3> QED
      BY <1>1, <3>1 DEF IsList, l
  <2>4. ASSUME NEW i \in 0 .. l  PROVE Bends(n, q, i)
    <3> DEFINE y == Place(h, q, i + 1)
    <3>1. y \in D
      BY <1>8, <2>2
    <3>2. CASE i = k
      <4>1. n.prev[y] = m.prev[t]
        BY <1>5, <1>6, <3>1, <3>2
      <4> QED
        BY <1>9, <1>12, <3>2, <4>1
    <3>3. CASE i # k
      <4>1. k + 1 \in 1 .. l + 1 /\ i + 1 # k + 1
        BY <1>4, <2>2, <3>3
      <4>2. y # Place(h, q, k + 1)
        BY <1>7, <2>2, <4>1
      <4>3. n.prev[y] = m.prev[y]
        BY <1>5, <1>6, <3>1, <4>2
      <4>4. Bends(m, q, i)
        BY <1>1
      <4> QED
        BY <4>3, <4>4
    <3> QED
      BY <3>2, <3>3
  <2>5. Bent(n, N, h, q)
    BY <2>3, <2>4 DEF Bent, l
  <2>6. Touched(n, h, q) \subseteq Touched(m, h, q)
    <3>1. \A y \in ToSet(q) \cup {h} : n.prev[y] = m.prev[t] \/ n.prev[y] = m.prev[y]
      BY <1>2, <1>5
    <3> QED
      BY <1>10, <3>1 DEF Touched
  <2> QED
    BY <2>5, <2>6 DEF n
<1> QED
  BY <1>4, <1>9, <1>11, <1>12

\* Memories that agree on the nodes in N have the same lists there.
LEMMA SameList ==
  ASSUME NEW m, NEW n, NEW N, NEW h \in N, NEW q,
         \A y \in N : n.next[y] = m.next[y] /\ n.prev[y] = m.prev[y]
  PROVE  /\ Closed(m, N) => Closed(n, N)
         /\ Linked(m, N, h, q) => Linked(n, N, h, q)
         /\ Bent(m, N, h, q) => Bent(n, N, h, q) /\ Touched(n, h, q) = Touched(m, h, q)
<1>1. Closed(m, N) => Closed(n, N)
  BY DEF Closed
<1>2. ASSUME IsList(m, N, h, q)
      PROVE  /\ IsList(n, N, h, q)
             /\ \A i \in 0 .. Len(q) : Place(h, q, i + 1) \in N
  <2>1. /\ \A i \in 0 .. Len(q) + 1 : Place(h, q, i) \in ToSet(q) \cup {h}
        /\ Len(q) \in Nat
    BY <1>2, ListType
  <2>2. \A y \in ToSet(q) : y \in N
    BY <1>2, ListType
  <2>3. \A i \in 0 .. Len(q) : i \in 0 .. Len(q) + 1 /\ i + 1 \in 0 .. Len(q) + 1
    BY <2>1
  <2>4. \A i \in 0 .. Len(q) + 1 : Place(h, q, i) \in N
    BY <2>1, <2>2
  <2> QED
    BY <1>2, <2>3, <2>4 DEF IsList
<1>3. Linked(m, N, h, q) => Linked(n, N, h, q)
  BY <1>2 DEF Linked
<1>4. ASSUME Bent(m, N, h, q)  PROVE Bent(n, N, h, q) /\ Touched(n, h, q) = Touched(m, h, q)
  <2>1. IsList(m, N, h, q)
    BY <1>4 DEF Bent
  <2>2. Bent(n, N, h, q)
    BY <1>2, <1>4, <2>1 DEF Bent
  <2>3. \A y \in ToSet(q) \cup {h} : n.prev[y] = m.prev[y]
    BY <2>1, ListType
  <2> QED
    BY <2>2, <2>3 DEF Touched
<1> QED
  BY <1>1, <1>3, <1>4

LEMMA LinkedIsBent ==
  ASSUME NEW m, NEW N, NEW h, NEW q, Linked(m, N, h, q)
  PROVE  Bent(m, N, h, q) /\ Touched(m, h, q) \subseteq ToSet(q) \cup {h}
<1>1. Bent(m, N, h, q)
  BY DEF Bent, Linked
<1>2. IsList(m, N, h, q) /\ \A i \in 0 .. Len(q) : m.prev[Place(h, q, i + 1)] = Place(h, q, i)
  BY DEF Linked
<1>3. /\ \A i \in 0 .. Len(q) + 1 : Place(h, q, i) \in ToSet(q) \cup {h}
      /\ Len(q) \in Nat /\ ToSet(q) = {q[i] : i \in 1 .. Len(q)}
      /\ \A i \in 1 .. Len(q) : Place(h, q, i) = q[i]
      /\ Place(h, q, Len(q) + 1) = h
  BY <1>2, ListType
<1>4. ASSUME NEW i \in 1 .. Len(q) + 1  PROVE m.prev[Place(h, q, i)] \in ToSet(q) \cup {h}
  <2>1. i - 1 \in 0 .. Len(q) /\ i - 1 \in 0 .. Len(q) + 1 /\ (i - 1) + 1 = i
    BY <1>3
  <2>2. m.prev[Place(h, q, (i - 1) + 1)] = Place(h, q, i - 1)
    BY <1>2, <2>1
  <2> QED
    BY <1>3, <2>1, <2>2
<1>5. \A y \in ToSet(q) \cup {h} : \E i \in 1 .. Len(q) + 1 : y = Place(h, q, i)
  <2>1. Len(q) + 1 \in 1 .. Len(q) + 1 /\ \A i \in 1 .. Len(q) : i \in 1 .. Len(q) + 1
    BY <1>3
  <2> QED
    BY <1>3, <2>1
<1> QED
  BY <1>1, <1>4, <1>5 DEF Touched

\* Adding and deleting within N leave the rest of the memory alone.
LEMMA AddWithin ==
  ASSUME NEW D, NEW m \in Memory(D), NEW N \in SUBSET D, NEW h \in N, NEW t \in N, t # h, Closed(m, N)
  PROVE  /\ list_add_tail(m, t, h) \in Memory(D)
         /\ Closed(list_add_tail(m, t, h), N)
         /\ \A y \in D \ N : /\ list_add_tail(m, t, h).next[y] = m.next[y]
                             /\ list_add_tail(m, t, h).prev[y] = m.prev[y]
<1>1. h \in D /\ t \in D /\ m.prev[h] \in N
  BY DEF Closed
<1> DEFINE n == list_add_tail(m, t, h)
<1>2. /\ n \in Memory(D)
      /\ \A y \in D : n.next[y] = IF y = t THEN h ELSE IF y = m.prev[h] THEN t ELSE m.next[y]
      /\ \A y \in D : n.prev[y] = IF y = t THEN m.prev[h] ELSE IF y = h THEN t ELSE m.prev[y]
  BY <1>1, AddTailPointers
<1> HIDE DEF n
<1>3. Closed(n, N)
  BY <1>1, <1>2 DEF Closed
<1>4. \A y \in D \ N : n.next[y] = m.next[y] /\ n.prev[y] = m.prev[y]
  BY <1>1, <1>2
<1> QED
  BY <1>2, <1>3, <1>4 DEF n

LEMMA DeleteWithin ==
  ASSUME NEW D, NEW m \in Memory(D), NEW N \in SUBSET D, NEW t \in N, Closed(m, N)
  PROVE  /\ list_delete_entry(m, t) \in Memory(D)
         /\ Closed(list_delete_entry(m, t), N)
         /\ \A y \in D \ N : /\ list_delete_entry(m, t).next[y] = m.next[y]
                             /\ list_delete_entry(m, t).prev[y] = m.prev[y]
<1>1. t \in D /\ m.prev[t] \in N /\ m.next[t] \in N
  BY DEF Closed
<1> DEFINE n == list_delete_entry(m, t)
<1>2. /\ n \in Memory(D)
      /\ \A y \in D : n.next[y] = IF y = m.prev[t] THEN m.next[t] ELSE m.next[y]
      /\ \A y \in D : n.prev[y] = IF y = m.next[t] THEN m.prev[t] ELSE m.prev[y]
  BY <1>1, DeletePointers
<1> HIDE DEF n
<1>3. Closed(n, N)
  BY <1>1, <1>2 DEF Closed
<1>4. \A y \in D \ N : n.next[y] = m.next[y] /\ n.prev[y] = m.prev[y]
  BY <1>1, <1>2
<1> QED
  BY <1>2, <1>3, <1>4 DEF n

-----------------------------------------------------------------------------
(* The invariant *)

Buffers == [pkt : PacketType, times : 1 .. MaxTimes + 1]
SockType == [state : States, snd_una : Nat, snd_nxt : Nat, rcv_nxt : Nat,
             send_buf : Seq(Buffers), got : Nat, refs : Int, freed : BOOLEAN]
Counted == {s \in SockType : s.freed <=> s.refs <= 0}

SockInv == /\ sock \in [Sock -> Counted]
           /\ \A x \in Child : sock[x].state \in {"CLOSED", "SYN_RECV", "ESTABLISHED", "LAST_ACK"}
           /\ \A x \in Client : sock[x].state # "SYN_RECV"

Nets == {n \in [{"server", "client"} -> Seq(PacketType)] :
           \A h \in {"server", "client"} : Len(n[h]) <= LinkCap[h]}

AppInv == /\ net \in Nets /\ hl \in Memory(HashNode) /\ tl \in Memory(TimerNode)
          /\ wait_connect \in Wait /\ wait_accept \in Wait
          /\ running = {} \/ \E x \in Client : running = {x}
          /\ unused \in SUBSET (Client \ running)
          /\ giving \in SUBSET running /\ torn \in BOOLEAN
          /\ giving # {} => cpc # "connect"

\* No connection is queued, or handed to the application, twice.
QueuedOnce == IsInjective(accept_queue) /\ ToSet(accept_queue) \cap accepted = {}

\* A socket that is queued or accepted is never again in SYN_RECV, which leads to
\* the queue; accept, which runs once, has taken none before it takes one.
QueueInv ==
  /\ accept_queue \in Seq(Child) /\ accepted \in SUBSET Child
  /\ QueuedOnce
  /\ \A x \in ToSet(accept_queue) \cup accepted :
       ~Fresh(x) /\ (sock[x].state # "SYN_RECV" \/ x \in queued)
  /\ \/ apc \in {"check", "sleep", "asleep", "dequeue"} /\ accepted = {}
     \/ apc \in {"popped", "up"} /\ \E x \in Child : accepted = {x}
  /\ apc = "dequeue" => accept_queue # <<>>
  /\ \/ rpc = "ready" /\ queued = {}
     \/ rpc \in {"enqueued", "woken"} /\ \E x \in Child : queued = {x} /\ ~Fresh(x)

\* A bucket holds one socket or none; those deleted still point to its head.
Bucket(m, h, S) ==
  /\ \A x \in S : m.next[x] = m.prev[x] /\ m.next[x] \in {x, h}
  /\ m.next[h] = m.prev[h] /\ m.next[h] \in {h} \cup S
  /\ m.next[h] # h => m.next[m.next[h]] = h

HashInv ==
  /\ Bucket(hl, Table, Child) /\ Bucket(hl, CTable, Client)
  /\ hl.next[Table] # Table => ~Fresh(hl.next[Table])
  /\ hl.next[CTable] # CTable => hl.next[CTable] \in running /\ cpc # "connect"

TimersIn(S, h) == {<<h, "head">>} \cup (S \X {"retrans", "timewait"})
InClient == TimersIn(Client, CTimers)
InServer == TimersIn(Child, Timers)
CHead == <<CTimers, "head">>
SHead == <<Timers, "head">>

\* The timers of the client that runs, x: none, one, or the TIME_WAIT timer behind
\* the retransmission timer.  If it was put into the list twice it points to itself.
ClientList(m, x) ==
  \/ m.next[CHead] = CHead /\ m.prev[CHead] = CHead
  \/ /\ m.next[CHead] = RetransTimer(x) /\ m.next[RetransTimer(x)] = CHead
     /\ m.prev[CHead] = RetransTimer(x) /\ m.prev[RetransTimer(x)] = CHead
  \/ /\ m.next[CHead] = Timewait(x) /\ m.next[Timewait(x)] = CHead
     /\ m.prev[CHead] = Timewait(x) /\ m.prev[Timewait(x)] \in {CHead, Timewait(x)}
  \/ /\ m.next[CHead] = RetransTimer(x) /\ m.next[RetransTimer(x)] = Timewait(x)
     /\ m.next[Timewait(x)] = CHead /\ m.prev[CHead] = Timewait(x)
     /\ m.prev[RetransTimer(x)] = CHead
     /\ m.prev[Timewait(x)] \in {RetransTimer(x), Timewait(x)}

ClientInv ==
  /\ Closed(tl, InClient)
  /\ \A x \in Client \ running : sock[x] = NewSock
  /\ running = {} => tl.next[CHead] = CHead /\ tl.prev[CHead] = CHead
  /\ \A x \in running :
       /\ ClientList(tl, x)
       /\ cpc = "connect" => /\ sock[x] = NewSock /\ tl.next[CHead] = RetransTimer(x)
                             /\ tl.next[RetransTimer(x)] = CHead

\* The TIME_WAIT timer of the server's socket x has not been in the list.
NotYet(x) == \/ Fresh(x) \/ x \in queued
             \/ sock[x].state = "SYN_RECV"
             \/ sock[x].state = "ESTABLISHED" /\ (x \notin accepted \/ apc # "up")

\* accept has returned, and its socket has been closed again: only of this one can
\* the timer have been put into the list twice.
Done == apc = "up" /\ \A x \in accepted : /\ sock[x].state \in {"LAST_ACK", "CLOSED"}
                                         /\ x \notin queued

\* Timers not yet used are not referred to.
Apart(T) == \A x \in Child : /\ Fresh(x) => RetransTimer(x) \notin T
                             /\ NotYet(x) => Timewait(x) \notin T

ServerInv ==
  /\ Closed(tl, InServer)
  /\ \A x \in Child : Fresh(x) => sock[x] = NewSock
  /\ \E q :
       /\ \/ Linked(tl, InServer, SHead, q)
          \/ Bent(tl, InServer, SHead, q) /\ Done
       /\ Apart(Touched(tl, SHead, q))

ConnInv == SockInv /\ AppInv /\ QueueInv /\ HashInv /\ ClientInv /\ ServerInv

-----------------------------------------------------------------------------
(* The operators on sockets and packets *)

LEMMA PacketIs ==
  ASSUME NEW s \in SockType, NEW kind \in Kinds
  PROVE  Packet(s, kind) \in PacketType
BY DEF Packet, PacketType, SockType

LEMMA NewSockIs == NewSock \in Counted /\ NewSock.refs = 1 /\ NewSock.state = "CLOSED"
                   /\ NewSock.send_buf = <<>> /\ NewSock.snd_nxt = 0
<1>1. <<>> \in Seq(Buffers)
  OBVIOUS
<1>2. NewSock \in SockType
  BY <1>1 DEF NewSock, SockType, States
<1>3. NewSock.freed = FALSE /\ NewSock.refs = 1
  BY DEF NewSock
<1>4. (NewSock.freed <=> NewSock.refs <= 0)
  BY <1>3
<1> QED
  BY <1>2, <1>3, <1>4 DEF NewSock, Counted

LEMMA SentIs ==
  ASSUME NEW s \in Counted, NEW kind \in Kinds
  PROVE  /\ Sent(s, kind) \in Counted
         /\ Sent(s, kind).state = s.state /\ Sent(s, kind).refs = s.refs
         /\ Sent(s, kind).freed = s.freed
         /\ Sent(s, kind).snd_nxt >= s.snd_nxt
         /\ kind \notin {"ACK", "RST"} => Sent(s, kind).snd_nxt = s.snd_nxt + 1
<1> DEFINE b == [pkt |-> Packet(s, kind), times |-> 1]
<1>1. s \in SockType /\ (s.freed <=> s.refs <= 0) /\ s.snd_nxt \in Nat
  BY DEF Counted, SockType
<1>2. Packet(s, kind) \in PacketType
  BY <1>1, PacketIs
<1>3. 1 \in 1 .. MaxTimes + 1
  BY ConnAssumption
<1>4. b \in Buffers
  BY <1>2, <1>3 DEF Buffers
<1> HIDE DEF b
<1>5. Append(s.send_buf, b) \in Seq(Buffers)
  BY <1>1, <1>4 DEF SockType
<1>6. Sent(s, kind) = IF kind \in {"ACK", "RST"} THEN s
                      ELSE [s EXCEPT !.snd_nxt = @ + 1, !.send_buf = Append(@, b)]
  BY DEF Sent, b
<1> DEFINE c == Append(s.send_buf, b)
           t == [s EXCEPT !.snd_nxt = @ + 1, !.send_buf = c]
<1>7. CASE kind \in {"ACK", "RST"}
  BY <1>1, <1>6, <1>7
<1>8. CASE kind \notin {"ACK", "RST"}
  <2>1. s.snd_nxt + 1 \in Nat /\ c \in Seq(Buffers)
    BY <1>1, <1>5
  <2> HIDE DEF c
  <2>2. t \in SockType /\ t.refs = s.refs /\ t.freed = s.freed /\ t.state = s.state /\ t.snd_nxt = s.snd_nxt + 1
    BY <1>1, <2>1 DEF SockType
  <2> HIDE DEF t
  <2>3. Sent(s, kind) = t
    BY <1>6, <1>8 DEF t, c
  <2> QED
    BY <1>1, <2>2, <2>3 DEF Counted
<1> QED
  BY <1>7, <1>8

LEMMA HoldIs ==
  ASSUME NEW s \in Counted, ~s.freed
  PROVE  /\ Hold(s) \in Counted /\ Hold(s).refs = s.refs + 1 /\ ~Hold(s).freed
         /\ Hold(s).state = s.state /\ Hold(s).snd_nxt = s.snd_nxt
BY DEF Hold, Counted, SockType

LEMMA ReleaseIs ==
  ASSUME NEW s \in Counted
  PROVE  /\ Release(s) \in Counted /\ Release(s).refs = s.refs - 1
         /\ Release(s).state = s.state /\ Release(s).snd_nxt = s.snd_nxt
<1>1. s \in SockType /\ (s.freed <=> s.refs <= 0) /\ s.refs \in Int /\ s.freed \in BOOLEAN
  BY DEF Counted, SockType
<1> DEFINE f == s.freed \/ s.refs <= 1
<1>3. f \in BOOLEAN /\ (f <=> s.refs - 1 <= 0) /\ s.refs - 1 \in Int
  BY <1>1
<1>4. Release(s) = [s EXCEPT !.refs = s.refs - 1, !.freed = f]
  BY DEF Release
<1> HIDE DEF f
<1>5. /\ Release(s) \in SockType /\ Release(s).refs = s.refs - 1 /\ Release(s).freed = f
      /\ Release(s).state = s.state /\ Release(s).snd_nxt = s.snd_nxt
  BY <1>1, <1>3, <1>4 DEF SockType
<1>6. (Release(s).freed <=> Release(s).refs <= 0)
  BY <1>3, <1>5
<1> QED
  BY <1>5, <1>6 DEF Counted

LEMMA StateIs ==
  ASSUME NEW s \in Counted, NEW st \in States
  PROVE  /\ [s EXCEPT !.state = st] \in Counted /\ [s EXCEPT !.state = st].state = st
         /\ [s EXCEPT !.state = st].refs = s.refs /\ [s EXCEPT !.state = st].freed = s.freed
         /\ [s EXCEPT !.state = st].snd_nxt = s.snd_nxt
BY DEF Counted, SockType

LEMMA AcknowledgedIs ==
  ASSUME NEW s \in Counted, NEW p \in PacketType
  PROVE  /\ Acknowledged(s, p) \in Counted
         /\ Acknowledged(s, p).state = s.state /\ Acknowledged(s, p).refs = s.refs
         /\ Acknowledged(s, p).freed = s.freed
         /\ Acknowledged(s, p).snd_nxt = s.snd_nxt
<1> DEFINE S == {k \in 0 .. Len(s.send_buf) : \A i \in 1 .. k : SeqEnd(s.send_buf[i].pkt) <= p.ack}
           n == IF HasAck(p) THEN Max(S) ELSE 0
           u == IF n = 0 THEN s.snd_una ELSE SeqEnd(s.send_buf[n].pkt)
           b == SubSeq(s.send_buf, n + 1, Len(s.send_buf))
           r == IF p.kind = "PSH" THEN s.rcv_nxt ELSE SeqEnd(p)
<1>1. s \in SockType /\ s.send_buf \in Seq(Buffers) /\ (s.freed <=> s.refs <= 0) /\ Len(s.send_buf) \in Nat
  BY DEF Counted, SockType
<1>2. \A a \in PacketType : SeqEnd(a) \in Nat
  BY DEF PacketType, SeqEnd
<1>3. n \in 0 .. Len(s.send_buf)
  <2>1. 0 \in S /\ S \in SUBSET (0 .. Len(s.send_buf))
    BY <1>1
  <2> HIDE DEF S
  <2>2. Max(S) \in S
    BY <1>1, <2>1, GreatestIs
  <2> QED
    BY <1>1, <2>1, <2>2
<1> HIDE DEF n
<1>4. u \in Nat
  <2>1. CASE n = 0
    BY <1>1, <2>1 DEF SockType
  <2>2. CASE n # 0
    <3>1. n \in 1 .. Len(s.send_buf)
      BY <1>1, <1>3, <2>2
    <3>2. s.send_buf[n] \in Buffers
      BY <1>1, <3>1
    <3> QED
      BY <1>2, <2>2, <3>2 DEF Buffers
  <2> QED
    BY <2>1, <2>2
<1>5. b \in Seq(Buffers)
  <2>1. n + 1 \in Nat /\ \A i \in n + 1 .. Len(s.send_buf) : i \in 1 .. Len(s.send_buf)
    BY <1>1, <1>3
  <2>2. \A i \in n + 1 .. Len(s.send_buf) : s.send_buf[i] \in Buffers
    BY <1>1, <2>1
  <2> QED
    BY <1>1, <2>1, <2>2
<1>6. r \in Nat
  BY <1>1, <1>2 DEF SockType
<1>7. Acknowledged(s, p) = [s EXCEPT !.rcv_nxt = r, !.snd_una = u, !.send_buf = b]
  BY DEF Acknowledged, n
<1> HIDE DEF u, b, r
<1> QED
  BY <1>1, <1>4, <1>5, <1>6, <1>7 DEF Counted, SockType

LEMMA NumbersIs ==
  ASSUME NEW s \in Counted
  PROVE  s.snd_nxt \in Nat /\ s.rcv_nxt \in Nat
BY DEF Counted, SockType

LEMMA AcceptIs ==
  ASSUME NEW s \in Counted, NEW p \in PacketType
  PROVE  /\ Accept(s, p) \in Counted
         /\ Accept(s, p).state = s.state /\ Accept(s, p).refs = s.refs
         /\ Accept(s, p).freed = s.freed
         /\ Accept(s, p).snd_nxt = s.snd_nxt
<1> DEFINE r == s.rcv_nxt + 1
           g == s.got + 1
           t == [s EXCEPT !.rcv_nxt = r, !.got = g]
<1>1. s \in SockType /\ (s.freed <=> s.refs <= 0) /\ r \in Nat /\ g \in Nat
  BY DEF Counted, SockType
<1>2. Accept(s, p) = s \/ Accept(s, p) = t
  BY DEF Accept
<1> HIDE DEF r, g
<1>3. t \in SockType /\ t.refs = s.refs /\ t.freed = s.freed /\ t.state = s.state /\ t.snd_nxt = s.snd_nxt
  BY <1>1 DEF SockType
<1> HIDE DEF t
<1> QED
  BY <1>1, <1>2, <1>3 DEF Counted

Hosts == {"server", "client"}

LEMMA TransmitIs ==
  ASSUME NEW n \in Nets, NEW h \in Hosts, NEW ps \in Seq(PacketType)
  PROVE  Transmit(n, h, ps) \in Nets
<1> DEFINE all == n[h] \o ps
           c == LinkCap[h]
           q == IF Len(all) <= c THEN all ELSE SubSeq(all, 1, c)
<1>1. n[h] \in Seq(PacketType) /\ n \in [Hosts -> Seq(PacketType)] /\ \A g \in Hosts : Len(n[g]) <= LinkCap[g]
  BY DEF Nets, Hosts
<1>2. all \in Seq(PacketType) /\ Len(all) \in Nat
  BY <1>1
<1>3. c \in Nat
  BY ConnAssumption DEF Hosts
<1> HIDE DEF all, c
<1>4. q \in Seq(PacketType) /\ Len(q) <= c
  <2>1. CASE Len(all) <= c
    BY <1>2, <2>1
  <2>2. CASE ~ (Len(all) <= c)
    <3>1. \A i \in 1 .. c : i \in 1 .. Len(all)
      BY <1>2, <1>3, <2>2
    <3>2. \A i \in 1 .. c : all[i] \in PacketType
      BY <1>2, <3>1
    <3>3. SubSeq(all, 1, c) \in Seq(PacketType) /\ Len(SubSeq(all, 1, c)) = c
      BY <1>2, <1>3, <3>2
    <3> QED
      BY <1>3, <2>2, <3>3
  <2> QED
    BY <2>1, <2>2
<1>5. Transmit(n, h, ps) = [n EXCEPT ![h] = q]
  BY DEF Transmit, all, c
<1> HIDE DEF q
<1> QED
  BY <1>1, <1>4, <1>5 DEF Nets, Hosts, c

LEMMA TakenIs ==
  ASSUME NEW n \in Nets, NEW h \in Hosts, n[h] # <<>>
  PROVE  Head(n[h]) \in PacketType /\ [n EXCEPT ![h] = Tail(@)] \in Nets
<1>1. n[h] \in Seq(PacketType) /\ n \in [Hosts -> Seq(PacketType)] /\ \A g \in Hosts : Len(n[g]) <= LinkCap[g]
  BY DEF Nets, Hosts
<1>2. Head(n[h]) \in PacketType /\ Tail(n[h]) \in Seq(PacketType)
  BY <1>1
<1>3. Len(Tail(n[h])) <= LinkCap[h]
  <2>1. Len(n[h]) \in Nat /\ Len(Tail(n[h])) = Len(n[h]) - 1
    BY <1>1
  <2>2. LinkCap[h] \in Nat
    BY ConnAssumption DEF Hosts
  <2> QED
    BY <1>1, <2>1, <2>2
<1> QED
  BY <1>1, <1>2, <1>3 DEF Nets, Hosts

-----------------------------------------------------------------------------
(* The names of nodes and sockets *)

LEMMA Heads ==
  /\ \A x \in Client : /\ x \in Sock /\ x \notin Child /\ x \in HashNode /\ x # CTable /\ x # Table
                       /\ TableOf(x) = CTable /\ TimerHead(x) = CHead
                       /\ HostOf(x) = "client" /\ Peer(x) = "server"
  /\ \A x \in Child : /\ x \in Sock /\ x \notin Client /\ x \in HashNode /\ x # CTable /\ x # Table
                      /\ TableOf(x) = Table /\ TimerHead(x) = SHead
                      /\ HostOf(x) = "server" /\ Peer(x) = "client"
  /\ Table \in HashNode /\ CTable \in HashNode /\ Table # CTable
  /\ \A x \in Sock : x \in Client \/ x \in Child
BY ConnAssumption DEF Sock, HashNode, TableOf, TimerHead, TimersOf, HostOf, Peer, CHead, SHead

LEMMA TimerNodes ==
  /\ InClient \in SUBSET TimerNode /\ InServer \in SUBSET TimerNode
  /\ CHead \in InClient /\ SHead \in InServer
  /\ \A y \in InClient : y \notin InServer
  /\ \A y \in InServer : y \notin InClient
  /\ \A x \in Client : /\ RetransTimer(x) \in InClient /\ RetransTimer(x) # CHead
                       /\ Timewait(x) \in InClient /\ Timewait(x) # CHead
  /\ \A x \in Child : /\ RetransTimer(x) \in InServer /\ RetransTimer(x) # SHead
                      /\ Timewait(x) \in InServer /\ Timewait(x) # SHead
  /\ \A x, y : /\ RetransTimer(x) # Timewait(y)
               /\ RetransTimer(x) = RetransTimer(y) => x = y
               /\ Timewait(x) = Timewait(y) => x = y
<1>1. Client \cap Child = {} /\ Timers # CTimers
  BY ConnAssumption
<1>2. InClient \in SUBSET TimerNode /\ InServer \in SUBSET TimerNode
  BY DEF InClient, InServer, TimersIn, TimerNode, Sock
<1>3. \A y \in InClient : y \notin InServer
  <2>1. \A y \in InClient : y = <<CTimers, "head">> \/ \E x \in Client, k \in {"retrans", "timewait"} : y = <<x, k>>
    BY DEF InClient, TimersIn
  <2>2. \A y \in InServer : y = <<Timers, "head">> \/ \E x \in Child, k \in {"retrans", "timewait"} : y = <<x, k>>
    BY DEF InServer, TimersIn
  <2> QED
    BY <1>1, <2>1, <2>2
<1>4. CHead \in InClient /\ SHead \in InServer
  BY DEF InClient, InServer, TimersIn, CHead, SHead
<1>5. \A x \in Client : /\ RetransTimer(x) \in InClient /\ RetransTimer(x) # CHead
                        /\ Timewait(x) \in InClient /\ Timewait(x) # CHead
  BY DEF InClient, TimersIn, CHead, RetransTimer, Timewait
<1>6. \A x \in Child : /\ RetransTimer(x) \in InServer /\ RetransTimer(x) # SHead
                       /\ Timewait(x) \in InServer /\ Timewait(x) # SHead
  BY DEF InServer, TimersIn, SHead, RetransTimer, Timewait
<1>7. \A x, y : /\ RetransTimer(x) # Timewait(y)
                /\ RetransTimer(x) = RetransTimer(y) => x = y
                /\ Timewait(x) = Timewait(y) => x = y
  BY DEF RetransTimer, Timewait
<1> QED
  BY <1>2, <1>3, <1>4, <1>5, <1>6, <1>7

LEMMA Finite == IsFiniteSet(HashNode) /\ IsFiniteSet(TimerNode)
<1>1. IsFiniteSet(Sock)
  BY ConnAssumption, FS_Union DEF Sock
<1>2. IsFiniteSet({Table, CTable}) /\ IsFiniteSet({"retrans", "timewait"})
      /\ IsFiniteSet({<<Timers, "head">>, <<CTimers, "head">>})
  <2>1. \A a, b : IsFiniteSet({a, b})
    <3> TAKE a, b
    <3>1. IsFiniteSet({a}) /\ IsFiniteSet({b})
      BY FS_Singleton
    <3>2. {a, b} = {a} \cup {b}
      OBVIOUS
    <3> QED
      BY <3>1, <3>2, FS_Union
  <2> QED
    BY <2>1
<1>3. IsFiniteSet(HashNode)
  BY <1>1, <1>2, FS_Union DEF HashNode
<1>4. IsFiniteSet(Sock \X {"retrans", "timewait"})
  BY <1>1, <1>2, FS_Product
<1>5. IsFiniteSet(TimerNode)
  BY <1>2, <1>4, FS_Union DEF TimerNode
<1> QED
  BY <1>3, <1>5

\* Lists of no, one and two entries.
LEMMA NoEntry ==
  ASSUME NEW m, NEW N, NEW h, m.next[h] = h
  PROVE  IsList(m, N, h, <<>>) /\ ToSet(<<>>) = {}
<1> DEFINE q == <<>>
<1>1. q \in Seq(N) /\ Len(q) = 0 /\ DOMAIN q = {} /\ ToSet(q) = {}
  BY DEF ToSet, Range
<1>2. \A i \in 0 .. 0 : i = 0 /\ i + 1 = 1
  OBVIOUS
<1> HIDE DEF q
<1>3. Place(h, q, 0) = h /\ Place(h, q, 1) = h
  BY <1>1 DEF Place
<1> QED
  BY <1>1, <1>2, <1>3 DEF IsList, IsInjective, q

LEMMA OneEntry ==
  ASSUME NEW m, NEW N, NEW h, NEW a \in N, a # h, m.next[h] = a, m.next[a] = h
  PROVE  IsList(m, N, h, <<a>>) /\ ToSet(<<a>>) = {a}
<1> DEFINE q == <<a>>
<1>1. q \in Seq(N) /\ Len(q) = 1 /\ DOMAIN q = {1} /\ q[1] = a
  OBVIOUS
<1>2. \A i \in 0 .. 1 : (i = 0 /\ i + 1 = 1) \/ (i = 1 /\ i + 1 = 2)
  OBVIOUS
<1> HIDE DEF q
<1>3. ToSet(q) = {a}
  BY <1>1 DEF ToSet, Range
<1>4. Place(h, q, 0) = h /\ Place(h, q, 1) = a /\ Place(h, q, 2) = h
  BY <1>1 DEF Place
<1> QED
  BY <1>1, <1>2, <1>3, <1>4 DEF IsList, IsInjective, q

LEMMA TwoEntries ==
  ASSUME NEW m, NEW N, NEW h, NEW a \in N, NEW b \in N, a # h, b # h, a # b,
         m.next[h] = a, m.next[a] = b, m.next[b] = h
  PROVE  IsList(m, N, h, <<a, b>>) /\ ToSet(<<a, b>>) = {a, b}
<1> DEFINE q == <<a, b>>
<1>1. q \in Seq(N) /\ Len(q) = 2 /\ DOMAIN q = {1, 2} /\ q[1] = a /\ q[2] = b
  OBVIOUS
<1>2. \A i \in 0 .. 2 : (i = 0 /\ i + 1 = 1) \/ (i = 1 /\ i + 1 = 2) \/ (i = 2 /\ i + 1 = 3)
  OBVIOUS
<1> HIDE DEF q
<1>3. ToSet(q) = {a, b}
  BY <1>1 DEF ToSet, Range
<1>4. Place(h, q, 0) = h /\ Place(h, q, 1) = a /\ Place(h, q, 2) = b /\ Place(h, q, 3) = h
  BY <1>1 DEF Place
<1>5. \A i \in 0 .. Len(q) : m.next[Place(h, q, i)] = Place(h, q, i + 1)
  BY <1>1, <1>2, <1>4
<1>6. IsInjective(q)
  BY <1>1 DEF IsInjective
<1> QED
  BY <1>1, <1>3, <1>5, <1>6 DEF IsList, q

\* The timers of the client that are armed are those its list shows.
LEMMA ClientTimers ==
  ASSUME AppInv, ClientInv
  PROVE  /\ \A x \in Client :
              /\ Armed(RetransTimer(x), x) <=> x \in running /\ tl.next[CHead] = RetransTimer(x)
              /\ Armed(Timewait(x), x) <=>
                   /\ x \in running
                   /\ \/ tl.next[CHead] = Timewait(x)
                      \/ /\ tl.next[CHead] = RetransTimer(x)
                         /\ tl.next[RetransTimer(x)] = Timewait(x)
         /\ WalkEnds(tl, CHead)
<1> DEFINE E == Entries(tl, CHead)
           Met(S) == WalkEnds(tl, CHead) /\ E = S
           h == CHead
<1>1. CHead \in TimerNode /\ InClient \in SUBSET TimerNode /\ CHead \in InClient
  BY TimerNodes
<1>2. ASSUME NEW q, IsList(tl, InClient, CHead, q)  PROVE Met(ToSet(q))
  BY <1>1, <1>2, WalkIs, Finite DEF AppInv
<1>3. \A x \in Client : TimerHead(x) = CHead
  BY Heads
<1>4. \A x \in Client : (Armed(RetransTimer(x), x) <=> RetransTimer(x) \in E)
                       /\ (Armed(Timewait(x), x) <=> Timewait(x) \in E)
  BY <1>3 DEF Armed
<1>5. \A x \in Client : /\ RetransTimer(x) \in InClient \ {CHead} /\ Timewait(x) \in InClient \ {CHead}
  BY TimerNodes
<1>6. \A x, y : /\ RetransTimer(x) # Timewait(y)
                /\ RetransTimer(x) = RetransTimer(y) => x = y
                /\ Timewait(x) = Timewait(y) => x = y
  BY TimerNodes
<1>7. CASE tl.next[CHead] = CHead
  <2>1. Met({})
    <3>1. IsList(tl, InClient, CHead, <<>>) /\ ToSet(<<>>) = {}
      BY <1>7, NoEntry
    <3> QED
      BY <1>2, <3>1
  <2> HIDE DEF E
  <2> QED
    BY <1>4, <1>5, <1>7, <2>1
<1>8. CASE tl.next[CHead] # CHead
  <2>1. PICK x \in Client : running = {x} /\ ClientList(tl, x)
    BY <1>8 DEF AppInv, ClientInv
  <2> DEFINE R == RetransTimer(x)
             T == Timewait(x)
  <2>2. R \in InClient \ {h} /\ T \in InClient \ {h} /\ R # T
    BY <1>5, <1>6
  <2>3. \/ tl.next[h] = R /\ tl.next[R] = h
        \/ tl.next[h] = T /\ tl.next[T] = h
        \/ tl.next[h] = R /\ tl.next[R] = T /\ tl.next[T] = h
    BY <1>8, <2>1 DEF ClientList
  <2>7. \A y \in Client : /\ y \in running <=> y = x
                          /\ RetransTimer(y) = R <=> y = x
                          /\ Timewait(y) = T <=> y = x
                          /\ RetransTimer(y) # T /\ Timewait(y) # R
                          /\ RetransTimer(y) # h /\ Timewait(y) # h
    BY <1>5, <1>6, <2>1
  <2> HIDE DEF R, T, h
  <2>4. CASE tl.next[h] = R /\ tl.next[R] = h
    <3>1. IsList(tl, InClient, h, <<R>>) /\ ToSet(<<R>>) = {R}
      BY <2>2, <2>4, OneEntry
    <3>2. Met({R})
      BY <1>2, <3>1 DEF h
    <3> HIDE DEF E
    <3> QED
      BY <1>4, <2>2, <2>7, <2>4, <3>2 DEF h
  <2>5. CASE tl.next[h] = T /\ tl.next[T] = h
    <3>1. IsList(tl, InClient, h, <<T>>) /\ ToSet(<<T>>) = {T}
      BY <2>2, <2>5, OneEntry
    <3>2. Met({T})
      BY <1>2, <3>1 DEF h
    <3> HIDE DEF E
    <3> QED
      BY <1>4, <2>2, <2>7, <2>5, <3>2 DEF h
  <2>6. CASE tl.next[h] = R /\ tl.next[R] = T /\ tl.next[T] = h
    <3>1. IsList(tl, InClient, h, <<R, T>>) /\ ToSet(<<R, T>>) = {R, T}
      BY <2>2, <2>6, TwoEntries
    <3>2. Met({R, T})
      BY <1>2, <3>1 DEF h
    <3> HIDE DEF E
    <3> QED
      BY <1>4, <2>2, <2>7, <2>6, <3>2 DEF h
  <2> QED
    BY <2>3, <2>4, <2>5, <2>6
<1> QED
  BY <1>7, <1>8

\* What putting a timer of the client x into its list, and taking one out, makes of it.
LEMMA ClientListIs ==
  ASSUME NEW m \in Memory(TimerNode), NEW x \in Client, ClientList(m, x)
  PROVE  /\ ClientList(list_add_tail(m, Timewait(x), CHead), x)
         /\ m.next[CHead] = RetransTimer(x) =>
              ClientList(list_delete_entry(m, RetransTimer(x)), x)
         /\ (\/ m.next[CHead] = Timewait(x)
             \/ m.next[CHead] = RetransTimer(x) /\ m.next[RetransTimer(x)] = Timewait(x))
            => ClientList(list_delete_entry(m, Timewait(x)), x)
<1> DEFINE R == RetransTimer(x)
           T == Timewait(x)
           h == CHead
           Shapes(n) ==
             \/ n.next[h] = h /\ n.prev[h] = h
             \/ n.next[h] = R /\ n.next[R] = h /\ n.prev[h] = R /\ n.prev[R] = h
             \/ n.next[h] = T /\ n.next[T] = h /\ n.prev[h] = T /\ n.prev[T] \in {h, T}
             \/ /\ n.next[h] = R /\ n.next[R] = T /\ n.next[T] = h
                /\ n.prev[h] = T /\ n.prev[R] = h /\ n.prev[T] \in {R, T}
<1>1. \A n : ClientList(n, x) <=> Shapes(n)
  BY DEF ClientList
<1>2. R \in TimerNode /\ T \in TimerNode /\ h \in TimerNode /\ R # T /\ R # h /\ T # h
  BY TimerNodes
<1> HIDE DEF R, T, h
<1>3. Shapes(list_add_tail(m, T, h))
  <2> DEFINE n == list_add_tail(m, T, h)
  <2>1. /\ \A y \in TimerNode : n.next[y] = IF y = T THEN h ELSE IF y = m.prev[h] THEN T ELSE m.next[y]
        /\ \A y \in TimerNode : n.prev[y] = IF y = T THEN m.prev[h] ELSE IF y = h THEN T ELSE m.prev[y]
    BY <1>2, AddTailPointers
  <2> HIDE DEF n
  <2> QED
    BY <1>1, <1>2, <2>1 DEF n
<1>4. ASSUME NEW e \in {R, T}
      PROVE  /\ \A y \in TimerNode : list_delete_entry(m, e).next[y] = IF y = m.prev[e] THEN m.next[e] ELSE m.next[y]
             /\ \A y \in TimerNode : list_delete_entry(m, e).prev[y] = IF y = m.next[e] THEN m.prev[e] ELSE m.prev[y]
  <2>1. e \in TimerNode
    BY <1>2
  <2> QED
    BY <2>1, DeletePointers
<1>5. ASSUME m.next[h] = R  PROVE Shapes(list_delete_entry(m, R))
  <2> DEFINE n == list_delete_entry(m, R)
  <2>1. /\ \A y \in TimerNode : n.next[y] = IF y = m.prev[R] THEN m.next[R] ELSE m.next[y]
        /\ \A y \in TimerNode : n.prev[y] = IF y = m.next[R] THEN m.prev[R] ELSE m.prev[y]
    BY <1>4
  <2> HIDE DEF n
  <2> QED
    BY <1>1, <1>2, <1>5, <2>1 DEF n
<1>6. ASSUME m.next[h] = T \/ (m.next[h] = R /\ m.next[R] = T)  PROVE Shapes(list_delete_entry(m, T))
  <2> DEFINE n == list_delete_entry(m, T)
  <2>1. /\ \A y \in TimerNode : n.next[y] = IF y = m.prev[T] THEN m.next[T] ELSE m.next[y]
        /\ \A y \in TimerNode : n.prev[y] = IF y = m.next[T] THEN m.prev[T] ELSE m.prev[y]
    BY <1>4
  <2> HIDE DEF n
  <2> QED
    BY <1>1, <1>2, <1>6, <2>1 DEF n
<1> QED
  BY <1>1, <1>3, <1>5, <1>6 DEF R, T, h

LEMMA ServerTimers ==
  ASSUME AppInv, NEW q, IsList(tl, InServer, SHead, q)
  PROVE  /\ \A x \in Child : /\ Armed(Timewait(x), x) <=> Timewait(x) \in ToSet(q)
                             /\ Armed(RetransTimer(x), x) <=> RetransTimer(x) \in ToSet(q)
         /\ WalkEnds(tl, SHead)
<1>1. SHead \in TimerNode /\ InServer \in SUBSET TimerNode
  BY TimerNodes
<1>2. Entries(tl, SHead) = ToSet(q) /\ WalkEnds(tl, SHead)
  BY <1>1, WalkIs, Finite DEF AppInv
<1>3. \A x \in Child : TimerHead(x) = SHead
  BY Heads
<1> QED
  BY <1>2, <1>3 DEF Armed

-----------------------------------------------------------------------------
(* What a step has to leave alone *)

LEMMA QueueSame ==
  ASSUME ConnInv, UNCHANGED <<accept_queue, apc, accepted, rpc, queued>>,
         \A x \in Child : ~Fresh(x) => /\ sock'[x].snd_nxt # 0
                                       /\ sock'[x].state = "SYN_RECV" => sock[x].state = "SYN_RECV"
  PROVE  QueueInv'
<1>1. QueueInv
  BY DEF ConnInv
<1>2. \A x \in ToSet(accept_queue) \cup accepted : x \in Child
  BY <1>1 DEF QueueInv, ToSet, Range
<1>3. \A x \in ToSet(accept_queue) \cup accepted :
         sock'[x].snd_nxt # 0 /\ (sock'[x].state # "SYN_RECV" \/ x \in queued)
  BY <1>1, <1>2 DEF QueueInv
<1>4. QueuedOnce'
  BY <1>1 DEF QueueInv, QueuedOnce
<1>5. \A x \in Child : ~Fresh(x) => ~Fresh(x)'
  BY DEF Fresh
<1> QED
  BY <1>1, <1>3, <1>4, <1>5 DEF QueueInv, Fresh

LEMMA HashSame ==
  ASSUME ConnInv, hl' = hl, running' = running, cpc' = "connect" => cpc = "connect",
         \A x \in Child : ~Fresh(x) => sock'[x].snd_nxt # 0
  PROVE  HashInv'
<1>1. HashInv
  BY DEF ConnInv
<1>2. hl.next[Table] # Table => hl.next[Table] \in Child /\ sock'[hl.next[Table]].snd_nxt # 0
  BY <1>1 DEF HashInv, Bucket
<1> QED
  BY <1>1, <1>2 DEF HashInv, Fresh

LEMMA ServerSame ==
  ASSUME ConnInv, \A y \in InServer : tl'.next[y] = tl.next[y] /\ tl'.prev[y] = tl.prev[y],
         \A x \in Child : /\ sock'[x].snd_nxt = 0 => sock'[x] = sock[x]
                          /\ NotYet(x)' => NotYet(x),
         Done => Done'
  PROVE  ServerInv'
<1>1. ServerInv
  BY DEF ConnInv
<1>2. Closed(tl', InServer)
  BY <1>1, SameList, TimerNodes DEF ServerInv
<1>3. \A x \in Child : Fresh(x)' => Fresh(x) /\ sock'[x] = NewSock
  BY <1>1 DEF ServerInv, Fresh
<1>4. PICK q : /\ \/ Linked(tl, InServer, SHead, q)
                  \/ Bent(tl, InServer, SHead, q) /\ Done
               /\ Apart(Touched(tl, SHead, q))
  BY <1>1 DEF ServerInv
<1>5. /\ Linked(tl, InServer, SHead, q) => Linked(tl', InServer, SHead, q)
      /\ Bent(tl, InServer, SHead, q) => Bent(tl', InServer, SHead, q)
                                         /\ Touched(tl', SHead, q) = Touched(tl, SHead, q)
  <2>1. SHead \in InServer
    BY TimerNodes
  <2> HIDE DEF SHead, InServer
  <2> QED
    BY <2>1, SameList
<1>6. Bent(tl, InServer, SHead, q)
  BY <1>4, LinkedIsBent
<1>7. Touched(tl', SHead, q) = Touched(tl, SHead, q)
  BY <1>5, <1>6
<1>8. \A x \in Child : /\ Fresh(x)' => RetransTimer(x) \notin Touched(tl', SHead, q)
                       /\ NotYet(x)' => Timewait(x) \notin Touched(tl', SHead, q)
  BY <1>3, <1>4, <1>7 DEF Apart
<1>9. Apart(Touched(tl, SHead, q))'
  BY <1>8 DEF Apart, RetransTimer, Timewait, Touched, SHead
<1> QED
  BY <1>2, <1>3, <1>4, <1>5, <1>9 DEF ServerInv

LEMMA ClientSame ==
  ASSUME ConnInv, \A y \in InClient : tl'.next[y] = tl.next[y] /\ tl'.prev[y] = tl.prev[y],
         running' = running, cpc' = "connect" => cpc = "connect",
         \A x \in Client : x \notin running \/ cpc' = "connect" => sock'[x] = sock[x]
  PROVE  ClientInv'
<1>1. ClientInv /\ running \in SUBSET Client
  BY DEF ConnInv, AppInv
<1>2. CHead \in InClient /\ \A x \in Client : RetransTimer(x) \in InClient /\ Timewait(x) \in InClient
  BY TimerNodes
<1>3. Closed(tl', InClient)
  BY <1>1, <1>2, SameList DEF ClientInv
<1>4. \A x \in Client : ClientList(tl, x) => ClientList(tl', x)
  BY <1>2 DEF ClientList
<1>5. \A x \in running : /\ ClientList(tl', x)
                         /\ cpc' = "connect" => /\ sock'[x] = NewSock /\ tl'.next[CHead] = RetransTimer(x)
                                                /\ tl'.next[RetransTimer(x)] = CHead
  BY <1>1, <1>2, <1>4 DEF ClientInv
<1>6. \A x \in Client \ running : sock'[x] = NewSock
  BY <1>1 DEF ClientInv
<1>7. running = {} => tl'.next[CHead] = CHead /\ tl'.prev[CHead] = CHead
  BY <1>1, <1>2 DEF ClientInv
<1> QED
  BY <1>3, <1>5, <1>6, <1>7 DEF ClientInv, ClientList, RetransTimer, Timewait, CHead, InClient, TimersIn

\* The states a socket of the server goes through, but for what accept does.
Moves(a, b) == \/ a = b \/ b = "CLOSED"
               \/ a = "SYN_RECV" /\ b = "ESTABLISHED"
               \/ a = "ESTABLISHED" /\ b = "LAST_ACK"

LEMMA ChildMoves ==
  ASSUME ConnInv, NEW x \in Child, ~Fresh(x), NEW t, sock' = [sock EXCEPT ![x] = t],
         t.snd_nxt # 0, UNCHANGED <<apc, accepted>>,
         Moves(sock[x].state, t.state) \/ (x \in queued /\ t.state = "ESTABLISHED"),
         \/ queued' \in {queued, {}}
         \/ queued' = {x} /\ sock[x].state = "SYN_RECV" /\ queued = {}
  PROVE  /\ \A y \in Child :
              /\ ~Fresh(y) => /\ sock'[y].snd_nxt # 0
                              /\ sock'[y].state = "SYN_RECV" => sock[y].state = "SYN_RECV"
              /\ sock'[y].snd_nxt = 0 => sock'[y] = sock[y]
              /\ NotYet(y)' => NotYet(y)
         /\ Done => Done'
         /\ \A y \in Client : sock'[y] = sock[y]
<1>1. DOMAIN sock = Sock /\ x \in Sock /\ x \notin Client
  BY Heads DEF ConnInv, SockInv
<1>2. sock'[x] = t /\ \A y \in Sock : y # x => sock'[y] = sock[y]
  BY <1>1
<1>3. \A y \in Child : y \in Sock
  BY Heads
<1>4. \A y \in Client : y \in Sock /\ y # x
  BY <1>1, Heads
<1>5. NotYet(x)' => NotYet(x)
  BY <1>2 DEF NotYet, Fresh, Moves
<1>6. ASSUME NEW y \in Child, y # x  PROVE NotYet(y)' => NotYet(y)
  BY <1>2, <1>3, <1>6 DEF NotYet, Fresh
<1>7. Done => Done'
  <2>1. \A y \in accepted : y \in Child
    BY DEF ConnInv, QueueInv
  <2>2. ASSUME Done, NEW y \in accepted  PROVE sock'[y].state \in {"LAST_ACK", "CLOSED"} /\ y \notin queued'
    <3>1. sock[y].state \in {"LAST_ACK", "CLOSED"} /\ y \notin queued /\ y \in Sock
      BY <1>3, <2>1, <2>2 DEF Done
    <3>2. CASE y = x
      BY <1>2, <3>1, <3>2 DEF Moves
    <3>3. CASE y # x
      BY <1>2, <3>1, <3>3
    <3> QED
      BY <3>2, <3>3
  <2> QED
    BY <2>2 DEF Done
<1>8. t.state = "SYN_RECV" => sock[x].state = "SYN_RECV"
  BY DEF Moves
<1> QED
  BY <1>2, <1>3, <1>4, <1>5, <1>6, <1>7, <1>8 DEF Fresh

LEMMA ClientLeaves ==
  ASSUME ConnInv, UNCHANGED <<apc, accepted, queued>>, \A y \in Child : sock'[y] = sock[y]
  PROVE  /\ \A y \in Child :
              /\ ~Fresh(y) => /\ sock'[y].snd_nxt # 0
                              /\ sock'[y].state = "SYN_RECV" => sock[y].state = "SYN_RECV"
              /\ sock'[y].snd_nxt = 0 => sock'[y] = sock[y]
              /\ NotYet(y)' => NotYet(y)
         /\ Done => Done'
<1>1. \A y \in accepted : y \in Child
  BY DEF ConnInv, QueueInv
<1> QED
  BY <1>1 DEF Fresh, NotYet, Done

LEMMA SockChange ==
  ASSUME ConnInv, NEW x \in Sock, NEW t \in Counted, sock' = [sock EXCEPT ![x] = t],
         x \in Child => t.state \in {"CLOSED", "SYN_RECV", "ESTABLISHED", "LAST_ACK"},
         x \in Client => t.state # "SYN_RECV"
  PROVE  SockInv'
<1>1. sock \in [Sock -> Counted]
  BY DEF ConnInv, SockInv
<1>2. sock' \in [Sock -> Counted] /\ sock'[x] = t /\ \A y \in Sock : y # x => sock'[y] = sock[y]
  BY <1>1
<1>3. \A y \in Child : sock'[y].state \in {"CLOSED", "SYN_RECV", "ESTABLISHED", "LAST_ACK"}
  BY <1>2, Heads DEF ConnInv, SockInv
<1>4. \A y \in Client : sock'[y].state # "SYN_RECV"
  BY <1>2, Heads DEF ConnInv, SockInv
<1> QED
  BY <1>2, <1>3, <1>4 DEF SockInv

\* What is known of the socket that handles a packet.
LEMMA ForIs ==
  ASSUME ConnInv, Up, NEW x \in Sock, NEW p, For(x, p)
  PROVE  /\ p \in PacketType /\ sock[x] \in Counted /\ ~sock[x].freed
         /\ Acknowledged(sock[x], p) \in Counted
         /\ x \in Child => /\ sock[x].snd_nxt # 0 /\ ~Fresh(x) /\ hl.next[Table] = x
                           /\ rpc = "ready" /\ queued = {}
         /\ x \in Client => x \in running /\ cpc # "connect" /\ hl.next[CTable] = x
         /\ HostOf(x) \in Hosts /\ Peer(x) \in Hosts
         /\ \A s, ps : ps \in Seq(PacketType) /\ Becomes(x, s, ps) => net' \in Nets
<1>1. HostOf(x) \in Hosts /\ Peer(x) \in Hosts
  BY DEF HostOf, Peer, Hosts
<1>2. net \in Nets
  BY DEF ConnInv, AppInv
<1>3. p \in PacketType /\ [net EXCEPT ![HostOf(x)] = Tail(@)] \in Nets
  BY <1>1, <1>2, TakenIs DEF For
<1>4. sock[x] \in Counted /\ ~sock[x].freed
  BY DEF ConnInv, SockInv, Up
<1>5. Acknowledged(sock[x], p) \in Counted
  BY <1>3, <1>4, AcknowledgedIs
<1>6. hl.next[TableOf(x)] = x
  BY DEF For
<1>7. x \in Child => /\ sock[x].snd_nxt # 0 /\ ~Fresh(x) /\ hl.next[Table] = x
                     /\ rpc = "ready" /\ queued = {}
  <2>1. x \in Child => rpc = "ready" /\ queued = {}
    BY Heads DEF For, Ready, ConnInv, QueueInv
  <2> QED
    BY <1>6, <2>1, Heads DEF ConnInv, HashInv, Fresh
<1>8. x \in Client => x \in running /\ cpc # "connect" /\ hl.next[CTable] = x
  BY <1>6, Heads DEF ConnInv, HashInv
<1>9. ASSUME NEW s, NEW ps, ps \in Seq(PacketType), Becomes(x, s, ps)  PROVE net' \in Nets
  BY <1>1, <1>3, <1>9, TransmitIs DEF Becomes
<1> QED
  BY <1>1, <1>3, <1>4, <1>5, <1>7, <1>8, <1>9

\* A packet that only changes the socket, neither the tables nor the timers.
LEMMA Handled ==
  ASSUME ConnInv, Up, NEW x \in Sock, NEW p, For(x, p), NEW t \in Counted, NEW ps \in Seq(PacketType),
         Becomes(x, t, ps), UNCHANGED <<hl, tl, running, unused, cpc, apc, accepted, giving, torn>>,
         t.snd_nxt = sock[x].snd_nxt,
         x \in Child => Moves(sock[x].state, t.state),
         x \in Client => t.state # "SYN_RECV",
         \/ queued' = queued
         \/ x \in Child /\ queued' = {x} /\ sock[x].state = "SYN_RECV" /\ queued = {}
  PROVE  /\ SockInv' /\ HashInv' /\ ClientInv' /\ ServerInv'
         /\ wait_connect' \in Wait /\ wait_accept' \in Wait => AppInv'
         /\ UNCHANGED <<accept_queue, rpc, queued>> => QueueInv'
<1>1. /\ p \in PacketType /\ sock[x] \in Counted
      /\ x \in Child => ~Fresh(x) /\ sock[x].snd_nxt # 0
      /\ x \in Client => x \in running /\ cpc # "connect"
      /\ net' \in Nets
  BY ForIs
<1>2. sock' = [sock EXCEPT ![x] = t] /\ sock'[x] = t /\ \A y \in Sock : y # x => sock'[y] = sock[y]
  BY DEF Becomes, ConnInv, SockInv
<1>3. wait_connect' \in Wait /\ wait_accept' \in Wait => AppInv'
  BY <1>1 DEF ConnInv, AppInv
<1>4. CASE x \in Child
  <2>1. /\ x \notin Client /\ t.state \in {"CLOSED", "SYN_RECV", "ESTABLISHED", "LAST_ACK"}
    BY <1>4, Heads DEF ConnInv, SockInv, Moves
  <2>2. SockInv'
    BY <1>2, <2>1, SockChange
  <2>3. /\ \A y \in Child :
              /\ ~Fresh(y) => /\ sock'[y].snd_nxt # 0
                              /\ sock'[y].state = "SYN_RECV" => sock[y].state = "SYN_RECV"
              /\ sock'[y].snd_nxt = 0 => sock'[y] = sock[y]
              /\ NotYet(y)' => NotYet(y)
        /\ Done => Done'
        /\ \A y \in Client : sock'[y] = sock[y]
    BY <1>1, <1>2, <1>4, ChildMoves
  <2>4. HashInv' /\ ClientInv' /\ ServerInv'
    BY <2>3, HashSame, ClientSame, ServerSame
  <2>5. UNCHANGED <<accept_queue, rpc, queued>> => QueueInv'
    BY <2>3, QueueSame
  <2> QED
    BY <1>3, <2>2, <2>4, <2>5
<1>5. CASE x \in Client
  <2>1. t.state # "SYN_RECV" /\ x \notin Child
    BY <1>5, Heads DEF ConnInv, SockInv
  <2>2. SockInv'
    BY <1>2, <2>1, SockChange
  <2>3. (\A y \in Child : sock'[y] = sock[y]) /\ queued' = queued
    BY <1>2, <2>1, Heads
  <2>4. /\ \A y \in Child :
              /\ ~Fresh(y) => /\ sock'[y].snd_nxt # 0
                              /\ sock'[y].state = "SYN_RECV" => sock[y].state = "SYN_RECV"
              /\ sock'[y].snd_nxt = 0 => sock'[y] = sock[y]
              /\ NotYet(y)' => NotYet(y)
        /\ Done => Done'
    BY <2>3, ClientLeaves
  <2>5. HashInv' /\ ServerInv'
    BY <2>4, HashSame, ServerSame
  <2>6. UNCHANGED <<accept_queue, rpc, queued>> => QueueInv'
    BY <2>4, QueueSame
  <2>8. \A y \in Client : y # x => sock'[y] = sock[y]
    BY <1>2, Heads
  <2>9. ClientInv'
    BY <1>1, <2>8, ClientSame
  <2> QED
    BY <1>3, <2>2, <2>5, <2>6, <2>9
<1> QED
  BY <1>4, <1>5, Heads

-----------------------------------------------------------------------------
(* Timers put into the lists and taken out *)

LEMMA ServerAdds ==
  ASSUME ConnInv, NEW t \in InServer, t # SHead, tl' = list_add_tail(tl, t, SHead),
         \A x \in Child : /\ sock'[x].snd_nxt = 0 => sock'[x] = sock[x] /\ RetransTimer(x) # t
                          /\ NotYet(x)' => NotYet(x) /\ Timewait(x) # t,
         Done => Done',
         \/ \E c \in Child : \/ Fresh(c) /\ t = RetransTimer(c)
                             \/ NotYet(c) /\ t = Timewait(c)
         \/ ~Done /\ Done'
  PROVE  /\ ServerInv' /\ tl' \in Memory(TimerNode)
         /\ \A y \in InClient : tl'.next[y] = tl.next[y] /\ tl'.prev[y] = tl.prev[y]
<1>1. ServerInv /\ tl \in Memory(TimerNode)
  BY DEF ConnInv, AppInv
<1>2. SHead \in InServer /\ InServer \in SUBSET TimerNode
  BY TimerNodes
<1>3. /\ tl' \in Memory(TimerNode) /\ Closed(tl', InServer)
      /\ \A y \in TimerNode \ InServer : tl'.next[y] = tl.next[y] /\ tl'.prev[y] = tl.prev[y]
  <2>1. Closed(tl, InServer)
    BY <1>1 DEF ServerInv
  <2> QED
    BY <1>1, <1>2, <2>1, AddWithin
<1>4. \A y \in InClient : tl'.next[y] = tl.next[y] /\ tl'.prev[y] = tl.prev[y]
  BY <1>3, TimerNodes
<1>5. \A x \in Child : Fresh(x)' => Fresh(x) /\ sock'[x] = NewSock
  BY <1>1 DEF ServerInv, Fresh
<1>6. PICK q : /\ \/ Linked(tl, InServer, SHead, q)
                  \/ Bent(tl, InServer, SHead, q) /\ Done
               /\ Apart(Touched(tl, SHead, q))
  BY <1>1 DEF ServerInv
<1>7. Bent(tl, InServer, SHead, q) /\ ToSet(q) \subseteq Touched(tl, SHead, q)
  BY <1>6, LinkedIsBent DEF Touched
<1>8. \E r : /\ \/ Linked(tl', InServer, SHead, r)
                \/ Bent(tl', InServer, SHead, r) /\ Done'
             /\ Touched(tl', SHead, r) \subseteq Touched(tl, SHead, q) \cup {t, SHead}
  <2> HIDE DEF SHead, InServer
  <2>1. CASE Linked(tl, InServer, SHead, q) /\ t \notin ToSet(q)
    <3>1. /\ Linked(tl', InServer, SHead, Append(q, t))
          /\ ToSet(Append(q, t)) = ToSet(q) \cup {t}
      BY <1>1, <1>2, <2>1, AddIs
    <3>2. Touched(tl', SHead, Append(q, t)) \subseteq ToSet(q) \cup {t, SHead}
      BY <3>1, LinkedIsBent
    <3> QED
      BY <1>7, <3>1, <3>2
  <2>2. CASE Linked(tl, InServer, SHead, q) /\ t \in ToSet(q)
    <3>1. \E r : /\ Bent(list_add_tail(tl, t, SHead), InServer, SHead, r)
                 /\ Touched(list_add_tail(tl, t, SHead), SHead, r)
                      \subseteq Touched(tl, SHead, q) \cup {t, SHead}
      BY <1>1, <1>2, <2>2, AddAgainIs
    <3>2. Done'
      <4>1. \A c \in Child : ~ (Fresh(c) /\ t = RetransTimer(c)) /\ ~ (NotYet(c) /\ t = Timewait(c))
        BY <1>6, <1>7, <2>2 DEF Apart
      <4> QED
        BY <4>1
    <3>3. PICK r : /\ Bent(tl', InServer, SHead, r)
                   /\ Touched(tl', SHead, r) \subseteq Touched(tl, SHead, q) \cup {t, SHead}
      BY <3>1
    <3> QED
      BY <3>2, <3>3
  <2>3. CASE ~ Linked(tl, InServer, SHead, q)
    <3>1. Done
      BY <1>6, <2>3
    <3>2. t \notin Touched(tl, SHead, q)
      BY <1>6, <3>1 DEF Apart
    <3>3. PICK r : /\ Bent(tl', InServer, SHead, r)
                   /\ Touched(tl', SHead, r) \subseteq Touched(tl, SHead, q) \cup {t, SHead}
      BY <1>1, <1>2, <1>7, <3>2, AddBentIs
    <3> QED
      BY <3>1, <3>3
  <2> QED
    BY <2>1, <2>2, <2>3
<1>9. PICK r : /\ \/ Linked(tl', InServer, SHead, r)
                  \/ Bent(tl', InServer, SHead, r) /\ Done'
               /\ Touched(tl', SHead, r) \subseteq Touched(tl, SHead, q) \cup {t, SHead}
  BY <1>8
<1>10. \A x \in Child : /\ Fresh(x)' => RetransTimer(x) \notin Touched(tl', SHead, r)
                        /\ NotYet(x)' => Timewait(x) \notin Touched(tl', SHead, r)
  <2>1. \A x \in Child : RetransTimer(x) # SHead /\ Timewait(x) # SHead
    BY TimerNodes
  <2>2. \A x \in Child : /\ Fresh(x)' => RetransTimer(x) # t /\ RetransTimer(x) \notin Touched(tl, SHead, q)
                         /\ NotYet(x)' => Timewait(x) # t /\ Timewait(x) \notin Touched(tl, SHead, q)
    BY <1>5, <1>6 DEF Apart, Fresh
  <2> HIDE DEF SHead
  <2> QED
    BY <1>9, <2>1, <2>2
<1>11. Apart(Touched(tl, SHead, r))'
  BY <1>10 DEF Apart, RetransTimer, Timewait, Touched, SHead
<1>12. ServerInv'
  BY <1>3, <1>5, <1>9, <1>11 DEF ServerInv
<1> QED
  BY <1>3, <1>4, <1>12

LEMMA ServerDeletes ==
  ASSUME ConnInv, NEW c \in Child, NEW t \in {RetransTimer(c), Timewait(c)}, Armed(t, c),
         tl' = list_delete_entry(tl, t),
         \A x \in Child : /\ sock'[x].snd_nxt = 0 => sock'[x] = sock[x]
                          /\ NotYet(x)' => NotYet(x),
         Done => Done'
  PROVE  /\ ServerInv' /\ tl' \in Memory(TimerNode)
         /\ \A y \in InClient : tl'.next[y] = tl.next[y] /\ tl'.prev[y] = tl.prev[y]
         /\ t = Timewait(c) => ~NotYet(c)
<1>1. ServerInv /\ tl \in Memory(TimerNode) /\ AppInv
  BY DEF ConnInv, AppInv
<1>2. SHead \in InServer /\ InServer \in SUBSET TimerNode /\ t \in InServer
  BY TimerNodes
<1>3. /\ tl' \in Memory(TimerNode) /\ Closed(tl', InServer)
      /\ \A y \in TimerNode \ InServer : tl'.next[y] = tl.next[y] /\ tl'.prev[y] = tl.prev[y]
  <2>1. Closed(tl, InServer)
    BY <1>1 DEF ServerInv
  <2> QED
    BY <1>1, <1>2, <2>1, DeleteWithin
<1>4. \A y \in InClient : tl'.next[y] = tl.next[y] /\ tl'.prev[y] = tl.prev[y]
  BY <1>3, TimerNodes
<1>5. \A x \in Child : Fresh(x)' => Fresh(x) /\ sock'[x] = NewSock
  BY <1>1 DEF ServerInv, Fresh
<1>6. PICK q : /\ \/ Linked(tl, InServer, SHead, q)
                  \/ Bent(tl, InServer, SHead, q) /\ Done
               /\ Apart(Touched(tl, SHead, q))
  BY <1>1 DEF ServerInv
<1>7. Bent(tl, InServer, SHead, q) /\ ToSet(q) \subseteq Touched(tl, SHead, q) /\ IsList(tl, InServer, SHead, q)
  BY <1>6, LinkedIsBent DEF Touched, Bent
<1>8. t \in ToSet(q)
  BY <1>1, <1>7, ServerTimers
<1>9. t = Timewait(c) => ~NotYet(c)
  BY <1>6, <1>7, <1>8 DEF Apart
<1>10. \E r : /\ \/ Linked(tl', InServer, SHead, r)
                 \/ Bent(tl', InServer, SHead, r) /\ Done'
              /\ Touched(tl', SHead, r) \subseteq Touched(tl, SHead, q) \cup {SHead}
  <2> HIDE DEF SHead, InServer
  <2>1. CASE Linked(tl, InServer, SHead, q)
    <3>1. PICK r : Linked(tl', InServer, SHead, r) /\ ToSet(r) = ToSet(q) \ {t}
      BY <1>1, <1>2, <1>8, <2>1, DeleteIs
    <3>2. Touched(tl', SHead, r) \subseteq ToSet(r) \cup {SHead}
      BY <3>1, LinkedIsBent
    <3> QED
      BY <1>7, <3>1, <3>2
  <2>2. CASE ~ Linked(tl, InServer, SHead, q)
    <3>1. Done
      BY <1>6, <2>2
    <3>2. PICK r : /\ Bent(tl', InServer, SHead, r)
                   /\ Touched(tl', SHead, r) \subseteq Touched(tl, SHead, q)
      BY <1>1, <1>2, <1>7, <1>8, DeleteBentIs
    <3> QED
      BY <3>1, <3>2
  <2> QED
    BY <2>1, <2>2
<1>11. PICK r : /\ \/ Linked(tl', InServer, SHead, r)
                   \/ Bent(tl', InServer, SHead, r) /\ Done'
                /\ Touched(tl', SHead, r) \subseteq Touched(tl, SHead, q) \cup {SHead}
  BY <1>10
<1>12. \A x \in Child : /\ Fresh(x)' => RetransTimer(x) \notin Touched(tl', SHead, r)
                        /\ NotYet(x)' => Timewait(x) \notin Touched(tl', SHead, r)
  <2>1. \A x \in Child : RetransTimer(x) # SHead /\ Timewait(x) # SHead
    BY TimerNodes
  <2>2. \A x \in Child : /\ Fresh(x)' => RetransTimer(x) \notin Touched(tl, SHead, q)
                         /\ NotYet(x)' => Timewait(x) \notin Touched(tl, SHead, q)
    BY <1>5, <1>6 DEF Apart, Fresh
  <2> HIDE DEF SHead
  <2> QED
    BY <1>11, <2>1, <2>2
<1>13. Apart(Touched(tl, SHead, r))'
  BY <1>12 DEF Apart, RetransTimer, Timewait, Touched, SHead
<1>14. ServerInv'
  BY <1>3, <1>5, <1>11, <1>13 DEF ServerInv
<1> QED
  BY <1>3, <1>4, <1>9, <1>14

\* The timers of the client x when the list tl' is what is left of them.
LEMMA ClientListed ==
  ASSUME ConnInv, NEW x \in running, running' = running, cpc' # "connect",
         \A y \in Client : y # x => sock'[y] = sock[y],
         Closed(tl', InClient), ClientList(tl', x)
  PROVE  ClientInv'
<1>1. ClientInv /\ running = {x} /\ x \in Client
  BY DEF ConnInv, AppInv
<1>2. \A y \in Client \ running : sock'[y] = NewSock
  BY <1>1 DEF ClientInv
<1> QED
  BY <1>1, <1>2 DEF ClientInv, ClientList, RetransTimer, Timewait, CHead, InClient, TimersIn

LEMMA ClientArms ==
  ASSUME ConnInv, NEW x \in running, running' = running, cpc' # "connect",
         \A y \in Client : y # x => sock'[y] = sock[y],
         tl' = list_add_tail(tl, Timewait(x), CHead)
  PROVE  /\ ClientInv' /\ tl' \in Memory(TimerNode)
         /\ \A y \in InServer : tl'.next[y] = tl.next[y] /\ tl'.prev[y] = tl.prev[y]
<1>1. ClientInv /\ tl \in Memory(TimerNode) /\ x \in Client /\ ClientList(tl, x)
  BY DEF ConnInv, AppInv, ClientInv
<1>2. /\ CHead \in InClient /\ InClient \in SUBSET TimerNode
      /\ Timewait(x) \in InClient /\ Timewait(x) # CHead
  BY <1>1, TimerNodes
<1>3. /\ tl' \in Memory(TimerNode) /\ Closed(tl', InClient)
      /\ \A y \in TimerNode \ InClient : tl'.next[y] = tl.next[y] /\ tl'.prev[y] = tl.prev[y]
  <2>1. Closed(tl, InClient)
    BY <1>1 DEF ClientInv
  <2> QED
    BY <1>1, <1>2, <2>1, AddWithin
<1>4. \A y \in InServer : tl'.next[y] = tl.next[y] /\ tl'.prev[y] = tl.prev[y]
  BY <1>3, TimerNodes
<1>5. ClientList(tl', x)
  BY <1>1, ClientListIs
<1>6. ClientInv'
  BY <1>3, <1>5, ClientListed
<1> QED
  BY <1>3, <1>4, <1>6

-----------------------------------------------------------------------------
(* The waits and the buckets *)

LEMMA WaitIs ==
  /\ wait_init \in Wait
  /\ \A w \in Wait : /\ wake_up(w) \in Wait /\ wait_exit(w) \in Wait
                     /\ sleep_on(w) \in Wait /\ Resume(w) \in Wait
BY DEF Wait, wait_init, wake_up, wait_exit, sleep_on, Resume

(* A socket put into an empty bucket. *)
LEMMA BucketAdd ==
  ASSUME NEW D, NEW m \in Memory(D), NEW h \in D, NEW S \in SUBSET D, h \notin S,
         Bucket(m, h, S), m.next[h] = h, NEW c \in S
  PROVE  /\ list_add_head(m, c, h) \in Memory(D)
         /\ Bucket(list_add_head(m, c, h), h, S)
         /\ list_add_head(m, c, h).next[h] = c
         /\ \A y \in D : y # h /\ y \notin S => /\ list_add_head(m, c, h).next[y] = m.next[y]
                                                /\ list_add_head(m, c, h).prev[y] = m.prev[y]
<1> DEFINE n == list_add_head(m, c, h)
<1>1. /\ n \in Memory(D)
      /\ \A y \in D : n.next[y] = IF y = c THEN h ELSE IF y = h THEN c ELSE m.next[y]
      /\ \A y \in D : n.prev[y] = IF y = c THEN h ELSE IF y = h THEN c ELSE m.prev[y]
  BY AddHeadPointers
<1> HIDE DEF n
<1>2. n.next[h] = c /\ n.prev[h] = c /\ n.next[c] = h /\ n.prev[c] = h
  BY <1>1
<1>3. \A x \in S : x # c => n.next[x] = m.next[x] /\ n.prev[x] = m.prev[x]
  BY <1>1
<1>4. \A x \in S : m.next[x] = m.prev[x] /\ m.next[x] \in {x, h}
  BY DEF Bucket
<1>5. Bucket(n, h, S)
  BY <1>2, <1>3, <1>4 DEF Bucket
<1>6. \A y \in D : y # h /\ y \notin S => n.next[y] = m.next[y] /\ n.prev[y] = m.prev[y]
  BY <1>1
<1> QED
  BY <1>1, <1>2, <1>5, <1>6 DEF n

(* A socket deleted, whether it is in the bucket or has been. *)
LEMMA BucketDelete ==
  ASSUME NEW D, NEW m \in Memory(D), NEW h \in D, NEW S \in SUBSET D, h \notin S,
         Bucket(m, h, S), NEW c \in S, m.next[c] # c
  PROVE  /\ list_delete_entry(m, c) \in Memory(D)
         /\ Bucket(list_delete_entry(m, c), h, S)
         /\ list_delete_entry(m, c).next[h] = h
         /\ \A y \in D : y # h => /\ list_delete_entry(m, c).next[y] = m.next[y]
                                  /\ list_delete_entry(m, c).prev[y] = m.prev[y]
<1> DEFINE n == list_delete_entry(m, c)
<1>1. /\ n \in Memory(D)
      /\ \A y \in D : n.next[y] = IF y = m.prev[c] THEN m.next[c] ELSE m.next[y]
      /\ \A y \in D : n.prev[y] = IF y = m.next[c] THEN m.prev[c] ELSE m.prev[y]
  BY DeletePointers
<1> HIDE DEF n
<1>2. m.next[c] = h /\ m.prev[c] = h
  BY DEF Bucket
<1>3. n.next[h] = h /\ n.prev[h] = h
  BY <1>1, <1>2
<1>4. \A y \in D : y # h => n.next[y] = m.next[y] /\ n.prev[y] = m.prev[y]
  BY <1>1, <1>2
<1>5. \A x \in S : m.next[x] = m.prev[x] /\ m.next[x] \in {x, h}
  BY DEF Bucket
<1>6. Bucket(n, h, S)
  BY <1>3, <1>4, <1>5 DEF Bucket
<1> QED
  BY <1>1, <1>3, <1>4, <1>6 DEF n

LEMMA BucketSame ==
  ASSUME NEW m, NEW n, NEW h, NEW S, Bucket(m, h, S),
         \A y \in S \cup {h} : n.next[y] = m.next[y] /\ n.prev[y] = m.prev[y]
  PROVE  Bucket(n, h, S)
<1>1. m.next[h] \in {h} \cup S
  BY DEF Bucket
<1> QED
  BY <1>1 DEF Bucket

(* tcp_hash, and tcp_unhash below, leave the bucket of the other host alone. *)
LEMMA HashIs ==
  ASSUME HashInv, hl \in Memory(HashNode), NEW x \in Sock
  PROVE  /\ Hash(x) \in Memory(HashNode)
         /\ Bucket(Hash(x), Table, Child) /\ Bucket(Hash(x), CTable, Client)
         /\ Hash(x).next[TableOf(x)] = IF hl.next[TableOf(x)] = TableOf(x) THEN x ELSE hl.next[TableOf(x)]
         /\ x \in Child => Hash(x).next[CTable] = hl.next[CTable]
         /\ x \in Client => Hash(x).next[Table] = hl.next[Table]
<1>1. /\ Child \in SUBSET HashNode /\ Client \in SUBSET HashNode
      /\ Table \in HashNode /\ CTable \in HashNode /\ Table # CTable
      /\ Table \notin Child /\ Table \notin Client /\ CTable \notin Child /\ CTable \notin Client
  BY Heads
<1>2. Bucket(hl, Table, Child) /\ Bucket(hl, CTable, Client)
  BY DEF HashInv
<1>3. CASE hl.next[TableOf(x)] # TableOf(x)
  <2>1. Hash(x) = hl
    BY <1>3 DEF Hash
  <2> QED
    BY <1>2, <1>3, <2>1
<1>4. CASE hl.next[TableOf(x)] = TableOf(x) /\ x \in Child
  <2>1. TableOf(x) = Table /\ x \notin Client
    BY <1>4, Heads
  <2> DEFINE n == Hash(x)
  <2>2. n = list_add_head(hl, x, Table)
    BY <1>4, <2>1 DEF Hash
  <2> HIDE DEF n
  <2>3. /\ n \in Memory(HashNode) /\ Bucket(n, Table, Child) /\ n.next[Table] = x
        /\ \A y \in HashNode : y # Table /\ y \notin Child => n.next[y] = hl.next[y] /\ n.prev[y] = hl.prev[y]
    BY <1>1, <1>2, <1>4, <2>1, <2>2, BucketAdd
  <2>4. \A y \in Client \cup {CTable} : n.next[y] = hl.next[y] /\ n.prev[y] = hl.prev[y]
    BY <1>1, <2>3, Heads
  <2>5. Bucket(n, CTable, Client)
    BY <1>2, <2>4, BucketSame
  <2> QED
    BY <1>4, <2>1, <2>3, <2>4, <2>5 DEF n
<1>5. CASE hl.next[TableOf(x)] = TableOf(x) /\ x \in Client
  <2>1. TableOf(x) = CTable /\ x \notin Child
    BY <1>5, Heads
  <2> DEFINE n == Hash(x)
  <2>2. n = list_add_head(hl, x, CTable)
    BY <1>5, <2>1 DEF Hash
  <2> HIDE DEF n
  <2>3. /\ n \in Memory(HashNode) /\ Bucket(n, CTable, Client) /\ n.next[CTable] = x
        /\ \A y \in HashNode : y # CTable /\ y \notin Client => n.next[y] = hl.next[y] /\ n.prev[y] = hl.prev[y]
    BY <1>1, <1>2, <1>5, <2>1, <2>2, BucketAdd
  <2>4. \A y \in Child \cup {Table} : n.next[y] = hl.next[y] /\ n.prev[y] = hl.prev[y]
    BY <1>1, <2>3, Heads
  <2>5. Bucket(n, Table, Child)
    BY <1>2, <2>4, BucketSame
  <2> QED
    BY <1>5, <2>1, <2>3, <2>4, <2>5 DEF n
<1> QED
  BY <1>3, <1>4, <1>5, Heads

LEMMA UnhashIs ==
  ASSUME HashInv, hl \in Memory(HashNode), NEW x \in Sock
  PROVE  /\ Unhash(x) \in Memory(HashNode)
         /\ Bucket(Unhash(x), Table, Child) /\ Bucket(Unhash(x), CTable, Client)
         /\ Unhash(x).next[TableOf(x)] # x
         /\ Unhash(x).next[TableOf(x)] \in {TableOf(x), hl.next[TableOf(x)]}
         /\ hl.next[TableOf(x)] = x => ~ list_empty(hl, x)
         /\ x \in Child => Unhash(x).next[CTable] = hl.next[CTable]
         /\ x \in Client => Unhash(x).next[Table] = hl.next[Table]
<1>1. /\ Child \in SUBSET HashNode /\ Client \in SUBSET HashNode
      /\ Table \in HashNode /\ CTable \in HashNode /\ Table # CTable
      /\ Table \notin Child /\ Table \notin Client /\ CTable \notin Child /\ CTable \notin Client
  BY Heads
<1>2. Bucket(hl, Table, Child) /\ Bucket(hl, CTable, Client)
  BY DEF HashInv
<1>3. x # TableOf(x) /\ (hl.next[TableOf(x)] = x => hl.next[x] = TableOf(x))
  BY <1>2, Heads DEF Bucket
<1>4. CASE hl.next[x] = x
  <2>1. Unhash(x) = hl
    BY <1>4 DEF Unhash, list_empty
  <2> QED
    BY <1>2, <1>3, <1>4, <2>1
<1>5. CASE hl.next[x] # x /\ x \in Child
  <2>1. TableOf(x) = Table /\ x \notin Client
    BY <1>5, Heads
  <2> DEFINE n == Unhash(x)
  <2>2. n = list_delete_entry(hl, x)
    BY <1>5 DEF Unhash, list_empty
  <2> HIDE DEF n
  <2>3. /\ n \in Memory(HashNode) /\ Bucket(n, Table, Child) /\ n.next[Table] = Table
        /\ \A y \in HashNode : y # Table => n.next[y] = hl.next[y] /\ n.prev[y] = hl.prev[y]
    BY <1>1, <1>2, <1>5, <2>2, BucketDelete
  <2>4. \A y \in Client \cup {CTable} : n.next[y] = hl.next[y] /\ n.prev[y] = hl.prev[y]
    BY <1>1, <2>3, Heads
  <2>5. Bucket(n, CTable, Client)
    BY <1>2, <2>4, BucketSame
  <2> QED
    BY <1>3, <1>5, <2>1, <2>3, <2>4, <2>5 DEF n, list_empty
<1>6. CASE hl.next[x] # x /\ x \in Client
  <2>1. TableOf(x) = CTable /\ x \notin Child
    BY <1>6, Heads
  <2> DEFINE n == Unhash(x)
  <2>2. n = list_delete_entry(hl, x)
    BY <1>6 DEF Unhash, list_empty
  <2> HIDE DEF n
  <2>3. /\ n \in Memory(HashNode) /\ Bucket(n, CTable, Client) /\ n.next[CTable] = CTable
        /\ \A y \in HashNode : y # CTable => n.next[y] = hl.next[y] /\ n.prev[y] = hl.prev[y]
    BY <1>1, <1>2, <1>6, <2>2, BucketDelete
  <2>4. \A y \in Child \cup {Table} : n.next[y] = hl.next[y] /\ n.prev[y] = hl.prev[y]
    BY <1>1, <2>3, Heads
  <2>5. Bucket(n, Table, Child)
    BY <1>2, <2>4, BucketSame
  <2> QED
    BY <1>3, <1>6, <2>1, <2>3, <2>4, <2>5 DEF n, list_empty
<1> QED
  BY <1>4, <1>5, <1>6, Heads

LEMMA HashEmptied ==
  ASSUME ConnInv, Bucket(hl', Table, Child), Bucket(hl', CTable, Client),
         hl'.next[Table] \in {Table, hl.next[Table]}, hl'.next[CTable] \in {CTable, hl.next[CTable]},
         running' = running, cpc' = cpc,
         \A x \in Child : ~Fresh(x) => sock'[x].snd_nxt # 0
  PROVE  HashInv'
<1>1. HashInv
  BY DEF ConnInv
<1>2. hl.next[Table] # Table => hl.next[Table] \in Child /\ sock'[hl.next[Table]].snd_nxt # 0
  BY <1>1 DEF HashInv, Bucket
<1> QED
  BY <1>1, <1>2 DEF HashInv, Fresh

LEMMA AppendNew ==
  ASSUME NEW S, NEW q \in Seq(S), IsInjective(q), NEW x \in S, x \notin ToSet(q)
  PROVE  /\ Append(q, x) \in Seq(S) /\ Len(Append(q, x)) = Len(q) + 1
         /\ IsInjective(Append(q, x)) /\ ToSet(Append(q, x)) = ToSet(q) \cup {x}
<1> DEFINE r == Append(q, x)
<1>1. /\ r \in Seq(S) /\ Len(r) = Len(q) + 1 /\ Len(q) \in Nat
      /\ \A i \in 1 .. Len(q) : r[i] = q[i]
      /\ r[Len(q) + 1] = x
  OBVIOUS
<1> HIDE DEF r
<1>2. DOMAIN r = 1 .. Len(q) + 1 /\ DOMAIN q = 1 .. Len(q)
  BY <1>1
<1>3. \A i \in DOMAIN q : q[i] # x
  BY DEF ToSet
<1>4. IsInjective(r)
  BY <1>1, <1>2, <1>3 DEF IsInjective
<1>5. ToSet(r) = ToSet(q) \cup {x}
  <2>1. \A i \in DOMAIN r : r[i] = x \/ (i \in DOMAIN q /\ r[i] = q[i])
    BY <1>1, <1>2
  <2>2. \A e \in ToSet(r) : e \in ToSet(q) \cup {x}
    BY <2>1 DEF ToSet
  <2>3. \A e \in ToSet(q) : e \in ToSet(r)
    <3>1. \A i \in DOMAIN q : i \in DOMAIN r /\ r[i] = q[i]
      BY <1>1, <1>2
    <3> QED
      BY <3>1 DEF ToSet
  <2>4. x \in ToSet(r)
    <3>1. PICK k \in DOMAIN r : r[k] = x
      <4>1. Len(q) + 1 \in DOMAIN r
        BY <1>1, <1>2
      <4> QED
        BY <1>1, <4>1
    <3> QED
      BY <3>1 DEF ToSet
  <2> QED
    BY <2>2, <2>3, <2>4
<1> QED
  BY <1>1, <1>4, <1>5 DEF r

LEMMA TailNew ==
  ASSUME NEW S, NEW q \in Seq(S), IsInjective(q), q # <<>>
  PROVE  /\ Tail(q) \in Seq(S) /\ Len(Tail(q)) = Len(q) - 1 /\ Head(q) \in S
         /\ IsInjective(Tail(q)) /\ Head(q) \in ToSet(q) /\ ToSet(Tail(q)) = ToSet(q) \ {Head(q)}
<1> DEFINE r == Tail(q)
<1>1. r \in Seq(S) /\ Len(r) = Len(q) - 1 /\ Len(q) \in Nat \ {0} /\ Head(q) = q[1]
      /\ \A i \in 1 .. Len(q) - 1 : r[i] = q[i + 1]
  OBVIOUS
<1> HIDE DEF r
<1>2. DOMAIN r = 1 .. Len(q) - 1 /\ DOMAIN q = 1 .. Len(q)
  BY <1>1
<1>3. IsInjective(r)
  <2>1. ASSUME NEW a \in DOMAIN r, NEW b \in DOMAIN r, r[a] = r[b]  PROVE a = b
    <3>1. a + 1 \in DOMAIN q /\ b + 1 \in DOMAIN q /\ q[a + 1] = q[b + 1]
      BY <1>1, <1>2, <2>1
    <3>2. a + 1 = b + 1
      BY <3>1 DEF IsInjective
    <3> QED
      BY <1>1, <1>2, <3>2
  <2> QED
    BY <2>1 DEF IsInjective
<1>4. \A i \in 2 .. Len(q) : i - 1 \in 1 .. Len(q) - 1 /\ r[i - 1] = q[i]
  BY <1>1
<1>5. \A i \in 2 .. Len(q) : q[i] # q[1]
  BY <1>1, <1>2 DEF IsInjective
<1>6. ToSet(r) = ToSet(q) \ {q[1]}
  <2>1. \A e \in ToSet(r) : e \in ToSet(q) /\ e # q[1]
    BY <1>1, <1>2, <1>5 DEF ToSet
  <2>2. ASSUME NEW e \in ToSet(q), e # q[1]  PROVE e \in ToSet(r)
    <3>1. PICK i \in 1 .. Len(q) : e = q[i]
      BY <1>2 DEF ToSet
    <3>2. i \in 2 .. Len(q)
      BY <1>1, <2>2, <3>1
    <3> QED
      BY <1>2, <1>4, <3>1, <3>2 DEF ToSet
  <2> QED
    BY <2>1, <2>2
<1>7. q[1] \in S /\ q[1] \in ToSet(q)
  BY <1>1, <1>2 DEF ToSet
<1> QED
  BY <1>1, <1>3, <1>6, <1>7 DEF r

-----------------------------------------------------------------------------
(* The receiving thread *)

(* A step that changes neither sockets nor lists. *)
LEMMA OnlyApp ==
  ASSUME ConnInv, AppInv',
         UNCHANGED <<sock, hl, tl, running, cpc, accept_queue, apc, accepted, rpc, queued>>
  PROVE  ConnInv'
<1>1. SockInv'
  BY DEF ConnInv, SockInv
<1>2. /\ \A y \in Child :
            /\ ~Fresh(y) => /\ sock'[y].snd_nxt # 0
                            /\ sock'[y].state = "SYN_RECV" => sock[y].state = "SYN_RECV"
            /\ sock'[y].snd_nxt = 0 => sock'[y] = sock[y]
            /\ NotYet(y)' => NotYet(y)
      /\ Done => Done'
  BY ClientLeaves
<1>3. QueueInv'
  BY <1>2, QueueSame
<1>4. HashInv'
  BY <1>2, HashSame
<1>5. ServerInv'
  BY <1>2, ServerSame
<1>6. ClientInv'
  BY ClientSame
<1> QED
  BY <1>1, <1>3, <1>4, <1>5, <1>6 DEF ConnInv

LEMMA Discards ==
  ASSUME ConnInv, NEW h \in Hosts, net[h] # <<>>, net' = [net EXCEPT ![h] = Tail(@)],
         UNCHANGED <<connVars, clientVars, threadVars>>
  PROVE  ConnInv'
<1>1. net' \in Nets
  BY TakenIs DEF ConnInv, AppInv
<1>2. AppInv'
  BY <1>1 DEF ConnInv, AppInv, connVars, clientVars, threadVars
<1> QED
  BY <1>2, OnlyApp DEF connVars, clientVars, threadVars

(* A SYN: the child is new, and so are its timers. *)
LEMMA ListenStep ==
  ASSUME ConnInv, Up, RecvListen
  PROVE  ConnInv'
<1> DEFINE p == Head(net["server"])
           c == CHOOSE c \in Child : Fresh(c)
           s == [NewSock EXCEPT !.state = "SYN_RECV", !.snd_nxt = Iss, !.rcv_nxt = SeqEnd(p)]
           t == Hold(Sent(s, "SYNACK"))
<1>1. /\ net["server"] # <<>> /\ hl.next[Table] = Table /\ UNCHANGED <<clientVars, threadVars>>
      /\ IF \A x \in Child : ~Fresh(x)
         THEN /\ net' = [net EXCEPT !["server"] = Tail(@)]
              /\ UNCHANGED connVars
         ELSE /\ tl' = list_add_tail(tl, RetransTimer(c), TimerHead(c))
              /\ hl' = Hash(c)
              /\ sock' = [sock EXCEPT ![c] = t]
              /\ net' = Transmit([net EXCEPT !["server"] = Tail(@)], "client",
                                 <<Packet(s, "SYNACK")>>)
  BY DEF RecvListen
<1>2. "server" \in Hosts /\ "client" \in Hosts
  BY DEF Hosts
<1>3. CASE \A x \in Child : ~Fresh(x)
  BY <1>1, <1>2, <1>3, Discards
<1>4. CASE ~ \A x \in Child : ~Fresh(x)
  <2>1. PICK k \in Child : Fresh(k) /\ k = c
    BY <1>4
  <2>2. net \in Nets /\ hl \in Memory(HashNode) /\ tl \in Memory(TimerNode) /\ HashInv /\ ServerInv
    BY DEF ConnInv, AppInv
  <2>3. p \in PacketType /\ [net EXCEPT !["server"] = Tail(@)] \in Nets
    BY <1>1, <1>2, <2>2, TakenIs
  <2>4. s \in Counted /\ s.state = "SYN_RECV" /\ ~s.freed /\ s.snd_nxt = 1
    <3>1. SeqEnd(p) \in Nat
      BY <2>3 DEF SeqEnd, PacketType
    <3> HIDE DEF p
    <3>2. s = [[[NewSock EXCEPT !.state = "SYN_RECV"] EXCEPT !.snd_nxt = Iss] EXCEPT !.rcv_nxt = SeqEnd(p)]
      BY DEF s, NewSock
    <3>3. NewSock \in SockType /\ NewSock.freed = FALSE /\ NewSock.refs = 1
      BY NewSockIs DEF Counted, NewSock
    <3>4. s \in SockType /\ s.state = "SYN_RECV" /\ s.freed = FALSE /\ s.refs = 1 /\ s.snd_nxt = 1
      BY <3>1, <3>3 DEF s, SockType, States, Iss
    <3> HIDE DEF s
    <3>5. (s.freed <=> s.refs <= 0)
      BY <3>4
    <3> QED
      BY <3>4, <3>5 DEF Counted
  <2> HIDE DEF s, c, p
  <2>5. t \in Counted /\ t.state = "SYN_RECV" /\ t.snd_nxt # 0
    <3>1. "SYNACK" \in Kinds
      BY DEF Kinds
    <3>2. /\ Sent(s, "SYNACK") \in Counted /\ ~Sent(s, "SYNACK").freed
          /\ Sent(s, "SYNACK").state = "SYN_RECV" /\ Sent(s, "SYNACK").snd_nxt = 2
      BY <2>4, <3>1, SentIs
    <3> QED
      BY <3>2, HoldIs
  <2>6. Packet(s, "SYNACK") \in PacketType
    BY <2>4, PacketIs DEF Counted, Kinds
  <2> HIDE DEF t
  <2>7. net' \in Nets
    <3>1. <<Packet(s, "SYNACK")>> \in Seq(PacketType)
      BY <2>6
    <3> QED
      BY <1>1, <1>2, <1>4, <2>3, <3>1, TransmitIs
  <2>8. k \in Sock /\ k \notin Client /\ TableOf(k) = Table /\ TimerHead(k) = SHead
    BY <2>1, Heads
  <2>9. DOMAIN sock = Sock
    BY DEF ConnInv, SockInv
  <2>10. sock'[k] = t /\ \A y \in Sock : y # k => sock'[y] = sock[y]
    BY <1>1, <1>4, <2>1, <2>8, <2>9
  <2>11. SockInv'
    BY <1>1, <1>4, <2>1, <2>5, <2>8, SockChange
  <2>12. /\ hl' \in Memory(HashNode) /\ Bucket(hl', Table, Child) /\ Bucket(hl', CTable, Client)
         /\ hl'.next[Table] = k /\ hl'.next[CTable] = hl.next[CTable]
    BY <1>1, <1>4, <2>1, <2>2, <2>8, HashIs
  <2>13. /\ running' = running /\ cpc' = cpc /\ wait_connect' = wait_connect /\ wait_accept' = wait_accept
         /\ unused' = unused /\ UNCHANGED <<accept_queue, apc, accepted, rpc, queued, giving, torn>>
    BY <1>1 DEF clientVars, threadVars
  <2>14. HashInv'
    <3>1. k # Table
      BY <2>1, Heads
    <3>2. ~ Fresh(k)'
      BY <2>5, <2>10 DEF Fresh
    <3>3. Fresh(hl.next[Table])' = Fresh(k)'
      BY <2>12
    <3> QED
      BY <2>2, <2>12, <2>13, <3>2, <3>3 DEF HashInv
  <2>15. \A y \in Child : y # k => sock'[y] = sock[y]
    BY <2>10, Heads
  <2>16. QueueInv'
    <3>1. \A x \in Child : ~Fresh(x) => /\ sock'[x].snd_nxt # 0
                                        /\ sock'[x].state = "SYN_RECV" => sock[x].state = "SYN_RECV"
      BY <2>1, <2>15 DEF Fresh
    <3> QED
      BY <2>13, <3>1, QueueSame
  <2>17. Done => Done'
    <3>1. \A x \in accepted : x \in Child /\ ~Fresh(x)
      BY DEF ConnInv, QueueInv
    <3>2. \A x \in accepted : sock'[x] = sock[x]
      BY <2>1, <2>15, <3>1
    <3> QED
      BY <2>13, <3>2 DEF Done
  <2>18. ServerInv' /\ tl' \in Memory(TimerNode)
         /\ \A y \in InClient : tl'.next[y] = tl.next[y] /\ tl'.prev[y] = tl.prev[y]
    <3>1. RetransTimer(k) \in InServer /\ RetransTimer(k) # SHead
      BY <2>1, TimerNodes
    <3>2. tl' = list_add_tail(tl, RetransTimer(k), SHead)
      BY <1>1, <1>4, <2>1, <2>8
    <3>3. \A x \in Child : /\ sock'[x].snd_nxt = 0 => sock'[x] = sock[x] /\ RetransTimer(x) # RetransTimer(k)
                           /\ NotYet(x)' => NotYet(x) /\ Timewait(x) # RetransTimer(k)
      <4>1. \A x \in Child : x # k => RetransTimer(x) # RetransTimer(k)
        BY TimerNodes
      <4>2. \A x \in Child : Timewait(x) # RetransTimer(k)
        BY TimerNodes
      <4>3. \A x \in Child : NotYet(x)' => NotYet(x)
        BY <2>1, <2>13, <2>15 DEF NotYet, Fresh
      <4> QED
        BY <2>5, <2>10, <2>15, <4>1, <4>2, <4>3
    <3>4. \E x \in Child : \/ Fresh(x) /\ RetransTimer(k) = RetransTimer(x)
                           \/ NotYet(x) /\ RetransTimer(k) = Timewait(x)
      BY <2>1
    <3> QED
      BY <2>17, <3>1, <3>2, <3>3, <3>4, ServerAdds
  <2>19. ClientInv'
    <3>1. \A y \in Client : sock'[y] = sock[y]
      BY <2>8, <2>10, Heads
    <3> QED
      BY <2>12, <2>13, <2>18, <3>1, ClientSame
  <2>20. AppInv'
    BY <2>7, <2>12, <2>13, <2>18 DEF ConnInv, AppInv
  <2> QED
    BY <2>11, <2>14, <2>16, <2>18, <2>19, <2>20 DEF ConnInv
<1> QED
  BY <1>3, <1>4

LEMMA SynRecvStep ==
  ASSUME ConnInv, Up, NEW x \in Sock, RecvSynRecv(x)
  PROVE  ConnInv'
<1>1. PICK p \in Packets :
        /\ For(x, p) /\ sock[x].state = "SYN_RECV"
        /\ LET s == Acknowledged(sock[x], p)
           IN  IF ~Completes(p) THEN Becomes(x, s, <<>>) /\ UNCHANGED threadVars
               ELSE IF p.kind = "PSH"
               THEN LET t == Accept([s EXCEPT !.state = "ESTABLISHED"], p)
                    IN  Becomes(x, t, <<Packet(t, "ACK")>>) /\ UNCHANGED threadVars
               ELSE /\ Becomes(x, s, <<>>)
                    /\ accept_queue' = Append(accept_queue, x)
                    /\ rpc' = "enqueued" /\ queued' = {x}
                    /\ UNCHANGED <<wait_accept, apc, accepted, giving, torn>>
        /\ UNCHANGED <<hl, tl, clientVars>>
  BY DEF RecvSynRecv
<1> DEFINE s == Acknowledged(sock[x], p)
           e == [s EXCEPT !.state = "ESTABLISHED"]
           t == Accept(e, p)
<1>2. /\ p \in PacketType /\ sock[x] \in Counted /\ s \in Counted
      /\ x \in Child => ~Fresh(x) /\ queued = {}
  BY <1>1, ForIs
<1>3. x \in Child
  BY <1>1, Heads DEF ConnInv, SockInv
<1>4. /\ s.state = "SYN_RECV" /\ s.refs = sock[x].refs /\ s.snd_nxt = sock[x].snd_nxt
  BY <1>1, <1>2, AcknowledgedIs
<1> HIDE DEF s
<1>5. /\ e \in Counted /\ e.state = "ESTABLISHED" /\ e.refs = sock[x].refs /\ e.snd_nxt = sock[x].snd_nxt
  <2>1. "ESTABLISHED" \in States
    BY DEF States
  <2> QED
    BY <1>2, <1>4, <2>1, StateIs
<1> HIDE DEF e
<1>6. /\ t \in Counted /\ t.state = "ESTABLISHED" /\ t.refs = sock[x].refs /\ t.snd_nxt = sock[x].snd_nxt
  BY <1>2, <1>5, AcceptIs
<1> HIDE DEF t
<1>7. /\ UNCHANGED <<hl, tl, running, unused, cpc, wait_connect>> /\ wait_connect \in Wait /\ wait_accept \in Wait
      /\ x \notin Client /\ <<>> \in Seq(PacketType)
  BY <1>1, <1>3, Heads DEF clientVars, ConnInv, AppInv
<1>8. CASE ~Completes(p)
  <2>1. Becomes(x, s, <<>>) /\ UNCHANGED threadVars
    BY <1>1, <1>8 DEF s
  <2>2. UNCHANGED <<accept_queue, wait_accept, apc, accepted, rpc, queued, giving, torn>>
    BY <2>1 DEF threadVars
  <2>3. Moves(sock[x].state, s.state)
    BY <1>1, <1>4 DEF Moves
  <2> QED
    BY <1>1, <1>2, <1>4, <1>7, <2>1, <2>2, <2>3, Handled DEF ConnInv
<1>9. CASE Completes(p) /\ p.kind = "PSH"
  <2>1. Becomes(x, t, <<Packet(t, "ACK")>>) /\ UNCHANGED threadVars
    BY <1>1, <1>9 DEF s, e, t
  <2>2. UNCHANGED <<accept_queue, wait_accept, apc, accepted, rpc, queued, giving, torn>>
    BY <2>1 DEF threadVars
  <2>3. Moves(sock[x].state, t.state)
    BY <1>1, <1>6 DEF Moves
  <2>4. <<Packet(t, "ACK")>> \in Seq(PacketType)
    <3>1. Packet(t, "ACK") \in PacketType
      BY <1>6, PacketIs DEF Counted, Kinds
    <3> QED
      BY <3>1
  <2> QED
    BY <1>1, <1>6, <1>7, <2>1, <2>2, <2>3, <2>4, Handled DEF ConnInv
<1>10. CASE Completes(p) /\ p.kind # "PSH"
  <2>1. /\ Becomes(x, s, <<>>)
        /\ accept_queue' = Append(accept_queue, x) /\ rpc' = "enqueued" /\ queued' = {x}
        /\ UNCHANGED <<wait_accept, apc, accepted, giving, torn>>
    BY <1>1, <1>10 DEF s
  <2>2. Moves(sock[x].state, s.state)
    BY <1>1, <1>4 DEF Moves
  <2>4. SockInv' /\ HashInv' /\ ClientInv' /\ ServerInv' /\ AppInv'
    BY <1>1, <1>2, <1>3, <1>4, <1>7, <2>1, <2>2, Handled
  <2>5. \A y \in ToSet(accept_queue) \cup accepted : ~Fresh(y) /\ sock[y].state # "SYN_RECV"
    BY <1>2, <1>3 DEF ConnInv, QueueInv
  <2>6. x \notin ToSet(accept_queue) /\ x \notin accepted
    BY <1>1, <2>5
  <2>7. /\ accept_queue \in Seq(Child)
        /\ IsInjective(accept_queue) /\ ToSet(accept_queue) \cap accepted = {} /\ accepted \in SUBSET Child
        /\ ToSet(accept_queue) \in SUBSET Child
    BY DEF ConnInv, QueueInv, QueuedOnce, ToSet, Range
  <2>8. /\ accept_queue' \in Seq(Child) /\ accept_queue' # <<>>
        /\ IsInjective(accept_queue') /\ ToSet(accept_queue') = ToSet(accept_queue) \cup {x}
    BY <1>3, <2>1, <2>6, <2>7, AppendNew
  <2>9. QueuedOnce'
    BY <2>1, <2>6, <2>7, <2>8 DEF QueuedOnce
  <2>10. sock'[x] = s /\ \A y \in Child : y # x => sock'[y] = sock[y]
    BY <2>1, Heads DEF Becomes, ConnInv, SockInv
  <2>11. \A y \in ToSet(accept_queue') \cup accepted :
           sock'[y].snd_nxt # 0 /\ (sock'[y].state # "SYN_RECV" \/ y \in queued')
    BY <1>2, <1>3, <1>4, <2>1, <2>5, <2>7, <2>8, <2>10 DEF Fresh
  <2>12. sock'[x].snd_nxt # 0
    BY <1>2, <1>3, <1>4, <2>10 DEF Fresh
  <2>13. QueueInv'
    <3>1. \/ apc \in {"check", "sleep", "asleep", "dequeue"} /\ accepted = {}
          \/ apc \in {"popped", "up"} /\ \E y \in Child : accepted = {y}
      BY DEF ConnInv, QueueInv
    <3>2. \E y \in Child : queued' = {y} /\ ~Fresh(y)'
      BY <1>3, <2>1, <2>12 DEF Fresh
    <3> QED
      BY <2>1, <2>7, <2>8, <2>9, <2>11, <3>1, <3>2 DEF QueueInv, Fresh
  <2> QED
    BY <2>4, <2>13 DEF ConnInv
<1> QED
  BY <1>8, <1>9, <1>10

\* The receiving thread goes on with the socket that it has put into the queue.
LEMMA QueueStep ==
  ASSUME ConnInv, Up, QueueWakes \/ QueueEstablishes
  PROVE  ConnInv'
<1>1. PICK x \in Child : queued = {x} /\ ~Fresh(x) /\ rpc \in {"enqueued", "woken"}
  BY DEF ConnInv, QueueInv, QueueWakes, QueueEstablishes
<1>2. CASE QueueWakes
  <2>1. /\ UNCHANGED <<sock, hl, tl, net, running, unused, cpc, wait_connect>>
        /\ UNCHANGED <<accept_queue, apc, accepted, queued, giving, torn>>
        /\ rpc' = "woken" /\ wait_accept' = wake_up(wait_accept)
    BY <1>2 DEF QueueWakes, connVars, clientVars
  <2>2. AppInv'
    <3>1. wait_accept \in Wait
      BY DEF ConnInv, AppInv
    <3>2. wait_accept' \in Wait
      BY <2>1, <3>1, WaitIs
    <3> QED
      BY <2>1, <3>2 DEF ConnInv, AppInv
  <2>3. /\ \A y \in Child :
              /\ ~Fresh(y) => /\ sock'[y].snd_nxt # 0
                              /\ sock'[y].state = "SYN_RECV" => sock[y].state = "SYN_RECV"
              /\ sock'[y].snd_nxt = 0 => sock'[y] = sock[y]
              /\ NotYet(y)' => NotYet(y)
        /\ Done => Done'
    BY <2>1, ClientLeaves
  <2>4. HashInv' /\ ServerInv' /\ ClientInv' /\ SockInv'
    BY <2>1, <2>3, HashSame, ServerSame, ClientSame DEF ConnInv, SockInv
  <2>5. QueueInv'
    <3>1. QueueInv /\ QueuedOnce'
      BY <2>1 DEF ConnInv, QueueInv, QueuedOnce
    <3> QED
      BY <1>1, <2>1, <3>1 DEF QueueInv, Fresh
  <2> QED
    BY <2>2, <2>4, <2>5 DEF ConnInv
<1>3. CASE QueueEstablishes
  <2> DEFINE t == [sock[x] EXCEPT !.state = "ESTABLISHED"]
  <2>1. /\ UNCHANGED <<hl, tl, net, running, unused, cpc, wait_connect>>
        /\ UNCHANGED <<accept_queue, wait_accept, apc, accepted, giving, torn>>
        /\ rpc' = "ready" /\ queued' = {}
    BY <1>3 DEF QueueEstablishes, clientVars
  <2>2. x \in Sock /\ x \notin Client
    BY <1>1, Heads
  <2>3. sock' = [sock EXCEPT ![x] = t] /\ sock'[x] = t
    BY <1>1, <1>3, <2>2 DEF QueueEstablishes, ConnInv, SockInv
  <2>4. /\ t \in Counted /\ t.state = "ESTABLISHED" /\ t.snd_nxt # 0
    <3>1. sock[x] \in Counted /\ "ESTABLISHED" \in States
      BY <2>2 DEF ConnInv, SockInv, States
    <3> QED
      BY <1>1, <3>1, StateIs DEF Fresh
  <2> HIDE DEF t
  <2>5. /\ \A y \in Child :
              /\ ~Fresh(y) => /\ sock'[y].snd_nxt # 0
                              /\ sock'[y].state = "SYN_RECV" => sock[y].state = "SYN_RECV"
              /\ sock'[y].snd_nxt = 0 => sock'[y] = sock[y]
              /\ NotYet(y)' => NotYet(y)
        /\ Done => Done'
        /\ \A y \in Client : sock'[y] = sock[y]
    BY <1>1, <2>1, <2>3, <2>4, ChildMoves
  <2>6. SockInv'
    BY <2>2, <2>3, <2>4, SockChange
  <2>7. HashInv' /\ ServerInv' /\ ClientInv'
    BY <2>1, <2>5, HashSame, ServerSame, ClientSame
  <2>8. AppInv'
    BY <2>1 DEF ConnInv, AppInv
  <2>9. QueueInv'
    <3>1. QueueInv /\ QueuedOnce'
      BY <2>1 DEF ConnInv, QueueInv, QueuedOnce
    <3>2. \A y \in ToSet(accept_queue) \cup accepted : y \in Child
      BY <3>1 DEF QueueInv, ToSet, Range
    <3>3. \A y \in ToSet(accept_queue) \cup accepted : sock'[y].snd_nxt # 0 /\ sock'[y].state # "SYN_RECV"
      BY <1>1, <2>3, <2>4, <2>5, <3>1, <3>2 DEF QueueInv, ConnInv, SockInv
    <3> QED
      BY <2>1, <3>1, <3>3 DEF QueueInv, Fresh
  <2> QED
    BY <2>6, <2>7, <2>8, <2>9 DEF ConnInv
<1> QED
  BY <1>2, <1>3

LEMMA SynSentStep ==
  ASSUME ConnInv, Up, NEW x \in Sock, RecvSynSent(x)
  PROVE  ConnInv'
<1>1. PICK p \in Packets :
        /\ For(x, p) /\ sock[x].state = "SYN_SENT"
        /\ Becomes(x, Acknowledged(sock[x], p), <<>>)
        /\ wait_connect' = IF p.kind = "SYNACK" THEN wake_up(wait_connect) ELSE wait_connect
        /\ UNCHANGED <<hl, tl, running, unused, cpc, threadVars>>
  BY DEF RecvSynSent
<1> DEFINE s == Acknowledged(sock[x], p)
<1>2. /\ p \in PacketType /\ sock[x] \in Counted /\ s \in Counted
  BY <1>1, ForIs
<1>3. x \in Client /\ x \notin Child
  BY <1>1, Heads DEF ConnInv, SockInv
<1>4. /\ s.state = sock[x].state /\ s.refs = sock[x].refs /\ s.snd_nxt = sock[x].snd_nxt
  BY <1>1, <1>2, AcknowledgedIs
<1>5. wait_connect' \in Wait
  <2>1. wait_connect \in Wait
    BY DEF ConnInv, AppInv
  <2> QED
    BY <1>1, <2>1, WaitIs
<1>6. /\ UNCHANGED <<accept_queue, wait_accept, apc, accepted, rpc, queued, giving, torn>>
      /\ wait_accept' \in Wait /\ <<>> \in Seq(PacketType)
  BY <1>1 DEF threadVars, ConnInv, AppInv
<1> HIDE DEF s
<1>7. Becomes(x, s, <<>>)
  BY <1>1 DEF s
<1> QED
  BY <1>1, <1>2, <1>3, <1>4, <1>5, <1>6, <1>7, Handled DEF ConnInv

LEMMA IgnoredStep ==
  ASSUME ConnInv, Up, NEW x \in Sock, RecvIgnored(x)
  PROVE  ConnInv'
<1>1. PICK p \in Packets : /\ For(x, p) /\ Becomes(x, Acknowledged(sock[x], p), <<>>)
                           /\ UNCHANGED <<hl, tl, clientVars, threadVars>>
  BY DEF RecvIgnored
<1> DEFINE s == Acknowledged(sock[x], p)
<1>2. /\ p \in PacketType /\ sock[x] \in Counted /\ s \in Counted
  BY <1>1, ForIs
<1>3. /\ s.state = sock[x].state /\ s.refs = sock[x].refs /\ s.snd_nxt = sock[x].snd_nxt
  BY <1>1, <1>2, AcknowledgedIs
<1>4. /\ UNCHANGED <<hl, tl, running, unused, cpc, wait_connect>>
      /\ UNCHANGED <<accept_queue, wait_accept, apc, accepted, rpc, queued, giving, torn>>
      /\ wait_connect' \in Wait /\ wait_accept' \in Wait /\ <<>> \in Seq(PacketType)
  BY <1>1 DEF clientVars, threadVars, ConnInv, AppInv
<1> HIDE DEF s
<1>5. Becomes(x, s, <<>>) /\ Moves(sock[x].state, s.state)
  BY <1>1, <1>3 DEF s, Moves
<1>6. x \in Client => s.state # "SYN_RECV"
  BY <1>3 DEF ConnInv, SockInv
<1> QED
  BY <1>1, <1>2, <1>3, <1>4, <1>5, <1>6, Handled DEF ConnInv

(* A FIN for a client's socket: its TIME_WAIT timer is armed, perhaps once more. *)
LEMMA ClientCloses ==
  ASSUME ConnInv, Up, NEW x \in Client, NEW p, For(x, p),
         NEW t \in Counted, t.state \in {"LAST_ACK", "TIME_WAIT"},
         NEW ps \in Seq(PacketType), Becomes(x, t, ps), tl' = ArmTimewait(x),
         UNCHANGED <<hl, clientVars, threadVars>>
  PROVE  ConnInv'
<1>1. /\ x \in Sock /\ x \notin Child /\ TimerHead(x) = CHead
  BY Heads
<1>2. /\ net' \in Nets /\ x \in running /\ cpc # "connect" /\ hl.next[CTable] = x
  BY <1>1, ForIs
<1>3. /\ UNCHANGED <<running, unused, cpc, wait_connect>>
      /\ UNCHANGED <<accept_queue, wait_accept, apc, accepted, rpc, queued, giving, torn>>
  BY DEF clientVars, threadVars
<1>4. /\ sock' = [sock EXCEPT ![x] = t] /\ sock'[x] = t
      /\ \A y \in Child : sock'[y] = sock[y]
      /\ \A y \in Client : y # x => sock'[y] = sock[y]
  BY <1>1, Heads DEF Becomes, ConnInv, SockInv
<1>5. SockInv'
  BY <1>1, <1>4, SockChange
<1>6. tl' = list_add_tail(tl, Timewait(x), CHead)
  BY <1>1 DEF ArmTimewait
<1>7. /\ ClientInv' /\ tl' \in Memory(TimerNode)
      /\ \A y \in InServer : tl'.next[y] = tl.next[y] /\ tl'.prev[y] = tl.prev[y]
  <2>1. hl' = hl /\ running' = running /\ cpc' = cpc
    BY <1>3
  <2> QED
    BY <1>2, <1>4, <1>6, <2>1, ClientArms
<1>8. /\ \A y \in Child :
            /\ ~Fresh(y) => /\ sock'[y].snd_nxt # 0
                            /\ sock'[y].state = "SYN_RECV" => sock[y].state = "SYN_RECV"
            /\ sock'[y].snd_nxt = 0 => sock'[y] = sock[y]
            /\ NotYet(y)' => NotYet(y)
      /\ Done => Done'
  BY <1>3, <1>4, ClientLeaves
<1>9. HashInv' /\ QueueInv' /\ ServerInv'
  BY <1>3, <1>7, <1>8, HashSame, QueueSame, ServerSame
<1>10. AppInv'
  BY <1>2, <1>3, <1>7 DEF ConnInv, AppInv
<1> QED
  BY <1>5, <1>7, <1>9, <1>10 DEF ConnInv

(* A FIN for a server's socket: its timer may be armed already, but then accept has
   returned this socket. *)
LEMMA ChildCloses ==
  ASSUME ConnInv, Up, NEW x \in Child, NEW p, For(x, p), sock[x].state = "ESTABLISHED",
         NEW t \in Counted, t.state = "LAST_ACK", t.snd_nxt # 0,
         NEW ps \in Seq(PacketType), Becomes(x, t, ps), tl' = ArmTimewait(x),
         UNCHANGED <<hl, clientVars, threadVars>>
  PROVE  ConnInv'
<1>1. /\ x \in Sock /\ x \notin Client /\ TimerHead(x) = SHead
  BY Heads
<1>2. /\ net' \in Nets /\ ~Fresh(x) /\ queued = {}
  BY <1>1, ForIs
<1>3. /\ UNCHANGED <<running, unused, cpc, wait_connect>>
      /\ UNCHANGED <<accept_queue, wait_accept, apc, accepted, rpc, queued, giving, torn>>
  BY DEF clientVars, threadVars
<1>4. sock' = [sock EXCEPT ![x] = t] /\ sock'[x] = t /\ \A y \in Child : y # x => sock'[y] = sock[y]
  BY <1>1, Heads DEF Becomes, ConnInv, SockInv
<1>5. SockInv'
  BY <1>1, <1>4, SockChange
<1>6. Moves(sock[x].state, t.state)
  BY DEF Moves
<1>7. /\ \A y \in Child :
            /\ ~Fresh(y) => /\ sock'[y].snd_nxt # 0
                            /\ sock'[y].state = "SYN_RECV" => sock[y].state = "SYN_RECV"
            /\ sock'[y].snd_nxt = 0 => sock'[y] = sock[y]
            /\ NotYet(y)' => NotYet(y)
      /\ Done => Done'
      /\ \A y \in Client : sock'[y] = sock[y]
  BY <1>2, <1>3, <1>4, <1>6, ChildMoves
<1>8. /\ ServerInv' /\ tl' \in Memory(TimerNode)
      /\ \A y \in InClient : tl'.next[y] = tl.next[y] /\ tl'.prev[y] = tl.prev[y]
  <2>1. Timewait(x) \in InServer /\ Timewait(x) # SHead
    BY TimerNodes
  <2>2. tl' = list_add_tail(tl, Timewait(x), SHead)
    BY <1>1 DEF ArmTimewait
  <2>3. ~NotYet(x)'
    BY <1>2, <1>3, <1>4 DEF NotYet, Fresh
  <2>4. \A y \in Child : RetransTimer(y) # Timewait(x) /\ (y # x => Timewait(y) # Timewait(x))
    BY TimerNodes
  <2>5. \A y \in Child : /\ sock'[y].snd_nxt = 0 => sock'[y] = sock[y] /\ RetransTimer(y) # Timewait(x)
                         /\ NotYet(y)' => NotYet(y) /\ Timewait(y) # Timewait(x)
    <3>1. ASSUME NEW y \in Child, NotYet(y)'  PROVE NotYet(y) /\ Timewait(y) # Timewait(x)
      <4>1. CASE y = x
        BY <2>3, <3>1, <4>1
      <4>2. CASE y # x
        BY <1>7, <2>4, <3>1, <4>2
      <4> QED
        BY <4>1, <4>2
    <3> QED
      BY <1>7, <2>4, <3>1
  <2>6. \/ \E c \in Child : \/ Fresh(c) /\ Timewait(x) = RetransTimer(c)
                            \/ NotYet(c) /\ Timewait(x) = Timewait(c)
        \/ ~Done /\ Done'
    <3>1. CASE NotYet(x)
      BY <3>1
    <3>2. CASE ~NotYet(x)
      <4>1. apc = "up" /\ x \in accepted
        BY <1>2, <3>2 DEF NotYet
      <4>2. accepted = {x}
        BY <4>1 DEF ConnInv, QueueInv
      <4>3. ~Done
        BY <4>1 DEF Done
      <4>4. Done'
        BY <1>2, <1>3, <1>4, <4>1, <4>2 DEF Done
      <4> QED
        BY <4>3, <4>4
    <3> QED
      BY <3>1, <3>2
  <2> QED
    BY <1>7, <2>1, <2>2, <2>5, <2>6, ServerAdds
<1>9. HashInv' /\ QueueInv' /\ ClientInv'
  BY <1>3, <1>7, <1>8, HashSame, QueueSame, ClientSame
<1>10. AppInv'
  BY <1>2, <1>3, <1>8 DEF ConnInv, AppInv
<1> QED
  BY <1>5, <1>8, <1>9, <1>10 DEF ConnInv

LEMMA EstablishedStep ==
  ASSUME ConnInv, Up, NEW x \in Sock, RecvEstablished(x)
  PROVE  ConnInv'
<1>1. PICK p \in Packets :
        /\ For(x, p) /\ sock[x].state = "ESTABLISHED"
        /\ LET s == Acknowledged(sock[x], p)
           IN  IF HasFin(p)
               THEN LET t == [s EXCEPT !.state = "LAST_ACK"]
                    IN  /\ Becomes(x, Hold(Sent(t, "FINACK")), <<Packet(t, "FINACK")>>)
                        /\ tl' = ArmTimewait(x)
               ELSE /\ IF p.kind = "PSH"
                       THEN LET t == Accept(s, p) IN Becomes(x, t, <<Packet(t, "ACK")>>)
                       ELSE Becomes(x, s, <<>>)
                    /\ UNCHANGED tl
        /\ UNCHANGED <<hl, clientVars, threadVars>>
  BY DEF RecvEstablished
<1> DEFINE s == Acknowledged(sock[x], p)
           l == [s EXCEPT !.state = "LAST_ACK"]
           h == Hold(Sent(l, "FINACK"))
           t == Accept(s, p)
<1>2. /\ p \in PacketType /\ sock[x] \in Counted /\ s \in Counted /\ ~sock[x].freed
      /\ x \in Child => sock[x].snd_nxt # 0
  BY <1>1, ForIs
<1>3. /\ s.state = "ESTABLISHED" /\ s.refs = sock[x].refs /\ s.snd_nxt = sock[x].snd_nxt
      /\ s.freed = sock[x].freed
  BY <1>1, <1>2, AcknowledgedIs
<1> HIDE DEF s
<1>4. /\ UNCHANGED <<running, unused, cpc, wait_connect>>
      /\ UNCHANGED <<accept_queue, wait_accept, apc, accepted, rpc, queued, giving, torn>>
      /\ wait_connect' \in Wait /\ wait_accept' \in Wait /\ <<>> \in Seq(PacketType)
  BY <1>1 DEF clientVars, threadVars, ConnInv, AppInv
<1>5. CASE HasFin(p)
  <2>1. /\ Becomes(x, h, <<Packet(l, "FINACK")>>) /\ tl' = ArmTimewait(x)
    BY <1>1, <1>5 DEF s
  <2>2. /\ l \in Counted /\ l.state = "LAST_ACK" /\ l.refs = sock[x].refs
        /\ l.snd_nxt = sock[x].snd_nxt /\ ~l.freed
    <3>1. "LAST_ACK" \in States
      BY DEF States
    <3> QED
      BY <1>2, <1>3, <3>1, StateIs
  <2> HIDE DEF l
  <2>3. /\ "FINACK" \in Kinds /\ <<Packet(l, "FINACK")>> \in Seq(PacketType)
    <3>1. Packet(l, "FINACK") \in PacketType /\ "FINACK" \in Kinds
      BY <2>2, PacketIs DEF Counted, Kinds
    <3> QED
      BY <3>1
  <2>4. /\ h \in Counted /\ h.state = "LAST_ACK" /\ h.refs = sock[x].refs + 1
        /\ h.snd_nxt = sock[x].snd_nxt + 1
    <3>1. /\ Sent(l, "FINACK") \in Counted /\ Sent(l, "FINACK").state = "LAST_ACK"
          /\ Sent(l, "FINACK").refs = sock[x].refs /\ ~Sent(l, "FINACK").freed
          /\ Sent(l, "FINACK").snd_nxt = sock[x].snd_nxt + 1
      BY <2>2, <2>3, SentIs
    <3> QED
      BY <3>1, HoldIs
  <2> HIDE DEF h
  <2>5. h.snd_nxt # 0
    <3>1. sock[x].snd_nxt \in Nat /\ h.snd_nxt = sock[x].snd_nxt + 1
      BY <1>2, <2>4, NumbersIs
    <3> QED
      BY <3>1
  <2>6. CASE x \in Child
    BY <1>1, <2>1, <2>3, <2>4, <2>5, <2>6, ChildCloses
  <2>7. CASE x \in Client
    BY <1>1, <2>1, <2>3, <2>4, <2>7, ClientCloses
  <2> QED
    BY <2>6, <2>7, Heads
<1>6. CASE ~HasFin(p) /\ p.kind = "PSH"
  <2>1. /\ Becomes(x, t, <<Packet(t, "ACK")>>) /\ UNCHANGED tl
    BY <1>1, <1>6 DEF s
  <2>2. /\ t \in Counted /\ t.state = "ESTABLISHED" /\ t.refs = sock[x].refs /\ t.snd_nxt = sock[x].snd_nxt
    BY <1>2, <1>3, AcceptIs
  <2> HIDE DEF t
  <2>3. <<Packet(t, "ACK")>> \in Seq(PacketType)
    <3>1. Packet(t, "ACK") \in PacketType
      BY <2>2, PacketIs DEF Counted, Kinds
    <3> QED
      BY <3>1
  <2>4. Moves(sock[x].state, t.state)
    BY <1>1, <2>2 DEF Moves
  <2> QED
    BY <1>1, <1>4, <2>1, <2>2, <2>3, <2>4, Handled DEF ConnInv
<1>7. CASE ~HasFin(p) /\ p.kind # "PSH"
  <2>1. /\ Becomes(x, s, <<>>) /\ UNCHANGED tl
    BY <1>1, <1>7 DEF s
  <2>2. Moves(sock[x].state, s.state)
    BY <1>1, <1>3 DEF Moves
  <2> QED
    BY <1>1, <1>2, <1>3, <1>4, <2>1, <2>2, Handled DEF ConnInv
<1> QED
  BY <1>5, <1>6, <1>7

LEMMA FinWaitStep ==
  ASSUME ConnInv, Up, NEW x \in Sock, RecvFinWait1(x) \/ RecvFinWait2(x)
  PROVE  ConnInv'
<1>1. PICK p \in Packets :
        /\ For(x, p) /\ sock[x].state \in {"FIN_WAIT_1", "FIN_WAIT_2"}
        /\ LET s == Acknowledged(sock[x], p)
               t == [s EXCEPT !.state = "TIME_WAIT"]
           IN  \/ Becomes(x, Hold(t), <<Packet(t, "ACK")>>) /\ tl' = ArmTimewait(x)
               \/ Becomes(x, [s EXCEPT !.state = "FIN_WAIT_2"], <<>>) /\ UNCHANGED tl
               \/ Becomes(x, s, <<>>) /\ UNCHANGED tl
        /\ UNCHANGED <<hl, clientVars, threadVars>>
  <2>1. CASE RecvFinWait1(x)
    BY <2>1 DEF RecvFinWait1
  <2>2. CASE RecvFinWait2(x)
    BY <2>2 DEF RecvFinWait2
  <2> QED
    BY <2>1, <2>2
<1> DEFINE s == Acknowledged(sock[x], p)
           t == [s EXCEPT !.state = "TIME_WAIT"]
           h == Hold(t)
           f == [s EXCEPT !.state = "FIN_WAIT_2"]
<1>2. /\ p \in PacketType /\ sock[x] \in Counted /\ s \in Counted /\ ~sock[x].freed
  BY <1>1, ForIs
<1>3. /\ s.state = sock[x].state /\ s.refs = sock[x].refs /\ s.snd_nxt = sock[x].snd_nxt
      /\ s.freed = sock[x].freed
  BY <1>1, <1>2, AcknowledgedIs
<1>4. x \in Client /\ x \notin Child
  BY <1>1, Heads DEF ConnInv, SockInv
<1> HIDE DEF s
<1>5. /\ UNCHANGED <<running, unused, cpc, wait_connect>>
      /\ UNCHANGED <<accept_queue, wait_accept, apc, accepted, rpc, queued, giving, torn>>
      /\ wait_connect' \in Wait /\ wait_accept' \in Wait /\ <<>> \in Seq(PacketType)
  BY <1>1 DEF clientVars, threadVars, ConnInv, AppInv
<1>6. "TIME_WAIT" \in States /\ "FIN_WAIT_2" \in States
  BY DEF States
<1>7. CASE Becomes(x, h, <<Packet(t, "ACK")>>) /\ tl' = ArmTimewait(x)
  <2>1. /\ t \in Counted /\ t.state = "TIME_WAIT" /\ t.refs = sock[x].refs /\ ~t.freed
    BY <1>2, <1>3, <1>6, StateIs
  <2> HIDE DEF t
  <2>2. <<Packet(t, "ACK")>> \in Seq(PacketType)
    <3>1. Packet(t, "ACK") \in PacketType
      BY <2>1, PacketIs DEF Counted, Kinds
    <3> QED
      BY <3>1
  <2>3. h \in Counted /\ h.state = "TIME_WAIT" /\ h.refs = sock[x].refs + 1
    BY <2>1, HoldIs
  <2> HIDE DEF h
  <2> QED
    BY <1>1, <1>4, <1>7, <2>2, <2>3, ClientCloses
<1>8. CASE Becomes(x, f, <<>>) /\ UNCHANGED tl
  <2>1. /\ f \in Counted /\ f.state = "FIN_WAIT_2" /\ f.refs = sock[x].refs /\ f.snd_nxt = sock[x].snd_nxt
    BY <1>2, <1>3, <1>6, StateIs
  <2> HIDE DEF f
  <2> QED
    BY <1>1, <1>4, <1>5, <1>8, <2>1, Handled DEF ConnInv
<1>9. CASE Becomes(x, s, <<>>) /\ UNCHANGED tl
  BY <1>1, <1>2, <1>3, <1>4, <1>5, <1>9, Handled DEF ConnInv
<1> QED
  BY <1>1, <1>7, <1>8, <1>9 DEF s

-----------------------------------------------------------------------------
(* The end of a socket, and the timer thread *)

\* Only the client that runs has timers, and at first no TIME_WAIT timer.
LEMMA ClientIs ==
  ASSUME ConnInv, NEW x \in Client
  PROVE  /\ x \notin running => /\ sock[x] = NewSock
                                /\ ~Armed(RetransTimer(x), x) /\ ~Armed(Timewait(x), x)
         /\ cpc = "connect" => sock[x] = NewSock /\ ~Armed(Timewait(x), x)
<1>1. AppInv /\ ClientInv
  BY DEF ConnInv
<1>2. /\ Armed(RetransTimer(x), x) => x \in running
      /\ Armed(Timewait(x), x) => /\ x \in running
                                  /\ \/ tl.next[CHead] = Timewait(x)
                                     \/ /\ tl.next[CHead] = RetransTimer(x)
                                        /\ tl.next[RetransTimer(x)] = Timewait(x)
  BY <1>1, ClientTimers
<1>3. Timewait(x) # CHead /\ RetransTimer(x) # Timewait(x)
  BY TimerNodes
<1> QED
  BY <1>1, <1>2, <1>3 DEF ClientInv

LEMMA ClientDeletes ==
  ASSUME ConnInv, NEW x \in running, NEW t \in {RetransTimer(x), Timewait(x)}, Armed(t, x),
         tl' = list_delete_entry(tl, t), running' = running, cpc' # "connect",
         \A y \in Client : y # x => sock'[y] = sock[y]
  PROVE  /\ ClientInv' /\ tl' \in Memory(TimerNode)
         /\ \A y \in InServer : tl'.next[y] = tl.next[y] /\ tl'.prev[y] = tl.prev[y]
<1>1. ClientInv /\ tl \in Memory(TimerNode) /\ AppInv /\ x \in Client /\ ClientList(tl, x)
  BY DEF ConnInv, AppInv, ClientInv
<1>2. /\ CHead \in InClient /\ InClient \in SUBSET TimerNode /\ t \in InClient
  BY <1>1, TimerNodes
<1>3. /\ tl' \in Memory(TimerNode) /\ Closed(tl', InClient)
      /\ \A y \in TimerNode \ InClient : tl'.next[y] = tl.next[y] /\ tl'.prev[y] = tl.prev[y]
  <2>1. Closed(tl, InClient)
    BY <1>1 DEF ClientInv
  <2> QED
    BY <1>1, <1>2, <2>1, DeleteWithin
<1>4. \A y \in InServer : tl'.next[y] = tl.next[y] /\ tl'.prev[y] = tl.prev[y]
  BY <1>3, TimerNodes
<1>5. ClientList(tl', x)
  BY <1>1, ClientListIs, ClientTimers
<1>6. ClientInv'
  BY <1>3, <1>5, ClientListed
<1> QED
  BY <1>3, <1>4, <1>6

LEMMA UnhashedIs ==
  ASSUME NEW s \in Counted, NEW x
  PROVE  /\ Unhashed(s, x) \in Counted /\ Unhashed(s, x).state = s.state
         /\ Unhashed(s, x).snd_nxt = s.snd_nxt
BY ReleaseIs DEF Unhashed

LEMMA TimesIs ==
  ASSUME NEW s \in Counted, NEW i \in DOMAIN s.send_buf, s.send_buf[i].times <= MaxTimes
  PROVE  /\ s.send_buf[i].pkt \in PacketType
         /\ Tried(s, i) \in Counted
         /\ Tried(s, i).state = s.state
         /\ Tried(s, i).refs = s.refs
         /\ Tried(s, i).freed = s.freed
         /\ Tried(s, i).snd_nxt = s.snd_nxt
<1> DEFINE b == [s.send_buf[i] EXCEPT !.times = @ + 1]
           c == [s.send_buf EXCEPT ![i] = b]
           t == [s EXCEPT !.send_buf = c]
<1>1. s \in SockType /\ (s.freed <=> s.refs <= 0) /\ s.send_buf \in Seq(Buffers)
  BY DEF Counted, SockType
<1>2. s.send_buf[i] \in Buffers
  BY <1>1
<1>3. b \in Buffers
  BY <1>2, ConnAssumption DEF Buffers
<1>4. Tried(s, i) = t
  BY DEF Tried, t, c, b
<1> HIDE DEF b
<1>5. c \in Seq(Buffers)
  <2>1. DOMAIN s.send_buf = 1 .. Len(s.send_buf) /\ s.send_buf \in [1 .. Len(s.send_buf) -> Buffers]
        /\ Len(s.send_buf) \in Nat
    BY <1>1
  <2>2. c \in [1 .. Len(s.send_buf) -> Buffers]
    BY <1>3, <2>1
  <2> QED
    BY <2>1, <2>2, SeqDef
<1> HIDE DEF c
<1>6. t \in SockType /\ t.state = s.state /\ t.refs = s.refs /\ t.freed = s.freed /\ t.snd_nxt = s.snd_nxt
  BY <1>1, <1>5 DEF SockType
<1> HIDE DEF t
<1>7. t \in Counted
  BY <1>1, <1>6 DEF Counted
<1> QED
  BY <1>2, <1>4, <1>6, <1>7 DEF Buffers

\* What a step that only changes the client's socket leaves alone.
LEMMA ClientOnly ==
  ASSUME ConnInv, NEW x \in Client, NEW t \in Counted, t.state # "SYN_RECV",
         sock' = [sock EXCEPT ![x] = t], UNCHANGED <<accept_queue, apc, accepted, rpc, queued>>
  PROVE  /\ SockInv' /\ QueueInv' /\ sock'[x] = t
         /\ \A y \in Client : y # x => sock'[y] = sock[y]
         /\ \A y \in Child : sock'[y] = sock[y]
         /\ \A y \in Child :
              /\ ~Fresh(y) => /\ sock'[y].snd_nxt # 0
                              /\ sock'[y].state = "SYN_RECV" => sock[y].state = "SYN_RECV"
              /\ sock'[y].snd_nxt = 0 => sock'[y] = sock[y]
              /\ NotYet(y)' => NotYet(y)
         /\ Done => Done'
<1>2. x \in Sock /\ x \notin Child
  BY Heads
<1>3. SockInv'
  BY <1>2, SockChange
<1>4. /\ sock'[x] = t /\ \A y \in Client : y # x => sock'[y] = sock[y]
  BY <1>2, Heads DEF ConnInv, SockInv
<1>5. \A y \in Child : sock'[y] = sock[y]
  BY <1>2, Heads DEF ConnInv, SockInv
<1>6. /\ \A y \in Child :
            /\ ~Fresh(y) => /\ sock'[y].snd_nxt # 0
                            /\ sock'[y].state = "SYN_RECV" => sock[y].state = "SYN_RECV"
            /\ sock'[y].snd_nxt = 0 => sock'[y] = sock[y]
            /\ NotYet(y)' => NotYet(y)
      /\ Done => Done'
  BY <1>5, ClientLeaves
<1>7. QueueInv'
  BY <1>6, QueueSame
<1> QED
  BY <1>3, <1>4, <1>5, <1>6, <1>7

LEMMA ChildOnly ==
  ASSUME ConnInv, NEW x \in Child, ~Fresh(x), NEW t \in Counted, Moves(sock[x].state, t.state), t.snd_nxt # 0,
         sock' = [sock EXCEPT ![x] = t], UNCHANGED threadVars
  PROVE  /\ SockInv' /\ QueueInv'
         /\ \A y \in Client : sock'[y] = sock[y]
         /\ \A y \in Child :
              /\ ~Fresh(y) => /\ sock'[y].snd_nxt # 0
                              /\ sock'[y].state = "SYN_RECV" => sock[y].state = "SYN_RECV"
              /\ sock'[y].snd_nxt = 0 => sock'[y] = sock[y]
              /\ NotYet(y)' => NotYet(y)
         /\ Done => Done'
<1>1. UNCHANGED <<accept_queue, wait_accept, apc, accepted, rpc, queued, giving, torn>>
  BY DEF threadVars
<1>2. x \in Sock /\ x \notin Client /\ t.state \in {"CLOSED", "SYN_RECV", "ESTABLISHED", "LAST_ACK"}
  BY Heads DEF ConnInv, SockInv, Moves
<1>3. SockInv'
  BY <1>2, SockChange
<1>4. /\ \A y \in Child :
            /\ ~Fresh(y) => /\ sock'[y].snd_nxt # 0
                            /\ sock'[y].state = "SYN_RECV" => sock[y].state = "SYN_RECV"
            /\ sock'[y].snd_nxt = 0 => sock'[y] = sock[y]
            /\ NotYet(y)' => NotYet(y)
      /\ Done => Done'
      /\ \A y \in Client : sock'[y] = sock[y]
  BY <1>1, ChildMoves
<1>5. QueueInv'
  BY <1>1, <1>4, QueueSame
<1> QED
  BY <1>3, <1>4, <1>5

LEMMA LastAckStep ==
  ASSUME ConnInv, Up, NEW x \in Sock, RecvLastAck(x)
  PROVE  ConnInv'
<1>1. PICK p \in Packets :
        /\ For(x, p) /\ sock[x].state = "LAST_ACK"
        /\ LET s == Acknowledged(sock[x], p)
           IN  IF HasAck(p)
               THEN /\ Becomes(x, Unhashed(Unbound([s EXCEPT !.state = "CLOSED"], x), x), <<>>)
                    /\ hl' = Unhash(x)
               ELSE Becomes(x, s, <<>>) /\ UNCHANGED hl
        /\ UNCHANGED <<tl, clientVars, threadVars>>
  BY DEF RecvLastAck
<1> DEFINE s == Acknowledged(sock[x], p)
           e == [s EXCEPT !.state = "CLOSED"]
           v == Unbound(e, x)
           u == Unhashed(v, x)
<1>2. /\ p \in PacketType /\ sock[x] \in Counted /\ s \in Counted /\ ~sock[x].freed
      /\ x \in Child => ~Fresh(x) /\ sock[x].snd_nxt # 0
      /\ x \in Client => x \in running /\ cpc # "connect" /\ hl.next[CTable] = x
  BY <1>1, ForIs
<1>3. /\ s.state = "LAST_ACK" /\ s.refs = sock[x].refs /\ s.snd_nxt = sock[x].snd_nxt /\ s.freed = sock[x].freed
  BY <1>1, <1>2, AcknowledgedIs
<1> HIDE DEF s
<1>4. /\ UNCHANGED <<running, unused, cpc, wait_connect>>
      /\ UNCHANGED <<accept_queue, wait_accept, apc, accepted, rpc, queued, giving, torn>>
      /\ wait_connect' \in Wait /\ wait_accept' \in Wait /\ <<>> \in Seq(PacketType)
  BY <1>1 DEF clientVars, threadVars, ConnInv, AppInv
<1>5. HashInv /\ hl \in Memory(HashNode)
  BY DEF ConnInv, AppInv
<1>6. CASE HasAck(p)
  <2>1. Becomes(x, u, <<>>) /\ hl' = Unhash(x)
    BY <1>1, <1>6 DEF s
  <2>2. net' \in Nets
    BY <1>1, <1>4, <2>1, ForIs
  <2>3. /\ e \in Counted /\ e.state = "CLOSED" /\ e.refs = sock[x].refs /\ e.snd_nxt = sock[x].snd_nxt /\ ~e.freed
    <3>1. "CLOSED" \in States
      BY DEF States
    <3> QED
      BY <1>2, <1>3, <3>1, StateIs
  <2> HIDE DEF e
  <2>4. sock' = [sock EXCEPT ![x] = u]
    BY <2>1 DEF Becomes
  <2>5. /\ hl' \in Memory(HashNode) /\ Bucket(hl', Table, Child) /\ Bucket(hl', CTable, Client)
        /\ hl'.next[TableOf(x)] # x /\ hl'.next[TableOf(x)] \in {TableOf(x), hl.next[TableOf(x)]}
        /\ hl.next[TableOf(x)] = x => ~ list_empty(hl, x)
        /\ x \in Child => hl'.next[CTable] = hl.next[CTable]
        /\ x \in Client => hl'.next[Table] = hl.next[Table]
    BY <1>5, <2>1, UnhashIs
  <2>6. CASE x \in Child
    <3>1. x \notin Client /\ TableOf(x) = Table
      BY <2>6, Heads
    <3>2. v = e
      BY <3>1 DEF Unbound
    <3>3. u \in Counted /\ u.state = "CLOSED" /\ u.snd_nxt # 0
      BY <1>2, <2>3, <2>6, <3>2, UnhashedIs
    <3> HIDE DEF u
    <3>4. Moves(sock[x].state, u.state)
      BY <3>3 DEF Moves
    <3>5. /\ SockInv' /\ QueueInv'
          /\ \A y \in Client : sock'[y] = sock[y]
          /\ \A y \in Child :
               /\ ~Fresh(y) => /\ sock'[y].snd_nxt # 0
                               /\ sock'[y].state = "SYN_RECV" => sock[y].state = "SYN_RECV"
               /\ sock'[y].snd_nxt = 0 => sock'[y] = sock[y]
               /\ NotYet(y)' => NotYet(y)
          /\ Done => Done'
      BY <1>1, <1>2, <2>4, <2>6, <3>3, <3>4, ChildOnly
    <3>6. HashInv'
      BY <1>4, <2>5, <2>6, <3>1, <3>5, HashEmptied
    <3>7. ServerInv'
      BY <1>1, <3>5, ServerSame
    <3>8. ClientInv'
      BY <1>1, <1>4, <2>5, <2>6, <3>5, ClientSame
    <3>9. AppInv'
      BY <1>1, <1>4, <2>2, <2>5 DEF ConnInv, AppInv
    <3> QED
      BY <3>5, <3>6, <3>7, <3>8, <3>9 DEF ConnInv
  <2>7. CASE x \in Client
    <3>1. x \notin Child /\ TableOf(x) = CTable /\ x \in running
      BY <1>2, <2>7, Heads
    <3>4. v = Release(e)
      BY <2>7 DEF Unbound
    <3>5. v \in Counted /\ v.state = "CLOSED"
      BY <2>3, <3>4, ReleaseIs
    <3> HIDE DEF v
    <3>6. u \in Counted /\ u.state = "CLOSED"
      BY <3>5, UnhashedIs
    <3> HIDE DEF u
    <3>7. /\ SockInv' /\ QueueInv' /\ sock'[x] = u
          /\ \A y \in Client : y # x => sock'[y] = sock[y]
          /\ \A y \in Child :
               /\ ~Fresh(y) => /\ sock'[y].snd_nxt # 0
                               /\ sock'[y].state = "SYN_RECV" => sock[y].state = "SYN_RECV"
               /\ sock'[y].snd_nxt = 0 => sock'[y] = sock[y]
               /\ NotYet(y)' => NotYet(y)
          /\ Done => Done'
      BY <1>4, <2>4, <2>7, <3>6, ClientOnly
    <3>8. HashInv'
      BY <1>4, <2>5, <2>7, <3>1, <3>7, HashEmptied
    <3>9. ServerInv'
      BY <1>1, <3>7, ServerSame
    <3>11. ClientInv'
      BY <1>1, <1>2, <1>4, <2>7, <3>1, <3>7, ClientSame
    <3>12. AppInv'
      BY <1>1, <1>4, <2>2, <2>5 DEF ConnInv, AppInv
    <3> QED
      BY <3>7, <3>8, <3>9, <3>11, <3>12 DEF ConnInv
  <2> QED
    BY <2>6, <2>7, Heads
<1>7. CASE ~HasAck(p)
  <2>1. Becomes(x, s, <<>>) /\ UNCHANGED hl
    BY <1>1, <1>7 DEF s
  <2>2. Moves(sock[x].state, s.state)
    BY <1>1, <1>3 DEF Moves
  <2> QED
    BY <1>1, <1>2, <1>3, <1>4, <2>1, <2>2, Handled DEF ConnInv
<1> QED
  BY <1>6, <1>7

\* A socket whose timer expires is in use.
LEMMA ArmedIs ==
  ASSUME ConnInv, Up, NEW x \in Sock, NEW t \in {RetransTimer(x), Timewait(x)}, Armed(t, x)
  PROVE  /\ sock[x] \in Counted /\ ~sock[x].freed
         /\ x \in Client => x \in running
         /\ x \in Child => ~Fresh(x) /\ sock[x].snd_nxt # 0
<1>1. sock[x] \in Counted /\ ~sock[x].freed
  BY DEF ConnInv, SockInv, Up
<1>2. x \in Client => x \in running
  BY ClientIs
<1>3. ASSUME x \in Child  PROVE ~Fresh(x)
  <2>1. PICK q : /\ \/ Linked(tl, InServer, SHead, q)
                    \/ Bent(tl, InServer, SHead, q) /\ Done
                 /\ Apart(Touched(tl, SHead, q))
    BY DEF ConnInv, ServerInv
  <2>2. IsList(tl, InServer, SHead, q) /\ ToSet(q) \subseteq Touched(tl, SHead, q)
    BY <2>1 DEF Touched, Linked, Bent
  <2>3. t \in Touched(tl, SHead, q)
    BY <1>3, <2>2, ServerTimers DEF ConnInv
  <2> QED
    BY <1>3, <2>1, <2>3 DEF Apart, NotYet
<1> QED
  BY <1>1, <1>2, <1>3 DEF Fresh

LEMMA TimewaitStep ==
  ASSUME ConnInv, Up, NEW x \in Sock, TimewaitExpires(x)
  PROVE  ConnInv'
<1> DEFINE e == [sock[x] EXCEPT !.state = "CLOSED"]
           v == Unbound(e, x)
           u == Unhashed(v, x)
<1>1. /\ Armed(Timewait(x), x) /\ tl' = list_delete_entry(tl, Timewait(x))
      /\ sock' = [sock EXCEPT ![x] = u] /\ hl' = Unhash(x)
      /\ UNCHANGED <<net, clientVars, threadVars>>
  BY DEF TimewaitExpires
<1>2. /\ sock[x] \in Counted /\ ~sock[x].freed
      /\ x \in Client => x \in running
      /\ x \in Child => ~Fresh(x) /\ sock[x].snd_nxt # 0
  BY <1>1, ArmedIs
<1>3. /\ UNCHANGED <<running, unused, cpc, wait_connect>>
      /\ UNCHANGED <<accept_queue, wait_accept, apc, accepted, rpc, queued, giving, torn>>
  BY <1>1 DEF clientVars, threadVars
<1>4. HashInv /\ hl \in Memory(HashNode)
  BY DEF ConnInv, AppInv
<1>5. /\ e \in Counted /\ e.state = "CLOSED" /\ e.refs = sock[x].refs /\ e.snd_nxt = sock[x].snd_nxt /\ ~e.freed
  <2>1. "CLOSED" \in States
    BY DEF States
  <2> QED
    BY <1>2, <2>1, StateIs
<1> HIDE DEF e
<1>6. /\ hl' \in Memory(HashNode) /\ Bucket(hl', Table, Child) /\ Bucket(hl', CTable, Client)
      /\ hl'.next[TableOf(x)] # x /\ hl'.next[TableOf(x)] \in {TableOf(x), hl.next[TableOf(x)]}
      /\ x \in Child => hl'.next[CTable] = hl.next[CTable]
      /\ x \in Client => hl'.next[Table] = hl.next[Table]
  BY <1>1, <1>4, UnhashIs
<1>7. CASE x \in Child
  <2>1. x \notin Client /\ TableOf(x) = Table
    BY <1>7, Heads
  <2>2. v = e
    BY <2>1 DEF Unbound
  <2>3. u \in Counted /\ u.state = "CLOSED" /\ u.snd_nxt # 0
    BY <1>2, <1>5, <1>7, <2>2, UnhashedIs
  <2> HIDE DEF u
  <2>4. Moves(sock[x].state, u.state)
    BY <2>3 DEF Moves
  <2>5. /\ SockInv' /\ QueueInv'
        /\ \A y \in Client : sock'[y] = sock[y]
        /\ \A y \in Child :
             /\ ~Fresh(y) => /\ sock'[y].snd_nxt # 0
                             /\ sock'[y].state = "SYN_RECV" => sock[y].state = "SYN_RECV"
             /\ sock'[y].snd_nxt = 0 => sock'[y] = sock[y]
             /\ NotYet(y)' => NotYet(y)
        /\ Done => Done'
    BY <1>1, <1>2, <1>7, <2>3, <2>4, ChildOnly
  <2>6. HashInv'
    BY <1>3, <1>6, <1>7, <2>1, <2>5, HashEmptied
  <2>7. /\ ServerInv' /\ tl' \in Memory(TimerNode)
        /\ \A y \in InClient : tl'.next[y] = tl.next[y] /\ tl'.prev[y] = tl.prev[y]
    BY <1>1, <1>7, <2>5, ServerDeletes
  <2>8. ClientInv'
    BY <1>3, <1>6, <1>7, <2>5, <2>7, ClientSame
  <2>9. AppInv'
    BY <1>1, <1>3, <1>6, <2>7 DEF ConnInv, AppInv
  <2> QED
    BY <2>5, <2>6, <2>7, <2>8, <2>9 DEF ConnInv
<1>8. CASE x \in Client
  <2>1. x \notin Child /\ TableOf(x) = CTable /\ x \in running
    BY <1>2, <1>8, Heads
  <2>2. cpc # "connect"
    BY <1>1, <1>8, ClientIs
  <2>4. v = Release(e)
    BY <1>8 DEF Unbound
  <2>5. v \in Counted /\ v.state = "CLOSED"
    BY <1>5, <2>4, ReleaseIs
  <2> HIDE DEF v
  <2>6. u \in Counted /\ u.state = "CLOSED"
    BY <2>5, UnhashedIs
  <2> HIDE DEF u
  <2>7. /\ SockInv' /\ QueueInv' /\ sock'[x] = u
        /\ \A y \in Client : y # x => sock'[y] = sock[y]
        /\ \A y \in Child :
             /\ ~Fresh(y) => /\ sock'[y].snd_nxt # 0
                             /\ sock'[y].state = "SYN_RECV" => sock[y].state = "SYN_RECV"
             /\ sock'[y].snd_nxt = 0 => sock'[y] = sock[y]
             /\ NotYet(y)' => NotYet(y)
        /\ Done => Done'
    BY <1>1, <1>3, <1>8, <2>6, ClientOnly
  <2>8. HashInv'
    BY <1>3, <1>6, <1>8, <2>1, <2>7, HashEmptied
  <2>10. /\ ClientInv' /\ tl' \in Memory(TimerNode)
         /\ \A y \in InServer : tl'.next[y] = tl.next[y] /\ tl'.prev[y] = tl.prev[y]
    BY <1>1, <1>3, <2>1, <2>2, <2>7, ClientDeletes
  <2>11. ServerInv'
    BY <2>7, <2>10, ServerSame
  <2>12. AppInv'
    BY <1>1, <1>3, <1>6, <2>10 DEF ConnInv, AppInv
  <2> QED
    BY <2>7, <2>8, <2>10, <2>11, <2>12 DEF ConnInv
<1> QED
  BY <1>7, <1>8, Heads

LEMMA ResendStep ==
  ASSUME ConnInv, Up, NEW x \in Sock, NEW i \in DOMAIN sock[x].send_buf, Resend(x, i)
  PROVE  ConnInv'
<1> DEFINE t == Tried(sock[x], i)
<1>1. /\ sock[x].state # "CLOSED" /\ sock[x].send_buf[i].times < MaxTimes
      /\ Armed(RetransTimer(x), x)
      /\ sock' = [sock EXCEPT ![x] = t]
      /\ net' = Transmit(net, Peer(x), <<sock[x].send_buf[i].pkt>>)
      /\ UNCHANGED <<hl, tl, clientVars, threadVars>>
  BY DEF Resend
<1>2. /\ sock[x] \in Counted /\ ~sock[x].freed
      /\ x \in Client => x \in running
      /\ x \in Child => ~Fresh(x) /\ sock[x].snd_nxt # 0
  BY <1>1, ArmedIs
<1>3. sock[x].send_buf[i].times <= MaxTimes
  <2>1. sock[x].send_buf[i] \in Buffers
    BY <1>2 DEF Counted, SockType
  <2> QED
    BY <1>1, <2>1, ConnAssumption DEF Buffers
<1>4. /\ sock[x].send_buf[i].pkt \in PacketType
      /\ t \in Counted /\ t.state = sock[x].state /\ t.refs = sock[x].refs /\ t.snd_nxt = sock[x].snd_nxt
  BY <1>2, <1>3, TimesIs
<1>5. sock' = [sock EXCEPT ![x] = t]
  BY <1>1
<1> HIDE DEF t
<1>6. net' \in Nets
  <2>1. Peer(x) \in Hosts /\ <<sock[x].send_buf[i].pkt>> \in Seq(PacketType)
    BY <1>4 DEF Peer, Hosts
  <2> QED
    BY <1>1, <2>1, TransmitIs DEF ConnInv, AppInv
<1>7. /\ UNCHANGED <<running, unused, cpc, wait_connect>>
      /\ UNCHANGED <<accept_queue, wait_accept, apc, accepted, rpc, queued, giving, torn>>
  BY <1>1 DEF clientVars, threadVars
<1>8. AppInv'
  BY <1>1, <1>6, <1>7 DEF ConnInv, AppInv
<1>9. CASE x \in Child
  <2>1. Moves(sock[x].state, t.state) /\ t.snd_nxt # 0
    BY <1>2, <1>4, <1>9 DEF Moves
  <2>2. /\ SockInv' /\ QueueInv'
        /\ \A y \in Client : sock'[y] = sock[y]
        /\ \A y \in Child :
             /\ ~Fresh(y) => /\ sock'[y].snd_nxt # 0
                             /\ sock'[y].state = "SYN_RECV" => sock[y].state = "SYN_RECV"
             /\ sock'[y].snd_nxt = 0 => sock'[y] = sock[y]
             /\ NotYet(y)' => NotYet(y)
        /\ Done => Done'
    BY <1>1, <1>2, <1>4, <1>5, <1>9, <2>1, ChildOnly
  <2>3. HashInv' /\ ServerInv' /\ ClientInv'
    BY <1>1, <1>7, <2>2, HashSame, ServerSame, ClientSame
  <2> QED
    BY <1>8, <2>2, <2>3 DEF ConnInv
<1>10. CASE x \in Client
  <2>1. x \notin Child /\ x \in running
    BY <1>2, <1>10, Heads
  <2>2. t.state # "SYN_RECV"
    BY <1>4, <1>10 DEF ConnInv, SockInv
  <2>3. /\ SockInv' /\ QueueInv' /\ sock'[x] = t
        /\ \A y \in Client : y # x => sock'[y] = sock[y]
        /\ \A y \in Child :
             /\ ~Fresh(y) => /\ sock'[y].snd_nxt # 0
                             /\ sock'[y].state = "SYN_RECV" => sock[y].state = "SYN_RECV"
             /\ sock'[y].snd_nxt = 0 => sock'[y] = sock[y]
             /\ NotYet(y)' => NotYet(y)
        /\ Done => Done'
    BY <1>4, <1>5, <1>7, <1>10, <2>2, ClientOnly
  <2>4. HashInv' /\ ServerInv'
    BY <1>1, <1>7, <2>3, HashSame, ServerSame
  <2>5. cpc # "connect"
    BY <1>1, <1>10, ClientIs, NewSockIs
  <2>6. ClientInv'
    BY <1>1, <1>7, <2>1, <2>3, <2>5, ClientSame
  <2> QED
    BY <1>8, <2>3, <2>4, <2>6 DEF ConnInv
<1> QED
  BY <1>9, <1>10, Heads

\* What giving up makes of a socket.
LEMMA ExhaustedIs ==
  ASSUME ConnInv, Up, NEW x \in Sock, NEW i \in DOMAIN sock[x].send_buf, Exhausted(x, i),
         NEW kind \in Kinds
  PROVE  /\ Armed(RetransTimer(x), x) /\ tl' = list_delete_entry(tl, RetransTimer(x))
         /\ x \in Client => x \in running /\ cpc # "connect"
         /\ x \in Child => ~Fresh(x) /\ sock[x].snd_nxt # 0
         /\ LET t == Tried(sock[x], i)
                e == [t EXCEPT !.state = "CLOSED"]
            IN  /\ t \in Counted /\ t.state = sock[x].state
                /\ e \in Counted /\ e.state = "CLOSED" /\ e.snd_nxt = sock[x].snd_nxt
         /\ net' = Transmit(net, Peer(x), <<Packet(sock[x], kind)>>) => net' \in Nets
<1> DEFINE t == Tried(sock[x], i)
           e == [t EXCEPT !.state = "CLOSED"]
<1>1. /\ sock[x].state # "CLOSED" /\ sock[x].send_buf[i].times = MaxTimes
      /\ Armed(RetransTimer(x), x) /\ tl' = list_delete_entry(tl, RetransTimer(x))
  BY DEF Exhausted
<1>2. /\ sock[x] \in Counted
      /\ x \in Client => x \in running
      /\ x \in Child => ~Fresh(x) /\ sock[x].snd_nxt # 0
  BY <1>1, ArmedIs
<1>3. sock[x].send_buf[i].times <= MaxTimes
  BY <1>1, ConnAssumption
<1>4. t \in Counted /\ t.state = sock[x].state /\ t.snd_nxt = sock[x].snd_nxt
  BY <1>2, <1>3, TimesIs
<1> HIDE DEF t
<1>6. e \in Counted /\ e.state = "CLOSED" /\ e.snd_nxt = sock[x].snd_nxt
  <2>1. "CLOSED" \in States
    BY DEF States
  <2> QED
    BY <1>4, <2>1, StateIs
<1>7. Transmit(net, Peer(x), <<Packet(sock[x], kind)>>) \in Nets
  <2>1. Peer(x) \in Hosts /\ sock[x] \in SockType
    BY <1>2 DEF Peer, Hosts, Counted
  <2>2. <<Packet(sock[x], kind)>> \in Seq(PacketType)
    <3>1. Packet(sock[x], kind) \in PacketType
      BY <2>1, PacketIs
    <3> QED
      BY <3>1
  <2> QED
    BY <2>1, <2>2, TransmitIs DEF ConnInv, AppInv
<1>8. x \in Client => cpc # "connect"
  BY <1>1, ClientIs, NewSockIs
<1> QED
  BY <1>1, <1>2, <1>4, <1>6, <1>7, <1>8 DEF t

LEMMA GiveUpStep ==
  ASSUME ConnInv, Up, NEW x \in Sock, NEW i \in DOMAIN sock[x].send_buf, GiveUp(x, i)
  PROVE  ConnInv'
<1> DEFINE t == Tried(sock[x], i)
           u == Unhashed(t, x)
<1>1. /\ x \in Client /\ Exhausted(x, i)
      /\ sock' = [sock EXCEPT ![x] = u]
      /\ hl' = Unhash(x)
      /\ wait_connect' = wait_exit(wait_connect)
      /\ giving' = {x}
      /\ UNCHANGED <<net, running, unused, cpc, accept_queue, wait_accept, apc, accepted, rpc, queued, torn>>
  BY DEF GiveUp
<1>2. /\ Armed(RetransTimer(x), x) /\ tl' = list_delete_entry(tl, RetransTimer(x))
      /\ x \in running /\ cpc # "connect"
      /\ t \in Counted /\ t.state = sock[x].state
  <2>1. "RST" \in Kinds
    BY DEF Kinds
  <2> QED
    BY <1>1, <2>1, ExhaustedIs
<1> HIDE DEF t
<1>3. x \notin Child /\ TableOf(x) = CTable
  BY <1>1, Heads
<1>4. HashInv /\ hl \in Memory(HashNode) /\ wait_connect \in Wait
  BY DEF ConnInv, AppInv
<1>5. /\ hl' \in Memory(HashNode) /\ Bucket(hl', Table, Child) /\ Bucket(hl', CTable, Client)
      /\ hl'.next[CTable] # x /\ hl'.next[CTable] \in {CTable, hl.next[CTable]}
      /\ hl'.next[Table] = hl.next[Table]
  BY <1>1, <1>3, <1>4, UnhashIs
<1>6. u \in Counted /\ u.state # "SYN_RECV"
  <2>1. sock[x].state # "SYN_RECV"
    BY <1>1 DEF ConnInv, SockInv
  <2> QED
    BY <1>2, <2>1, UnhashedIs
<1> HIDE DEF u
<1>7. /\ SockInv' /\ QueueInv' /\ sock'[x] = u
      /\ \A y \in Client : y # x => sock'[y] = sock[y]
      /\ \A y \in Child :
           /\ ~Fresh(y) => /\ sock'[y].snd_nxt # 0
                           /\ sock'[y].state = "SYN_RECV" => sock[y].state = "SYN_RECV"
           /\ sock'[y].snd_nxt = 0 => sock'[y] = sock[y]
           /\ NotYet(y)' => NotYet(y)
      /\ Done => Done'
  BY <1>1, <1>6, ClientOnly
<1>8. HashInv'
  BY <1>1, <1>5, <1>7, HashEmptied
<1>9. /\ ClientInv' /\ tl' \in Memory(TimerNode)
      /\ \A y \in InServer : tl'.next[y] = tl.next[y] /\ tl'.prev[y] = tl.prev[y]
  BY <1>1, <1>2, <1>7, ClientDeletes
<1>10. ServerInv'
  BY <1>7, <1>9, ServerSame
<1>11. AppInv'
  <2>1. wait_connect' \in Wait
    BY <1>1, <1>4, WaitIs
  <2> QED
    BY <1>1, <1>2, <1>5, <1>9, <2>1 DEF ConnInv, AppInv
<1> QED
  BY <1>7, <1>8, <1>9, <1>10, <1>11 DEF ConnInv

LEMMA GiveUpChildStep ==
  ASSUME ConnInv, Up, NEW x \in Sock, NEW i \in DOMAIN sock[x].send_buf, GiveUpChild(x, i)
  PROVE  ConnInv'
<1> DEFINE e == [Tried(sock[x], i) EXCEPT !.state = "CLOSED"]
<1>1. /\ x \in Child /\ Exhausted(x, i)
      /\ sock' = [sock EXCEPT ![x] = e]
      /\ net' = Transmit(net, "client", <<Packet(sock[x], "RST")>>)
      /\ UNCHANGED <<hl, clientVars, threadVars>>
  BY DEF GiveUpChild
<1>2. /\ Armed(RetransTimer(x), x) /\ tl' = list_delete_entry(tl, RetransTimer(x))
      /\ ~Fresh(x) /\ sock[x].snd_nxt # 0
      /\ e \in Counted /\ e.state = "CLOSED" /\ e.snd_nxt = sock[x].snd_nxt
      /\ net' \in Nets
  <2>1. "RST" \in Kinds /\ Peer(x) = "client"
    BY <1>1, Heads DEF Kinds
  <2> QED
    BY <1>1, <2>1, ExhaustedIs
<1> HIDE DEF e
<1>3. /\ UNCHANGED <<hl, running, unused, cpc, wait_connect>>
      /\ UNCHANGED <<accept_queue, wait_accept, apc, accepted, rpc, queued, giving, torn>>
  BY <1>1 DEF clientVars, threadVars
<1>4. Moves(sock[x].state, e.state) /\ e.snd_nxt # 0
  BY <1>2 DEF Moves
<1>5. /\ SockInv' /\ QueueInv'
      /\ \A y \in Client : sock'[y] = sock[y]
      /\ \A y \in Child :
           /\ ~Fresh(y) => /\ sock'[y].snd_nxt # 0
                           /\ sock'[y].state = "SYN_RECV" => sock[y].state = "SYN_RECV"
           /\ sock'[y].snd_nxt = 0 => sock'[y] = sock[y]
           /\ NotYet(y)' => NotYet(y)
      /\ Done => Done'
  BY <1>1, <1>2, <1>4, ChildOnly
<1>6. HashInv'
  BY <1>3, <1>5, HashSame
<1>7. /\ ServerInv' /\ tl' \in Memory(TimerNode)
      /\ \A y \in InClient : tl'.next[y] = tl.next[y] /\ tl'.prev[y] = tl.prev[y]
  BY <1>1, <1>2, <1>5, ServerDeletes
<1>8. ClientInv'
  BY <1>3, <1>5, <1>7, ClientSame
<1>9. AppInv'
  BY <1>2, <1>3, <1>7 DEF ConnInv, AppInv
<1> QED
  BY <1>5, <1>6, <1>7, <1>8, <1>9 DEF ConnInv

LEMMA GivenUpStep ==
  ASSUME ConnInv, Up, GivenUp
  PROVE  ConnInv'
<1>1. PICK x \in Client : running = {x} /\ giving = {x} /\ cpc # "connect" /\ Own = x
  BY DEF GivenUp, ConnInv, AppInv, Own
<1> DEFINE e == [sock[x] EXCEPT !.state = "CLOSED"]
<1>2. x \in Sock /\ sock[x] \in Counted
  BY <1>1, Heads DEF ConnInv, SockInv
<1>3. /\ sock' = [sock EXCEPT ![x] = e]
      /\ net' = Transmit(net, "server", <<Packet(sock[x], "RST")>>)
      /\ UNCHANGED <<hl, tl, running, unused, cpc, wait_connect>>
      /\ UNCHANGED <<accept_queue, wait_accept, apc, accepted, rpc, queued, torn>>
      /\ giving' = {}
  <2>1. sock' = [sock EXCEPT ![x].state = "CLOSED"]
    BY <1>1 DEF GivenUp
  <2>2. sock' = [sock EXCEPT ![x] = e]
    BY <1>2, <2>1 DEF ConnInv, SockInv
  <2> QED
    BY <1>1, <2>2 DEF GivenUp, clientVars
<1>4. e \in Counted /\ e.state = "CLOSED"
  <2>1. "CLOSED" \in States
    BY DEF States
  <2> QED
    BY <1>2, <2>1, StateIs
<1> HIDE DEF e
<1>5. net' \in Nets
  <2>1. Packet(sock[x], "RST") \in PacketType
    BY <1>2, PacketIs DEF Kinds, Counted
  <2>2. <<Packet(sock[x], "RST")>> \in Seq(PacketType) /\ "server" \in Hosts
    BY <2>1 DEF Hosts
  <2> QED
    BY <1>3, <2>2, TransmitIs DEF ConnInv, AppInv
<1>6. /\ SockInv' /\ QueueInv' /\ sock'[x] = e
      /\ \A y \in Client : y # x => sock'[y] = sock[y]
      /\ \A y \in Child :
           /\ ~Fresh(y) => /\ sock'[y].snd_nxt # 0
                           /\ sock'[y].state = "SYN_RECV" => sock[y].state = "SYN_RECV"
           /\ sock'[y].snd_nxt = 0 => sock'[y] = sock[y]
           /\ NotYet(y)' => NotYet(y)
      /\ Done => Done'
  BY <1>3, <1>4, ClientOnly
<1>7. HashInv' /\ ServerInv' /\ ClientInv'
  BY <1>1, <1>3, <1>6, HashSame, ServerSame, ClientSame
<1>8. AppInv'
  BY <1>1, <1>3, <1>5 DEF ConnInv, AppInv
<1> QED
  BY <1>6, <1>7, <1>8 DEF ConnInv

-----------------------------------------------------------------------------
(* The client application *)

LEMMA OwnIs ==
  ASSUME ConnInv, running # {}
  PROVE  Own \in running /\ Own \in Client /\ running = {Own} /\ Own \in Sock
<1>1. PICK x \in Client : running = {x}
  BY DEF ConnInv, AppInv
<1>2. Own \in running
  BY <1>1 DEF Own
<1> QED
  BY <1>1, <1>2, Heads

\* A step of the client application that leaves the tables and timers alone.
LEMMA ClientSteps ==
  ASSUME ConnInv, running # {}, NEW t \in Counted, t.state # "SYN_RECV",
         sock' = [sock EXCEPT ![Own] = t],
         UNCHANGED <<hl, tl, running, unused, threadVars>>, net' \in Nets, wait_connect' \in Wait,
         cpc' # "connect"
  PROVE  ConnInv'
<1> DEFINE x == Own
<1>1. x \in running /\ x \in Client
  BY OwnIs
<1>2. PICK y \in Client : y \in running /\ y = x
  BY <1>1
<1>3. /\ sock' = [sock EXCEPT ![y] = t] /\ running = {y}
      /\ UNCHANGED <<accept_queue, wait_accept, apc, accepted, rpc, queued, giving, torn>>
  BY <1>2, OwnIs DEF threadVars
<1>4. /\ SockInv' /\ QueueInv' /\ sock'[y] = t
      /\ \A z \in Client : z # y => sock'[z] = sock[z]
      /\ \A z \in Child :
           /\ ~Fresh(z) => /\ sock'[z].snd_nxt # 0
                           /\ sock'[z].state = "SYN_RECV" => sock[z].state = "SYN_RECV"
           /\ sock'[z].snd_nxt = 0 => sock'[z] = sock[z]
           /\ NotYet(z)' => NotYet(z)
      /\ Done => Done'
  BY <1>3, ClientOnly
<1>5. HashInv' /\ ServerInv'
  BY <1>4, HashSame, ServerSame
<1>6. ClientInv'
  BY <1>2, <1>3, <1>4, ClientSame
<1>7. AppInv'
  BY <1>3 DEF ConnInv, AppInv
<1> QED
  BY <1>4, <1>5, <1>6, <1>7 DEF ConnInv

LEMMA ConnectStep ==
  ASSUME ConnInv, Connect
  PROVE  ConnInv'
<1> DEFINE s == [sock[Own] EXCEPT !.state = "SYN_SENT", !.snd_nxt = Iss]
           e == Sent(s, "SYN")
           t == Hold(Hold(e))
<1>1. /\ running # {} /\ cpc = "connect" /\ cpc' = "sleep"
      /\ sock' = [sock EXCEPT ![Own] = t]
      /\ net' = Transmit(net, "server", <<Packet(s, "SYN")>>)
      /\ hl' = Hash(Own)
      /\ UNCHANGED <<tl, running, unused, wait_connect, threadVars>>
  BY DEF Connect, At, ClientStep
<1>2. Own \in running /\ Own \in Client /\ Own \in Sock
  BY <1>1, OwnIs
<1>4. sock[Own] = NewSock
  BY <1>1, <1>2, ClientIs
<1>5. /\ s \in Counted /\ s.state = "SYN_SENT" /\ s.refs = 1 /\ ~s.freed
  <2>1. /\ NewSock \in SockType /\ NewSock.refs = 1 /\ NewSock.freed = FALSE
    BY NewSockIs DEF Counted, NewSock
  <2>2. s = [[NewSock EXCEPT !.state = "SYN_SENT"] EXCEPT !.snd_nxt = Iss]
    BY <1>4, <2>1 DEF SockType
  <2>3. s \in SockType /\ s.state = "SYN_SENT" /\ s.refs = 1 /\ s.freed = FALSE
    BY <2>1, <2>2 DEF SockType, States, Iss
  <2> HIDE DEF s
  <2> QED
    BY <2>3 DEF Counted
<1> HIDE DEF s
<1>6. e \in Counted /\ e.state = "SYN_SENT" /\ e.refs = 1 /\ ~e.freed /\ Packet(s, "SYN") \in PacketType
  <2>1. "SYN" \in Kinds /\ s \in SockType
    BY <1>5 DEF Kinds, Counted
  <2> QED
    BY <1>5, <2>1, SentIs, PacketIs
<1> HIDE DEF e
<1>7. t \in Counted /\ t.state = "SYN_SENT" /\ t.refs = 3
  <2>1. Hold(e) \in Counted /\ Hold(e).state = "SYN_SENT" /\ Hold(e).refs = 2 /\ ~Hold(e).freed
    BY <1>6, HoldIs
  <2> QED
    BY <2>1, HoldIs
<1> HIDE DEF t
<1>8. PICK y \in Client : y \in running /\ y = Own
  BY <1>2
<1>9. /\ sock' = [sock EXCEPT ![y] = t] /\ running = {y}
      /\ UNCHANGED <<accept_queue, wait_accept, apc, accepted, rpc, queued, giving, torn>>
  BY <1>1, <1>8, OwnIs DEF threadVars
<1>10. /\ SockInv' /\ QueueInv' /\ sock'[y] = t
       /\ \A z \in Client : z # y => sock'[z] = sock[z]
       /\ \A z \in Child :
            /\ ~Fresh(z) => /\ sock'[z].snd_nxt # 0
                            /\ sock'[z].state = "SYN_RECV" => sock[z].state = "SYN_RECV"
            /\ sock'[z].snd_nxt = 0 => sock'[z] = sock[z]
            /\ NotYet(z)' => NotYet(z)
       /\ Done => Done'
  BY <1>7, <1>9, ClientOnly
<1>11. HashInv /\ hl \in Memory(HashNode) /\ y \in Sock /\ y \notin Child /\ TableOf(y) = CTable
       /\ CTable \notin Client
  BY Heads DEF ConnInv, AppInv
<1>12. hl.next[CTable] = CTable
  BY <1>1, <1>11 DEF HashInv
<1>13. /\ hl' \in Memory(HashNode) /\ Bucket(hl', Table, Child) /\ Bucket(hl', CTable, Client)
       /\ hl'.next[CTable] = y /\ hl'.next[Table] = hl.next[Table]
  BY <1>1, <1>8, <1>11, <1>12, HashIs
<1>14. HashInv'
  <2>1. hl.next[Table] # Table => hl.next[Table] \in Child /\ sock'[hl.next[Table]].snd_nxt # 0
    BY <1>10, <1>11 DEF HashInv, Bucket
  <2> QED
    BY <1>1, <1>8, <1>13, <2>1 DEF HashInv, Fresh
<1>15. ServerInv'
  BY <1>1, <1>10, ServerSame
<1>17. ClientInv'
  BY <1>1, <1>9, <1>10, ClientSame
<1>18. net' \in Nets
  <2>1. "server" \in Hosts /\ <<Packet(s, "SYN")>> \in Seq(PacketType)
    BY <1>6 DEF Hosts
  <2> QED
    BY <1>1, <2>1, TransmitIs DEF ConnInv, AppInv
<1>19. AppInv'
  BY <1>1, <1>9, <1>13, <1>18 DEF ConnInv, AppInv
<1> QED
  BY <1>10, <1>14, <1>15, <1>17, <1>19 DEF ConnInv

LEMMA ConnectWaitStep ==
  ASSUME ConnInv, ConnectSleeps \/ ConnectResumes
  PROVE  ConnInv'
<1>1. /\ running # {} /\ cpc \in {"sleep", "asleep"} /\ cpc' \in {"asleep", "woken"}
      /\ wait_connect' = sleep_on(wait_connect) \/ wait_connect' = Resume(wait_connect)
      /\ UNCHANGED <<connVars, net, running, unused, threadVars>>
  <2>1. CASE ConnectSleeps
    BY <2>1 DEF ConnectSleeps, At
  <2>2. CASE ConnectResumes
    BY <2>2 DEF ConnectResumes, At
  <2> QED
    BY <2>1, <2>2
<1>2. wait_connect' \in Wait
  <2>1. wait_connect \in Wait
    BY DEF ConnInv, AppInv
  <2> QED
    BY <1>1, <2>1, WaitIs
<1>3. Own \in Client /\ Own \in Sock
  BY <1>1, OwnIs
<1>4. sock[Own] \in Counted /\ sock[Own].state # "SYN_RECV" /\ sock' = [sock EXCEPT ![Own] = sock[Own]]
  BY <1>1, <1>3 DEF ConnInv, SockInv, connVars
<1>5. net' \in Nets /\ UNCHANGED <<hl, tl, running, unused, threadVars>>
  BY <1>1 DEF ConnInv, AppInv, connVars
<1> QED
  BY <1>1, <1>2, <1>4, <1>5, ClientSteps

LEMMA ConnectReturnStep ==
  ASSUME ConnInv, ConnectReturns
  PROVE  ConnInv'
<1> DEFINE t == [sock[Own] EXCEPT !.state = "ESTABLISHED"]
<1>1. /\ running # {} /\ cpc = "woken" /\ cpc' = "ack"
      /\ sock' = [sock EXCEPT ![Own] = t]
      /\ UNCHANGED <<hl, tl, net, running, unused, wait_connect, threadVars>>
  BY DEF ConnectReturns, At, ClientStep
<1>2. Own \in Client /\ Own \in Sock
  BY <1>1, OwnIs
<1>3. t \in Counted /\ t.state = "ESTABLISHED" /\ t.refs = sock[Own].refs
  <2>1. "ESTABLISHED" \in States /\ sock[Own] \in Counted
    BY <1>2 DEF States, ConnInv, SockInv
  <2> QED
    BY <2>1, StateIs
<1> HIDE DEF t
<1>4. net' \in Nets /\ wait_connect' \in Wait /\ UNCHANGED <<hl, tl, running, unused, threadVars>>
  BY <1>1 DEF ConnInv, AppInv
<1> QED
  BY <1>1, <1>3, <1>4, ClientSteps

LEMMA ClientSendStep ==
  ASSUME ConnInv, AckSynAck \/ Write \/ SendFin
  PROVE  ConnInv'
<1>1. PICK kind \in {"ACK", "PSH", "FIN"} :
        /\ running # {} /\ cpc \in {"ack", "write", "fin"} /\ cpc' \in {"write", "close", "closed"}
        /\ sock' = [sock EXCEPT ![Own] = Sent(sock[Own], kind)]
        /\ net' = Transmit(net, "server", <<Packet(sock[Own], kind)>>)
        /\ UNCHANGED <<hl, tl, running, unused, wait_connect, threadVars>>
  <2>1. CASE AckSynAck
    BY <2>1 DEF AckSynAck, ClientSends, At, ClientStep
  <2>2. CASE Write
    BY <2>2 DEF Write, ClientSends, At, ClientStep
  <2>3. CASE SendFin
    BY <2>3 DEF SendFin, ClientSends, At, ClientStep
  <2> QED
    BY <2>1, <2>2, <2>3
<1>2. Own \in Client /\ Own \in Sock
  BY <1>1, OwnIs
<1> DEFINE t == Sent(sock[Own], kind)
<1>3. sock[Own] \in Counted /\ sock[Own].state # "SYN_RECV" /\ sock[Own] \in SockType /\ kind \in Kinds
  BY <1>2 DEF ConnInv, SockInv, Counted, Kinds
<1>4. t \in Counted /\ t.state = sock[Own].state /\ t.refs = sock[Own].refs
  BY <1>3, SentIs
<1>5. sock' = [sock EXCEPT ![Own] = t]
  BY <1>1
<1> HIDE DEF t
<1>6. net' \in Nets
  <2>1. <<Packet(sock[Own], kind)>> \in Seq(PacketType)
    <3>1. Packet(sock[Own], kind) \in PacketType
      BY <1>3, PacketIs
    <3> QED
      BY <3>1
  <2>2. "server" \in Hosts
    BY DEF Hosts
  <2> QED
    BY <1>1, <2>1, <2>2, TransmitIs DEF ConnInv, AppInv
<1>7. wait_connect' \in Wait /\ UNCHANGED <<hl, tl, running, unused, threadVars>>
  BY <1>1 DEF ConnInv, AppInv
<1> QED
  BY <1>1, <1>3, <1>4, <1>5, <1>6, <1>7, ClientSteps

LEMMA CloseStep ==
  ASSUME ConnInv, Close \/ CloseGoesOn
  PROVE  ConnInv'
<1> DEFINE f == [sock[Own] EXCEPT !.state = "FIN_WAIT_1"]
<1>1. /\ running # {} /\ cpc' \in {"closing", "closed", "fin"}
      /\ sock' = [sock EXCEPT ![Own] = f] \/ sock' = sock
      /\ UNCHANGED <<hl, tl, net, running, unused, wait_connect, threadVars>>
  <2>1. CASE Close
    BY <2>1 DEF Close, At, connVars
  <2>2. CASE CloseGoesOn
    BY <2>2 DEF CloseGoesOn, At, ClientStep
  <2> QED
    BY <2>1, <2>2
<1>2. Own \in Client /\ Own \in Sock
  BY <1>1, OwnIs
<1>3. /\ sock[Own] \in Counted /\ sock[Own].state # "SYN_RECV"
      /\ sock = [sock EXCEPT ![Own] = sock[Own]]
  BY <1>2 DEF ConnInv, SockInv
<1>4. f \in Counted /\ f.state = "FIN_WAIT_1"
  <2>1. "FIN_WAIT_1" \in States
    BY DEF States
  <2> QED
    BY <1>3, <2>1, StateIs
<1> HIDE DEF f
<1>5. net' \in Nets /\ wait_connect' \in Wait /\ UNCHANGED <<hl, tl, running, unused, threadVars>>
  BY <1>1 DEF ConnInv, AppInv
<1>6. CASE sock' = [sock EXCEPT ![Own] = f]
  BY <1>1, <1>4, <1>5, <1>6, ClientSteps
<1>7. CASE sock' = sock
  <2>1. sock' = [sock EXCEPT ![Own] = sock[Own]]
    BY <1>3, <1>7
  <2> QED
    BY <1>1, <1>3, <1>5, <2>1, ClientSteps
<1> QED
  BY <1>1, <1>6, <1>7

LEMMA EmptyIs ==
  ASSUME NEW m, NEW N, NEW h, m.next[h] = h, m.prev[h] = h
  PROVE  Linked(m, N, h, <<>>) /\ ToSet(<<>>) = {}
<1>1. <<>> \in Seq(N) /\ Len(<<>>) = 0 /\ DOMAIN <<>> = {}
  OBVIOUS
<1>2. ToSet(<<>>) = {} /\ IsInjective(<<>>)
  BY <1>1 DEF ToSet, IsInjective
<1>3. Place(h, <<>>, 0) = h /\ Place(h, <<>>, 1) = h
  BY <1>1 DEF Place
<1>4. \A i \in 0 .. Len(<<>>) : i = 0 /\ i + 1 = 1
  BY <1>1
<1> QED
  BY <1>1, <1>2, <1>3, <1>4 DEF Linked, IsList

LEMMA StartStep ==
  ASSUME ConnInv, ClientStarts
  PROVE  ConnInv'
<1>1. PICK x \in unused :
        /\ running = {} /\ running' = {x} /\ unused' = unused \ {x}
        /\ tl' = list_add_tail(tl, RetransTimer(x), TimerHead(x))
        /\ cpc' = "connect"
        /\ UNCHANGED <<sock, hl, net, wait_connect, threadVars>>
  BY DEF ClientStarts
<1>2. x \in Client /\ x \notin running /\ TimerHead(x) = CHead
  BY <1>1, Heads DEF ConnInv, AppInv
<1>3. ClientInv /\ tl \in Memory(TimerNode) /\ HashInv /\ Closed(tl, InClient)
  BY DEF ConnInv, AppInv, ClientInv
<1>4. /\ CHead \in InClient /\ InClient \in SUBSET TimerNode
      /\ RetransTimer(x) \in InClient /\ RetransTimer(x) # CHead
  BY <1>2, TimerNodes
<1>5. tl' = list_add_tail(tl, RetransTimer(x), CHead)
  BY <1>1, <1>2
<1>6. /\ tl' \in Memory(TimerNode) /\ Closed(tl', InClient)
      /\ \A y \in TimerNode \ InClient : tl'.next[y] = tl.next[y] /\ tl'.prev[y] = tl.prev[y]
  BY <1>3, <1>4, <1>5, AddWithin
<1>7. \A y \in InServer : tl'.next[y] = tl.next[y] /\ tl'.prev[y] = tl.prev[y]
  BY <1>6, TimerNodes
<1>8. tl.next[CHead] = CHead /\ tl.prev[CHead] = CHead
  BY <1>1, <1>3 DEF ClientInv
<1>9. /\ tl'.next[CHead] = RetransTimer(x) /\ tl'.next[RetransTimer(x)] = CHead
      /\ tl'.prev[CHead] = RetransTimer(x) /\ tl'.prev[RetransTimer(x)] = CHead
  <2>1. PICK t \in TimerNode : t = RetransTimer(x) /\ t # CHead /\ CHead \in TimerNode
    BY <1>4
  <2> HIDE DEF CHead
  <2>2. /\ \A y \in TimerNode : tl'.next[y] = IF y = t THEN CHead ELSE IF y = tl.prev[CHead] THEN t ELSE tl.next[y]
        /\ \A y \in TimerNode : tl'.prev[y] = IF y = t THEN tl.prev[CHead] ELSE IF y = CHead THEN t ELSE tl.prev[y]
    BY <1>3, <1>5, <2>1, AddTailPointers
  <2> QED
    BY <1>8, <2>1, <2>2
<1>10. ClientList(tl', x)
  BY <1>9 DEF ClientList
<1>11. \A y \in Client : sock'[y] = NewSock
  BY <1>1, <1>3 DEF ClientInv
<1>12. hl'.next[CTable] = CTable /\ CTable # x
  BY <1>1, <1>2, <1>3, Heads DEF HashInv
<1>14. ClientInv'
  BY <1>1, <1>2, <1>6, <1>9, <1>10, <1>11
  DEF ClientInv, ClientList, RetransTimer, Timewait, CHead, InClient, TimersIn
<1>15. UNCHANGED <<accept_queue, wait_accept, apc, accepted, rpc, queued, giving, torn>>
  BY <1>1 DEF threadVars
<1>16. /\ \A y \in Child :
             /\ ~Fresh(y) => /\ sock'[y].snd_nxt # 0
                             /\ sock'[y].state = "SYN_RECV" => sock[y].state = "SYN_RECV"
             /\ sock'[y].snd_nxt = 0 => sock'[y] = sock[y]
             /\ NotYet(y)' => NotYet(y)
       /\ Done => Done'
  BY <1>1, <1>15, ClientLeaves
<1>17. QueueInv' /\ ServerInv'
  BY <1>7, <1>15, <1>16, QueueSame, ServerSame
<1>18. HashInv'
  BY <1>1, <1>3, <1>12 DEF HashInv, Fresh
<1>19. AppInv'
  BY <1>1, <1>2, <1>6, <1>15 DEF ConnInv, AppInv
<1>20. SockInv'
  BY <1>1 DEF ConnInv, SockInv
<1> QED
  BY <1>14, <1>17, <1>18, <1>19, <1>20 DEF ConnInv

LEMMA KilledStep ==
  ASSUME ConnInv, ClientKilled
  PROVE  ConnInv'
<1>1. /\ running # {} /\ running' = {} /\ cpc' = "exited"
      /\ hl' = [hl EXCEPT !.next[CTable] = CTable, !.prev[CTable] = CTable]
      /\ tl' = [tl EXCEPT !.next[CHead] = CHead, !.prev[CHead] = CHead]
      /\ sock' = [sock EXCEPT ![Own] = NewSock]
      /\ wait_connect' = wait_init /\ giving' = {}
      /\ UNCHANGED <<net, unused, accept_queue, wait_accept, apc, accepted, rpc, queued, torn>>
  BY DEF ClientKilled, CHead
<1>2. Own \in running /\ Own \in Client /\ running = {Own}
  BY <1>1, OwnIs
<1>3. PICK x \in Client : x = Own /\ running = {x}
  BY <1>2
<1>4. sock' = [sock EXCEPT ![x] = NewSock] /\ NewSock.state # "SYN_RECV" /\ NewSock \in Counted
  BY <1>1, <1>3, NewSockIs
<1>5. /\ SockInv' /\ QueueInv' /\ sock'[x] = NewSock
      /\ \A z \in Client : z # x => sock'[z] = sock[z]
      /\ \A z \in Child : sock'[z] = sock[z]
      /\ \A z \in Child :
           /\ ~Fresh(z) => /\ sock'[z].snd_nxt # 0
                           /\ sock'[z].state = "SYN_RECV" => sock[z].state = "SYN_RECV"
           /\ sock'[z].snd_nxt = 0 => sock'[z] = sock[z]
           /\ NotYet(z)' => NotYet(z)
      /\ Done => Done'
  BY <1>1, <1>4, ClientOnly
<1>6. HashInv /\ hl \in Memory(HashNode) /\ tl \in Memory(TimerNode) /\ ClientInv
  BY DEF ConnInv, AppInv
<1>7. /\ CTable \in HashNode /\ Table \in HashNode /\ Table # CTable
      /\ \A y \in Client : y # CTable /\ y \in HashNode
      /\ \A y \in Child : y # CTable /\ y \in HashNode
  BY Heads
<1>8. /\ hl' \in Memory(HashNode) /\ hl'.next[CTable] = CTable /\ hl'.prev[CTable] = CTable
      /\ \A y \in HashNode : y # CTable => hl'.next[y] = hl.next[y] /\ hl'.prev[y] = hl.prev[y]
  <2>1. hl.next \in [HashNode -> HashNode] /\ hl.prev \in [HashNode -> HashNode]
        /\ hl = [next |-> hl.next, prev |-> hl.prev]
    BY <1>6 DEF Memory
  <2>2. hl' = [next |-> [hl.next EXCEPT ![CTable] = CTable], prev |-> [hl.prev EXCEPT ![CTable] = CTable]]
    BY <1>1, <2>1
  <2>3. [hl.next EXCEPT ![CTable] = CTable] \in [HashNode -> HashNode]
        /\ [hl.prev EXCEPT ![CTable] = CTable] \in [HashNode -> HashNode]
    BY <1>7, <2>1
  <2>4. hl' \in Memory(HashNode)
    BY <2>2, <2>3 DEF Memory
  <2> QED
    BY <1>7, <2>1, <2>2, <2>4
<1>9. CHead \in TimerNode /\ CHead \in InClient /\ CHead \notin InServer
      /\ InServer \in SUBSET TimerNode /\ InClient \in SUBSET TimerNode
  BY TimerNodes
<1>10. /\ tl' \in Memory(TimerNode) /\ tl'.next[CHead] = CHead /\ tl'.prev[CHead] = CHead
       /\ \A y \in TimerNode : y # CHead => tl'.next[y] = tl.next[y] /\ tl'.prev[y] = tl.prev[y]
  <2> HIDE DEF CHead
  <2>1. tl.next \in [TimerNode -> TimerNode] /\ tl.prev \in [TimerNode -> TimerNode]
        /\ tl = [next |-> tl.next, prev |-> tl.prev]
    BY <1>6 DEF Memory
  <2>2. tl' = [next |-> [tl.next EXCEPT ![CHead] = CHead], prev |-> [tl.prev EXCEPT ![CHead] = CHead]]
    BY <1>1, <2>1
  <2>3. [tl.next EXCEPT ![CHead] = CHead] \in [TimerNode -> TimerNode]
        /\ [tl.prev EXCEPT ![CHead] = CHead] \in [TimerNode -> TimerNode]
    BY <1>9, <2>1
  <2>4. tl' \in Memory(TimerNode)
    BY <2>2, <2>3 DEF Memory
  <2> QED
    BY <1>9, <2>1, <2>2, <2>4
<1>11. HashInv'
  <2>1. \A y \in Child \cup {Table} : hl'.next[y] = hl.next[y] /\ hl'.prev[y] = hl.prev[y]
    BY <1>7, <1>8
  <2>2. Bucket(hl', Table, Child)
    BY <1>6, <2>1, BucketSame DEF HashInv
  <2>3. \A y \in Client : hl'.next[y] = hl'.prev[y] /\ hl'.next[y] \in {y, CTable}
    BY <1>6, <1>7, <1>8 DEF HashInv, Bucket
  <2>4. Bucket(hl', CTable, Client)
    BY <1>8, <2>3 DEF Bucket
  <2>5. hl.next[Table] # Table => hl.next[Table] \in Child /\ ~Fresh(hl.next[Table])
    BY <1>6 DEF HashInv, Bucket
  <2>6. hl'.next[Table] = hl.next[Table]
    BY <2>1
  <2>7. hl.next[Table] # Table => sock'[hl.next[Table]].snd_nxt # 0
    BY <1>5, <2>5
  <2> QED
    BY <1>8, <2>2, <2>4, <2>6, <2>7 DEF HashInv, Fresh
<1>12. Closed(tl', InClient)
  BY <1>6, <1>9, <1>10 DEF ClientInv, Closed
<1>14. \A y \in Client : sock'[y] = NewSock
  BY <1>3, <1>5, <1>6 DEF ClientInv
<1>15. ClientInv'
  BY <1>1, <1>10, <1>12, <1>14 DEF ClientInv, ClientList, RetransTimer, Timewait, CHead, InClient, TimersIn
<1>16. ServerInv'
  <2>1. \A y \in InServer : tl'.next[y] = tl.next[y] /\ tl'.prev[y] = tl.prev[y]
    BY <1>9, <1>10
  <2> QED
    BY <1>5, <2>1, ServerSame
<1>17. AppInv'
  BY <1>1, <1>8, <1>10, WaitIs DEF ConnInv, AppInv
<1> QED
  BY <1>5, <1>11, <1>15, <1>16, <1>17 DEF ConnInv

-----------------------------------------------------------------------------
(* The server application *)

LEMMA ServerSteps ==
  ASSUME ConnInv, apc # "up", AcceptStep(apc'), apc' # "up", UNCHANGED connVars,
         wait_accept' \in Wait, QueueInv'
  PROVE  ConnInv'
<1>1. UNCHANGED <<sock, hl, tl, net, running, unused, cpc, wait_connect, rpc, queued, giving, torn>>
  BY DEF AcceptStep, connVars, clientVars
<1>2. \A x \in Child : /\ sock'[x].snd_nxt = 0 => sock'[x] = sock[x]
                       /\ NotYet(x)' => NotYet(x)
  BY <1>1 DEF NotYet, Fresh
<1>3. Done => Done'
  BY DEF Done
<1>4. SockInv' /\ AppInv'
  BY <1>1 DEF ConnInv, SockInv, AppInv
<1>5. HashInv'
  <2>1. \A x \in Child : ~Fresh(x) => sock'[x].snd_nxt # 0
    BY <1>1 DEF Fresh
  <2> QED
    BY <1>1, <2>1, HashSame
<1>6. ClientInv' /\ ServerInv'
  BY <1>1, <1>2, <1>3, ClientSame, ServerSame
<1> QED
  BY <1>4, <1>5, <1>6 DEF ConnInv

LEMMA AcceptLookStep ==
  ASSUME ConnInv, AcceptLooks
  PROVE  ConnInv'
<1>1. /\ apc = "check" /\ apc' \in {"sleep", "dequeue"} /\ (apc' = "dequeue" => accept_queue # <<>>)
      /\ AcceptStep(apc') /\ UNCHANGED <<connVars, accept_queue, wait_accept, accepted>>
  BY DEF AcceptLooks, AcceptStep
<1>2. QueueInv /\ accepted = {} /\ wait_accept \in Wait
  BY <1>1 DEF ConnInv, AppInv, QueueInv
<1>3. UNCHANGED <<sock, rpc, queued>>
  BY <1>1 DEF connVars, AcceptStep
<1>4. QueuedOnce'
  BY <1>1, <1>2 DEF QueueInv, QueuedOnce
<1>5. QueueInv'
  BY <1>1, <1>2, <1>3, <1>4 DEF QueueInv, Fresh
<1> QED
  BY <1>1, <1>2, <1>5, ServerSteps

LEMMA AcceptDequeueStep ==
  ASSUME ConnInv, AcceptDequeues
  PROVE  ConnInv'
<1> DEFINE x == Head(accept_queue)
<1>1. /\ apc = "dequeue" /\ apc' = "popped" /\ AcceptStep(apc')
      /\ accepted' = {x} /\ accept_queue' = Tail(accept_queue)
      /\ UNCHANGED <<connVars, wait_accept>>
  BY DEF AcceptDequeues, AcceptStep
<1>2. /\ QueueInv /\ accepted = {} /\ accept_queue \in Seq(Child) /\ IsInjective(accept_queue)
      /\ accept_queue # <<>> /\ wait_accept \in Wait
  BY <1>1 DEF ConnInv, AppInv, QueueInv, QueuedOnce
<1>3. UNCHANGED <<sock, rpc, queued>>
  BY <1>1 DEF connVars, AcceptStep
<1>4. /\ accept_queue' \in Seq(Child) /\ x \in Child
      /\ IsInjective(accept_queue') /\ x \in ToSet(accept_queue)
      /\ ToSet(accept_queue') = ToSet(accept_queue) \ {x}
  <2>1. /\ Tail(accept_queue) \in Seq(Child) /\ Head(accept_queue) \in Child
        /\ IsInjective(Tail(accept_queue)) /\ Head(accept_queue) \in ToSet(accept_queue)
        /\ ToSet(Tail(accept_queue)) = ToSet(accept_queue) \ {Head(accept_queue)}
    BY <1>2, TailNew
  <2> QED
    BY <1>1, <2>1
<1>5. PICK k \in Child : k = x
  BY <1>4
<1> HIDE DEF x
<1>6. QueuedOnce'
  BY <1>1, <1>4 DEF QueuedOnce
<1>7. \A y \in ToSet(accept_queue') \cup accepted' :
        sock[y].snd_nxt # 0 /\ (sock[y].state # "SYN_RECV" \/ y \in queued)
  BY <1>1, <1>2, <1>4 DEF QueueInv, Fresh
<1>8. QueueInv'
  BY <1>1, <1>2, <1>3, <1>4, <1>5, <1>6, <1>7 DEF QueueInv, Fresh
<1> QED
  BY <1>1, <1>2, <1>8, ServerSteps

LEMMA AcceptWaitStep ==
  ASSUME ConnInv, AcceptSleeps \/ AcceptResumes
  PROVE  ConnInv'
<1>1. /\ apc \in {"sleep", "asleep"} /\ apc' \in {"check", "asleep"} /\ AcceptStep(apc')
      /\ wait_accept' = sleep_on(wait_accept) \/ wait_accept' = Resume(wait_accept)
      /\ UNCHANGED <<connVars, accept_queue, accepted>>
  <2>1. CASE AcceptSleeps
    BY <2>1 DEF AcceptSleeps, AcceptStep
  <2>2. CASE AcceptResumes
    BY <2>2 DEF AcceptResumes, AcceptStep
  <2> QED
    BY <2>1, <2>2
<1>2. wait_accept' \in Wait
  <2>1. wait_accept \in Wait
    BY DEF ConnInv, AppInv
  <2> QED
    BY <1>1, <2>1, WaitIs
<1>3. QueueInv /\ accepted = {} /\ UNCHANGED <<sock, rpc, queued>>
  BY <1>1 DEF ConnInv, QueueInv, connVars, AcceptStep
<1>4. QueuedOnce'
  BY <1>1, <1>3 DEF QueueInv, QueuedOnce
<1>5. QueueInv'
  BY <1>1, <1>3, <1>4 DEF QueueInv, Fresh
<1> QED
  BY <1>1, <1>2, <1>5, ServerSteps

LEMMA AcceptReturnStep ==
  ASSUME ConnInv, Up, AcceptReturns
  PROVE  ConnInv'
<1>1. apc = "popped" /\ apc' = "up" /\ UNCHANGED <<rpc, queued, giving, torn>>
  BY DEF AcceptReturns, AcceptStep
<1>2. PICK x \in Child : accepted = {x}
  BY <1>1 DEF ConnInv, QueueInv
<1> DEFINE s == [sock[x] EXCEPT !.state = "ESTABLISHED"]
           t == IF Hash(x) = hl THEN s ELSE Hold(s)
<1>3. x = CHOOSE y \in accepted : TRUE
  BY <1>2
<1>4. /\ sock' = [sock EXCEPT ![x] = t] /\ hl' = Hash(x)
      /\ UNCHANGED <<tl, net, clientVars, accept_queue, wait_accept, accepted>>
  BY <1>3 DEF AcceptReturns, AcceptStep
<1>5. /\ x \in Sock /\ x \notin Client /\ TableOf(x) = Table
      /\ sock[x] \in Counted /\ ~sock[x].freed /\ ~Fresh(x) /\ QueueInv
  BY <1>2, Heads DEF ConnInv, SockInv, QueueInv, Up
<1>6. /\ s \in Counted /\ s.state = "ESTABLISHED" /\ ~s.freed /\ s.snd_nxt = sock[x].snd_nxt
  <2>1. "ESTABLISHED" \in States
    BY DEF States
  <2> QED
    BY <1>5, <2>1, StateIs
<1> HIDE DEF s
<1>7. t \in Counted /\ t.state = "ESTABLISHED" /\ t.snd_nxt # 0
  <2>1. Hold(s) \in Counted /\ Hold(s).state = "ESTABLISHED" /\ Hold(s).snd_nxt = s.snd_nxt
    BY <1>6, HoldIs
  <2> QED
    BY <1>5, <1>6, <2>1 DEF Fresh
<1> HIDE DEF t
<1>8. sock'[x] = t /\ \A y \in Sock : y # x => sock'[y] = sock[y]
  BY <1>4, <1>5 DEF ConnInv, SockInv
<1>9. /\ \A y \in Child : y # x => sock'[y] = sock[y]
      /\ \A y \in Client : sock'[y] = sock[y]
  BY <1>5, <1>8, Heads
<1>10. SockInv'
  BY <1>4, <1>5, <1>7, SockChange
<1>11. HashInv /\ hl \in Memory(HashNode)
  BY DEF ConnInv, AppInv
<1>12. /\ hl' \in Memory(HashNode) /\ Bucket(hl', Table, Child) /\ Bucket(hl', CTable, Client)
       /\ hl'.next[Table] \in {x, hl.next[Table]} /\ hl'.next[CTable] = hl.next[CTable]
  BY <1>2, <1>4, <1>5, <1>11, HashIs
<1>13. UNCHANGED <<running, unused, cpc, wait_connect>>
  BY <1>4 DEF clientVars
<1>14. \A y \in Child : ~Fresh(y) => /\ sock'[y].snd_nxt # 0
                                     /\ sock'[y].state = "SYN_RECV" => sock[y].state = "SYN_RECV"
  BY <1>7, <1>8, <1>9 DEF Fresh
<1>15. HashInv'
  <2>1. hl.next[Table] # Table => hl.next[Table] \in Child /\ ~Fresh(hl.next[Table])
    BY <1>11 DEF HashInv, Bucket
  <2>2. hl'.next[Table] # Table => sock'[hl'.next[Table]].snd_nxt # 0
    BY <1>5, <1>12, <1>14, <2>1
  <2>3. hl'.next[CTable] # CTable => hl'.next[CTable] \in running' /\ cpc' # "connect"
    BY <1>11, <1>12, <1>13 DEF HashInv
  <2> QED
    BY <1>12, <2>2, <2>3 DEF HashInv, Fresh
<1>16. QueueInv'
  <2>1. QueuedOnce'
    BY <1>4, <1>5 DEF QueueInv, QueuedOnce
  <2>2. \A y \in ToSet(accept_queue) \cup accepted : y \in Child
    BY <1>5 DEF QueueInv, ToSet, Range
  <2>3. \A y \in ToSet(accept_queue) \cup accepted :
          sock'[y].snd_nxt # 0 /\ (sock'[y].state # "SYN_RECV" \/ y \in queued)
    BY <1>5, <1>14, <2>2 DEF QueueInv
  <2>4. \A y \in Child : ~Fresh(y) => ~Fresh(y)'
    BY <1>14 DEF Fresh
  <2> QED
    BY <1>1, <1>2, <1>4, <1>5, <2>1, <2>3, <2>4 DEF QueueInv, Fresh
<1>17. ServerInv'
  <2>1. ~Done
    BY <1>1 DEF Done
  <2>2. NotYet(x)' => NotYet(x)
    BY <1>1, <1>2, <1>4, <1>7, <1>8 DEF NotYet, Fresh
  <2>3. ASSUME NEW y \in Child, NotYet(y)'  PROVE NotYet(y)
    <3>1. CASE y # x
      BY <1>1, <1>9, <2>3, <3>1 DEF NotYet, Fresh
    <3> QED
      BY <2>2, <2>3, <3>1
  <2>4. \A y \in Child : sock'[y].snd_nxt = 0 => sock'[y] = sock[y]
    BY <1>7, <1>8, <1>9
  <2> QED
    BY <1>4, <2>1, <2>3, <2>4, ServerSame
<1>18. ClientInv'
  BY <1>4, <1>9, <1>12, <1>13, ClientSame
<1>19. AppInv'
  BY <1>1, <1>4, <1>12, <1>13 DEF ConnInv, AppInv
<1> QED
  BY <1>10, <1>15, <1>16, <1>17, <1>18, <1>19 DEF ConnInv

-----------------------------------------------------------------------------
(* The specification *)

LEMMA InitStep == Init => ConnInv
<1> SUFFICES ASSUME Init PROVE ConnInv
  OBVIOUS
<1>1. /\ NewSock \in Counted /\ NewSock.state = "CLOSED" /\ NewSock.snd_nxt = 0
      /\ sock = [x \in Sock |-> NewSock] /\ running = {} /\ unused = Client
      /\ cpc = "exited" /\ wait_connect \in Wait /\ wait_accept \in Wait
      /\ accept_queue = <<>> /\ apc = "check" /\ accepted = {}
      /\ rpc = "ready" /\ queued = {} /\ giving = {} /\ torn = FALSE
  BY NewSockIs, WaitIs DEF Init
<1>2. /\ hl \in Memory(HashNode) /\ \A y \in HashNode : hl.next[y] = y /\ hl.prev[y] = y
      /\ tl \in Memory(TimerNode) /\ \A y \in TimerNode : tl.next[y] = y /\ tl.prev[y] = y
  BY DEF Init, init_list_head, Memory
<1>3. net \in Nets
  <2>1. net = [h \in Hosts |-> <<>>]
    BY DEF Init, Hosts
  <2>2. <<>> \in Seq(PacketType) /\ Len(<<>>) = 0
    OBVIOUS
  <2>3. \A h \in Hosts : LinkCap[h] \in Nat \ {0}
    BY ConnAssumption DEF Hosts
  <2> QED
    BY <2>1, <2>2, <2>3 DEF Nets, Hosts
<1>4. \A x \in Sock : sock[x] = NewSock
  BY <1>1
<1>5. SockInv
  BY <1>1, <1>4, Heads DEF SockInv
<1>6. AppInv
  BY <1>1, <1>2, <1>3 DEF AppInv
<1>7. <<>> \in Seq(Child) /\ Len(<<>>) = 0 /\ IsInjective(<<>>) /\ ToSet(<<>>) = {}
  BY DEF IsInjective, ToSet
<1>8. QueueInv
  BY <1>1, <1>7 DEF QueueInv, QueuedOnce
<1>9. HashInv
  BY <1>2, Heads DEF HashInv, Bucket
<1>10. /\ InClient \in SUBSET TimerNode /\ InServer \in SUBSET TimerNode
       /\ CHead \in InClient /\ SHead \in InServer
  BY TimerNodes
<1>11. Closed(tl, InClient) /\ Closed(tl, InServer)
  BY <1>2, <1>10 DEF Closed
<1>12. /\ tl.next[CHead] = CHead /\ tl.prev[CHead] = CHead
       /\ Linked(tl, InServer, SHead, <<>>)
  <2> HIDE DEF CHead, SHead, InClient, InServer
  <2>1. tl.next[CHead] = CHead /\ tl.prev[CHead] = CHead /\ tl.next[SHead] = SHead /\ tl.prev[SHead] = SHead
    BY <1>2, <1>10
  <2> QED
    BY <2>1, EmptyIs
<1>13. ClientInv
  BY <1>1, <1>4, <1>11, <1>12, Heads DEF ClientInv
<1>14. Apart(Touched(tl, SHead, <<>>))
  <2>1. Touched(tl, SHead, <<>>) = {SHead}
    BY <1>2, <1>7, <1>10 DEF Touched
  <2> QED
    BY <2>1, TimerNodes DEF Apart
<1>15. ServerInv
  BY <1>4, <1>11, <1>12, <1>14, Heads DEF ServerInv
<1> QED
  BY <1>5, <1>6, <1>8, <1>9, <1>13, <1>15 DEF ConnInv

LEMMA NextStep == ConnInv /\ [Next]_vars => ConnInv'
<1> SUFFICES ASSUME ConnInv, [Next]_vars PROVE ConnInv'
  OBVIOUS
<1>1. CASE UNCHANGED vars
  <2>1. UNCHANGED <<sock, hl, tl, running, cpc, accept_queue, apc, accepted, rpc, queued,
                    net, unused, wait_connect, wait_accept, giving, torn>>
    BY <1>1 DEF vars, connVars, clientVars, threadVars
  <2>2. AppInv'
    BY <2>1 DEF ConnInv, AppInv
  <2> QED
    BY <2>1, <2>2, OnlyApp
<1>2. CASE Next
  <2>1. Up
    BY <1>2 DEF Next
  <2>2. CASE Receive
    <3>1. CASE RecvNobody("client", CTable)
      BY <3>1, Discards DEF RecvNobody, Hosts
    <3>2. CASE RecvNobody("server", Table)
      BY <3>2, Discards DEF RecvNobody, Hosts
    <3>3. CASE RecvListen
      BY <2>1, <3>3, ListenStep
    <3>4. ASSUME NEW x \in Sock, RecvSynRecv(x)  PROVE ConnInv'
      BY <2>1, <3>4, SynRecvStep
    <3>5. ASSUME NEW x \in Sock, RecvSynSent(x)  PROVE ConnInv'
      BY <2>1, <3>5, SynSentStep
    <3>6. ASSUME NEW x \in Sock, RecvEstablished(x)  PROVE ConnInv'
      BY <2>1, <3>6, EstablishedStep
    <3>7. ASSUME NEW x \in Sock, RecvLastAck(x)  PROVE ConnInv'
      BY <2>1, <3>7, LastAckStep
    <3>8. ASSUME NEW x \in Sock, RecvFinWait1(x) \/ RecvFinWait2(x)  PROVE ConnInv'
      BY <2>1, <3>8, FinWaitStep
    <3>9. ASSUME NEW x \in Sock, RecvIgnored(x)  PROVE ConnInv'
      BY <2>1, <3>9, IgnoredStep
    <3>10. CASE QueueWakes \/ QueueEstablishes
      BY <2>1, <3>10, QueueStep
    <3> QED
      BY <2>2, <3>1, <3>2, <3>3, <3>4, <3>5, <3>6, <3>7, <3>8, <3>9, <3>10 DEF Receive
  <2>3. CASE Timer
    <3>1. ASSUME NEW x \in Sock, NEW i \in DOMAIN sock[x].send_buf, Resend(x, i)  PROVE ConnInv'
      BY <2>1, <3>1, ResendStep
    <3>2. ASSUME NEW x \in Sock, NEW i \in DOMAIN sock[x].send_buf, GiveUp(x, i)  PROVE ConnInv'
      BY <2>1, <3>2, GiveUpStep
    <3>3. ASSUME NEW x \in Sock, TimewaitExpires(x)  PROVE ConnInv'
      BY <2>1, <3>3, TimewaitStep
    <3>4. ASSUME NEW x \in Sock, NEW i \in DOMAIN sock[x].send_buf, GiveUpChild(x, i)  PROVE ConnInv'
      BY <2>1, <3>4, GiveUpChildStep
    <3>5. CASE GivenUp
      BY <2>1, <3>5, GivenUpStep
    <3> QED
      BY <2>3, <3>1, <3>2, <3>3, <3>4, <3>5 DEF Timer
  <2>4. CASE ClientStarts
    BY <2>4, StartStep
  <2>5. CASE ClientApp
    BY <2>5, ConnectStep, ConnectWaitStep, ConnectReturnStep, ClientSendStep, CloseStep DEF ClientApp
  <2>6. CASE ClientKilled
    BY <2>6, KilledStep
  <2>7. CASE ServerApp
    BY <2>1, <2>7, AcceptLookStep, AcceptWaitStep, AcceptDequeueStep, AcceptReturnStep DEF ServerApp
  <2>8. ASSUME NEW h \in {"server", "client"}, Lose(h)  PROVE ConnInv'
    BY <2>8, Discards DEF Lose, Hosts
  <2>9. CASE ListsOverlap
    <3>1. torn' = TRUE /\ UNCHANGED <<sock, hl, tl, net, running, unused, cpc, wait_connect, accept_queue,
                                     wait_accept, apc, accepted, rpc, queued, giving>>
      BY <2>9 DEF ListsOverlap, connVars, clientVars
    <3>2. AppInv'
      BY <3>1 DEF ConnInv, AppInv
    <3> QED
      BY <3>1, <3>2, OnlyApp
  <2> QED
    BY <1>2, <2>2, <2>3, <2>4, <2>5, <2>6, <2>7, <2>8, <2>9 DEF Next
<1> QED
  BY <1>1, <1>2

(* The shapes of the lists and of the accept queue, and what they rest on, as long as
   no two calls on a list overlap (ListsOverlap stops the model): tcp_hash, tcp_unhash,
   tcp_set_timewait_timer and tcp_scan_timer_list keep them, in every other order. *)
LEMMA InvariantHolds == Spec => []ConnInv
BY InitStep, NextStep, PTL DEF Spec

LEMMA InvariantType == ConnInv => TypeOK
<1> SUFFICES ASSUME ConnInv PROVE TypeOK
  OBVIOUS
<1>1. ASSUME NEW x \in Sock
      PROVE  LET s == sock[x]
             IN  /\ s.state \in States
                 /\ s.snd_una \in Nat /\ s.snd_nxt \in Nat /\ s.rcv_nxt \in Nat
                 /\ s.send_buf \in Seq([pkt : PacketType, times : 1 .. MaxTimes + 1])
                 /\ s.got \in Nat /\ s.refs \in Int /\ s.freed = (s.refs <= 0)
  <2>1. sock[x] \in SockType /\ (sock[x].freed <=> sock[x].refs <= 0)
    BY DEF ConnInv, SockInv, Counted
  <2>2. sock[x].freed \in BOOLEAN
    BY <2>1 DEF SockType
  <2>3. sock[x].freed = (sock[x].refs <= 0)
    BY <2>1, <2>2
  <2> QED
    BY <2>1, <2>3 DEF SockType, Buffers
<1>2. /\ hl \in Memory(HashNode) /\ tl \in Memory(TimerNode)
      /\ \A h \in DOMAIN net : net[h] \in Seq(PacketType) /\ Len(net[h]) <= LinkCap[h]
      /\ running \subseteq Client /\ unused \subseteq Client
      /\ wait_connect \in Wait /\ wait_accept \in Wait
  BY DEF ConnInv, AppInv, Nets
<1>3. /\ accept_queue \in Seq(Child) /\ accepted \subseteq Child /\ queued \subseteq Child
      /\ rpc = "ready" <=> queued = {}
  BY DEF ConnInv, QueueInv
<1>4. giving \subseteq running /\ torn \in BOOLEAN
  BY DEF ConnInv, AppInv
<1> QED
  BY <1>1, <1>2, <1>3, <1>4 DEF TypeOK

(* A walk along a bucket. *)
LEMMA BucketEnds ==
  ASSUME NEW D, IsFiniteSet(D), NEW m \in Memory(D), NEW h \in D, NEW S \in SUBSET D, h \notin S,
         Bucket(m, h, S)
  PROVE  WalkEnds(m, h) /\ (m.next[h] # h => m.next[h] \in Entries(m, h))
<1>1. CASE m.next[h] = h
  <2>1. m.prev[h] = h
    BY <1>1 DEF Bucket
  <2>2. IsList(m, D, h, <<>>)
    BY <1>1, <2>1, EmptyIs DEF Linked
  <2> QED
    BY <1>1, <2>2, WalkIs
<1>2. CASE m.next[h] # h
  <2> DEFINE q == <<m.next[h]>>
  <2>1. m.next[h] \in S /\ m.next[m.next[h]] = h
    BY <1>2 DEF Bucket
  <2>2. q \in Seq(D) /\ Len(q) = 1 /\ q[1] = m.next[h] /\ DOMAIN q = 1 .. 1
    BY <2>1
  <2> HIDE DEF q
  <2>3. h \notin ToSet(q) /\ IsInjective(q)
    BY <1>2, <2>2 DEF ToSet, IsInjective
  <2>4. Place(h, q, 0) = h /\ Place(h, q, 1) = m.next[h] /\ Place(h, q, 2) = h
    BY <2>2 DEF Place
  <2>5. \A i \in 0 .. Len(q) : i = 0 \/ i = 1
    BY <2>2
  <2>6. \A i \in 0 .. Len(q) : m.next[Place(h, q, i)] = Place(h, q, i + 1)
    BY <2>1, <2>4, <2>5
  <2>7. IsList(m, D, h, q)
    BY <2>2, <2>3, <2>6 DEF IsList
  <2>8. m.next[h] \in ToSet(q)
    BY <2>2 DEF ToSet
  <2> QED
    BY <2>7, <2>8, WalkIs
<1> QED
  BY <1>1, <1>2

LEMMA InvariantWalks == ConnInv => WalksEnd
<1> SUFFICES ASSUME ConnInv PROVE WalksEnd
  OBVIOUS
<1>1. /\ hl \in Memory(HashNode) /\ Bucket(hl, Table, Child) /\ Bucket(hl, CTable, Client)
      /\ tl \in Memory(TimerNode)
  BY DEF ConnInv, AppInv, HashInv
<1>2. /\ Child \in SUBSET HashNode /\ Client \in SUBSET HashNode
      /\ Table \in HashNode /\ CTable \in HashNode /\ Table \notin Child /\ CTable \notin Client
  BY Heads
<1>3. WalkEnds(hl, Table) /\ WalkEnds(hl, CTable)
  BY <1>1, <1>2, BucketEnds, Finite
<1>4. WalkEnds(tl, SHead)
  <2>1. PICK q : Linked(tl, InServer, SHead, q) \/ Bent(tl, InServer, SHead, q)
    BY DEF ConnInv, ServerInv
  <2>2. IsList(tl, InServer, SHead, q)
    BY <2>1 DEF Linked, Bent
  <2> QED
    BY <2>2, ServerTimers DEF ConnInv
<1>5. WalkEnds(tl, CHead)
  BY ClientTimers DEF ConnInv
<1> QED
  BY <1>3, <1>4, <1>5 DEF WalksEnd, SHead, CHead

(* The sockets, packets, lists and queues keep their types, and a socket is freed
   exactly when free_tcp_sock has taken its last reference. *)
THEOREM TypesHold == Spec => []TypeOK
BY InvariantHolds, InvariantType, PTL

(* tcp_sock_accept is handed no connection twice, as long as accept does not use the
   queue while tcp_process appends to it: a socket enters the queue on its way out of
   SYN_RECV, before the receiving thread looks at another packet, and whatever the
   timer thread and accept make of it meanwhile, it never is in SYN_RECV again. *)
THEOREM QueuesOnce == Spec => []QueuedOnce
<1>1. ConnInv => QueuedOnce
  BY DEF ConnInv, QueueInv
<1> QED
  BY <1>1, InvariantHolds, PTL

(* list_for_each_entry gets back to its head in both tables and both timer lists,
   although list_delete_entry leaves the pointers of what it deletes, tcp_unhash is
   called again for a socket deleted, and accept and tcp_sock_close let a timer be
   armed twice: all this as long as no two threads are in calls on a list at once. *)
THEOREM WalksAreFinite == Spec => []WalksEnd
BY InvariantHolds, InvariantWalks, PTL

-----------------------------------------------------------------------------
(* One client *)

(* What follows is of a single connection: with a second client, what the first has
   left under way meets the next. *)
OneClient == \E k \in Client : Client = {k}

AtServer == net["server"]
AtClient == net["client"]

\* What the client sends, the numbers it has, what can only follow its segment of data,
\* and its FIN, which ends at n.
GoodUp(p) ==
  /\ p.kind \in {"SYN", "ACK", "PSH", "FIN", "RST"}
  /\ p.kind = "SYN" => p.seq = 1
  /\ p.kind = "PSH" => p.seq = 2
  /\ p.kind = "FIN" => p.seq >= 2
Past(p) == p.kind = "PSH" \/ SeqEnd(p) >= 3
Final(p, n) == p.kind = "PSH" \/ SeqEnd(p) = n

UpInOrder ==
  /\ \A i \in DOMAIN AtServer : GoodUp(AtServer[i])
  /\ \A i, j \in DOMAIN AtServer : i < j =>
       /\ AtServer[i].kind \in {"PSH", "FIN"} => Past(AtServer[j])
       /\ AtServer[i].kind = "FIN" => Final(AtServer[j], SeqEnd(AtServer[i]))

\* The child x has received a FIN: it has sent its own.
Ended(x) == sock[x].snd_nxt >= 3

AnyEnded == \E x \in Child : Ended(x)

\* A packet that the server sends: no data, and a FIN only once a child has ended.
GoodDown(p, ended) ==
  /\ p.kind # "PSH" /\ (p.kind = "SYNACK" => p.ack >= 2)
  /\ HasFin(p) => ended

Down ==
  /\ \A i \in DOMAIN AtClient : GoodDown(AtClient[i], AnyEnded)
  /\ \A x \in Child : \A i \in DOMAIN sock[x].send_buf :
       GoodDown(sock[x].send_buf[i].pkt, AnyEnded)

\* The child x, in state s, while S is on its way to the server and the server's bucket
\* begins with first.
ChildIs(x, s, S, first) ==
  /\ s.got \in {0, 1}
  /\ s.got = 1 => s.rcv_nxt >= 3 /\ \A i \in DOMAIN S : Past(S[i])
  /\ s.snd_nxt >= 3 => s.rcv_nxt >= 3 /\ \A i \in DOMAIN S : Final(S[i], s.rcv_nxt)
  /\ s.state \in {"SYN_RECV", "ESTABLISHED", "LAST_ACK"} => first = x
  /\ s.state = "LAST_ACK" => s.snd_nxt >= 3
  /\ s.state = "SYN_RECV" => ~ (s.snd_nxt >= 3)
  /\ s.snd_nxt # 0 => s.snd_nxt >= 2 /\ (first = x \/ s.snd_nxt >= 3)

OneChild ==
  /\ \A x, y \in Child : ~Fresh(x) /\ ~Fresh(y) => x = y
  /\ \A x \in Child : ChildIs(x, sock[x], AtServer, hl.next[Table])

\* No other node leads to the server's timer t.
Unlinked(t) == \A n \in InServer : n # t => tl.next[n] # t /\ tl.prev[n] # t

\* A child has received no FIN while it is put into the queue: the thread that would
\* handle it is busy with that.
StillOpen == \A x \in queued : ~Ended(x)

UntilFin == \A x \in Child : ~Ended(x) => Unlinked(Timewait(x))

\* Before the client has been started.
Quiet == /\ AtServer = <<>> /\ wait_connect = wait_init
         /\ accept_queue = <<>> /\ accepted = {}
         /\ \A x \in Child : Fresh(x)

Waiting == {"connect", "sleep", "asleep"}
Early == Waiting \cup {"woken", "ack"}

\* What the client's application and its socket, with the state st and the buffers b,
\* have to do with each other.
StateIsAt(pc, st) ==
  /\ pc \in {"connect", "sleep", "asleep", "woken"} => st \in {"CLOSED", "SYN_SENT"}
  /\ pc \in {"ack", "write", "close", "closing"} => st \in {"CLOSED", "ESTABLISHED"}
  /\ pc \in {"fin", "closed"} => st \in {"CLOSED", "FIN_WAIT_1", "FIN_WAIT_2", "TIME_WAIT"}

BuffersAt(pc, b, nxt) ==
  /\ \A i \in DOMAIN b : /\ b[i].pkt.kind \in {"SYN", "PSH", "FIN"} /\ GoodUp(b[i].pkt)
                         /\ b[i].pkt.kind = "FIN" => pc = "closed" /\ SeqEnd(b[i].pkt) = nxt
                         /\ b[i].pkt.kind = "PSH" => pc \notin Early \cup {"write"} /\ nxt >= 3
  /\ pc \in Early => Len(b) <= 1
  /\ pc = "connect" => DOMAIN b = {}

\* A SYN is not sent again once connect has been woken.
Quits(w, pc, b) ==
  /\ pc = "connect" => ~Returns(w)
  /\ Returns(w) \/ pc \notin Waiting =>
       \A i \in DOMAIN b : b[i].pkt.kind = "SYN" => b[i].times > MaxTimes

\* The number that the client has reached.
NumberAt(pc, nxt) ==
  /\ pc \in Early \cup {"write"} => nxt = IF pc = "connect" THEN 0 ELSE 2
  /\ pc \notin Early \cup {"write"} => nxt >= 2

\* A packet on its way to the server, of a client that has reached nxt.
SentAt(p, pc, nxt) ==
  /\ p.kind \notin {"SYN", "RST"} => pc \notin Early
  /\ p.kind = "PSH" => pc \notin Early \cup {"write"} /\ nxt >= 3
  /\ p.kind = "FIN" => pc = "closed" /\ SeqEnd(p) = nxt

\* What the server has made of it.
ReachedAt(pc, nxt) ==
  /\ \A x \in Child : /\ sock[x].got = 1 => pc \notin Early \cup {"write"} /\ nxt >= 3
                      /\ Ended(x) => pc = "closed" /\ sock[x].rcv_nxt = nxt
  /\ pc \in Early => accept_queue = <<>> /\ accepted = {}

ClientRuns(k) ==
  /\ cpc \in Early \cup {"write", "close", "closing", "fin", "closed"}
  /\ StateIsAt(cpc, sock[k].state)
  /\ sock[k].state = "TIME_WAIT" => AnyEnded
  /\ BuffersAt(cpc, sock[k].send_buf, sock[k].snd_nxt)
  /\ Quits(wait_connect, cpc, sock[k].send_buf)
  /\ NumberAt(cpc, sock[k].snd_nxt)
  /\ \A i \in DOMAIN AtServer : SentAt(AtServer[i], cpc, sock[k].snd_nxt)
  /\ ReachedAt(cpc, sock[k].snd_nxt)

OneInv == /\ UpInOrder /\ Down /\ OneChild /\ UntilFin /\ StillOpen
          /\ \A k \in unused : Quiet
          /\ \A k \in running : ClientRuns(k)

-----------------------------------------------------------------------------
(* What the operators do to the data *)

LEMMA Shift ==
  ASSUME NEW T, NEW q \in Seq(T), q # <<>>
  PROVE  /\ 1 \in DOMAIN q /\ Head(q) = q[1]
         /\ \A i \in DOMAIN Tail(q) : /\ i \in Nat /\ i + 1 \in DOMAIN q /\ 1 < i + 1
                                      /\ Tail(q)[i] = q[i + 1]
<1>1. Len(q) \in Nat \ {0} /\ DOMAIN q = 1 .. Len(q) /\ Head(q) = q[1]
  OBVIOUS
<1>2. /\ Tail(q) \in Seq(T) /\ Len(Tail(q)) = Len(q) - 1
      /\ \A i \in 1 .. Len(q) - 1 : Tail(q)[i] = q[i + 1]
  BY <1>1
<1>3. DOMAIN Tail(q) = 1 .. Len(q) - 1
  BY <1>2
<1> QED
  BY <1>1, <1>2, <1>3

\* The queue r is q, or q with p at its end.
Grown(r, q, p) ==
  \A i \in DOMAIN r : /\ i \in Nat
                      /\ \/ i \in DOMAIN q /\ r[i] = q[i]
                         \/ r[i] = p /\ \A j \in DOMAIN r : j <= i

LEMMA TransmitGrows ==
  ASSUME NEW n \in Nets, NEW h \in Hosts, NEW p \in PacketType
  PROVE  /\ Grown(Transmit(n, h, <<p>>)[h], n[h], p)
         /\ Transmit(n, h, <<>>)[h] = n[h]
         /\ \A ps : \A g \in Hosts : g # h => Transmit(n, h, ps)[g] = n[g]
<1>1. n[h] \in Seq(PacketType) /\ n \in [Hosts -> Seq(PacketType)] /\ Len(n[h]) <= LinkCap[h]
  BY DEF Nets, Hosts
<1>2. LinkCap[h] \in Nat
  BY ConnAssumption DEF Hosts
<1> DEFINE q == n[h]
           c == LinkCap[h]
           all == q \o <<p>>
           r == IF Len(all) <= c THEN all ELSE SubSeq(all, 1, c)
<1>3. Transmit(n, h, <<p>>)[h] = r
  BY <1>1 DEF Transmit, Hosts
<1>4. /\ all \in Seq(PacketType) /\ Len(all) = Len(q) + 1 /\ Len(q) \in Nat
      /\ DOMAIN q = 1 .. Len(q)
      /\ \A i \in 1 .. Len(q) : all[i] = q[i]
      /\ all[Len(q) + 1] = p
  BY <1>1
<1> HIDE DEF q, c, all
<1>5. Grown(r, q, p)
  <2>1. CASE Len(all) <= c
    <3>1. r = all /\ DOMAIN r = 1 .. Len(q) + 1
      BY <1>4, <2>1
    <3>2. \A i \in 1 .. Len(q) + 1 : i \in Nat /\ (i \in 1 .. Len(q) \/ i = Len(q) + 1)
      BY <1>4
    <3>3. \A j \in 1 .. Len(q) + 1 : j <= Len(q) + 1
      BY <1>4
    <3> HIDE DEF r
    <3> QED
      BY <1>4, <3>1, <3>2, <3>3 DEF Grown
  <2>2. CASE ~ (Len(all) <= c)
    <3>1. c \in 0 .. Len(q)
      BY <1>1, <1>2, <1>4, <2>2 DEF q, c
    <3>2. r = SubSeq(all, 1, c) /\ DOMAIN r = 1 .. c /\ \A i \in 1 .. c : r[i] = all[i]
      <4>1. \A i \in 1 .. c : i \in 1 .. Len(all)
        BY <1>4, <3>1
      <4>2. SubSeq(all, 1, c) \in Seq(PacketType) /\ Len(SubSeq(all, 1, c)) = c
            /\ \A i \in 1 .. c : SubSeq(all, 1, c)[i] = all[i]
        BY <1>4, <3>1, <4>1
      <4>3. r = SubSeq(all, 1, c)
        BY <2>2
      <4> HIDE DEF r
      <4> QED
        BY <4>2, <4>3
    <3>3. \A i \in 1 .. c : i \in Nat /\ i \in 1 .. Len(q)
      BY <1>4, <3>1
    <3> HIDE DEF r
    <3> QED
      BY <1>4, <3>2, <3>3 DEF Grown
  <2> QED
    BY <2>1, <2>2
<1>6. Transmit(n, h, <<>>)[h] = n[h]
  <2>1. n[h] \o <<>> = n[h]
    BY <1>1
  <2> QED
    BY <1>1, <2>1 DEF Transmit, Hosts
<1>7. \A ps : \A g \in Hosts : g # h => Transmit(n, h, ps)[g] = n[g]
  BY <1>1 DEF Transmit
<1> QED
  BY <1>3, <1>5, <1>6, <1>7 DEF q

\* What a packet does to the data of a socket before its state is looked at.
LEMMA AcknowledgedHas ==
  ASSUME NEW s \in Counted, NEW p \in PacketType
  PROVE  LET t == Acknowledged(s, p)
         IN  /\ t.got = s.got /\ t.rcv_nxt = IF p.kind = "PSH" THEN s.rcv_nxt ELSE SeqEnd(p)
             /\ \A i \in DOMAIN t.send_buf : \E j \in DOMAIN s.send_buf : t.send_buf[i] = s.send_buf[j]
             /\ Len(t.send_buf) <= Len(s.send_buf)
             /\ HasAck(p) /\ (\A i \in DOMAIN s.send_buf : SeqEnd(s.send_buf[i].pkt) <= p.ack)
                  => DOMAIN t.send_buf = {}
<1> DEFINE l == Len(s.send_buf)
           S == {k \in 0 .. l : \A i \in 1 .. k : SeqEnd(s.send_buf[i].pkt) <= p.ack}
           n == IF HasAck(p) THEN Max(S) ELSE 0
           u == IF n = 0 THEN s.snd_una ELSE SeqEnd(s.send_buf[n].pkt)
           b == SubSeq(s.send_buf, n + 1, l)
           r == IF p.kind = "PSH" THEN s.rcv_nxt ELSE SeqEnd(p)
<1>1. s \in SockType /\ s.send_buf \in Seq(Buffers) /\ l \in Nat /\ DOMAIN s.send_buf = 1 .. l
  BY DEF Counted, SockType
<1>2. Acknowledged(s, p) = [s EXCEPT !.rcv_nxt = r, !.snd_una = u, !.send_buf = b]
  BY DEF Acknowledged
<1>3. /\ n \in 0 .. l
      /\ HasAck(p) /\ (\A i \in DOMAIN s.send_buf : SeqEnd(s.send_buf[i].pkt) <= p.ack) => n = l
  <2>1. 0 \in S /\ S \in SUBSET (0 .. l)
    BY <1>1
  <2>2. (\A i \in DOMAIN s.send_buf : SeqEnd(s.send_buf[i].pkt) <= p.ack) => l \in S
    BY <1>1
  <2> HIDE DEF S, l
  <2>3. Max(S) \in S /\ \A y \in S : Max(S) >= y
    BY <1>1, <2>1, GreatestIs
  <2>4. Max(S) \in 0 .. l /\ 0 \in 0 .. l
    BY <2>1, <2>3
  <2>5. l \in S => Max(S) = l
    <3>1. Max(S) >= l /\ Max(S) <= l => Max(S) = l
      BY <1>1, <2>4
    <3> QED
      BY <1>1, <2>3, <2>4, <3>1
  <2> QED
    BY <2>2, <2>4, <2>5
<1> HIDE DEF n, l, u, r
<1>4. /\ DOMAIN b = 1 .. l - n /\ Len(b) = l - n
      /\ \A i \in 1 .. l - n : n + i \in 1 .. l /\ b[i] = s.send_buf[n + i]
  <2>1. n + 1 \in Nat /\ \A i \in n + 1 .. l : i \in 1 .. l
    BY <1>1, <1>3
  <2>2. \A i \in n + 1 .. l : s.send_buf[i] \in Buffers
    BY <1>1, <2>1
  <2>3. b \in Seq(Buffers) /\ Len(b) = l - n /\ \A i \in 1 .. l - n : b[i] = s.send_buf[n + i]
    BY <1>1, <1>3, <2>1, <2>2
  <2> HIDE DEF b
  <2>4. \A i \in 1 .. l - n : n + i \in 1 .. l
    BY <1>1, <1>3
  <2> QED
    BY <2>3, <2>4
<1> HIDE DEF b
<1>5. LET t == Acknowledged(s, p) IN t.got = s.got /\ t.rcv_nxt = r /\ t.send_buf = b
  BY <1>1, <1>2 DEF SockType
<1>6. \A i \in DOMAIN b : \E j \in DOMAIN s.send_buf : b[i] = s.send_buf[j]
  BY <1>1, <1>4
<1>7. Len(b) <= l
  BY <1>1, <1>3, <1>4
<1>8. n = l => DOMAIN b = {}
  BY <1>1, <1>4
<1> QED
  BY <1>3, <1>5, <1>6, <1>7, <1>8 DEF r, l

LEMMA AcceptHas ==
  ASSUME NEW s \in Counted, NEW p
  PROVE  /\ Accept(s, p).send_buf = s.send_buf
         /\ \/ Accept(s, p).got = s.got /\ Accept(s, p).rcv_nxt = s.rcv_nxt
            \/ /\ p.seq = s.rcv_nxt
               /\ Accept(s, p).got = s.got + 1 /\ Accept(s, p).rcv_nxt = s.rcv_nxt + 1
<1>1. s \in SockType
  BY DEF Counted
<1> QED
  BY <1>1 DEF Accept, SockType

LEMMA StateHas ==
  ASSUME NEW s \in Counted, NEW st
  PROVE  LET t == [s EXCEPT !.state = st]
         IN  t.got = s.got /\ t.rcv_nxt = s.rcv_nxt /\ t.send_buf = s.send_buf
BY DEF Counted, SockType

LEMMA HoldHas ==
  ASSUME NEW s \in Counted
  PROVE  /\ Hold(s).got = s.got /\ Hold(s).rcv_nxt = s.rcv_nxt /\ Hold(s).send_buf = s.send_buf
         /\ \A x : /\ Unhashed(s, x).got = s.got /\ Unhashed(s, x).rcv_nxt = s.rcv_nxt
                   /\ Unhashed(s, x).send_buf = s.send_buf
                   /\ Unhashed(s, x).snd_nxt = s.snd_nxt /\ Unhashed(s, x).state = s.state
         /\ \A x : /\ Unbound(s, x).got = s.got /\ Unbound(s, x).rcv_nxt = s.rcv_nxt
                   /\ Unbound(s, x).send_buf = s.send_buf
                   /\ Unbound(s, x).snd_nxt = s.snd_nxt /\ Unbound(s, x).state = s.state
BY DEF Counted, SockType, Hold, Release, Unhashed, Unbound

LEMMA SentHas ==
  ASSUME NEW s \in Counted, NEW kind \in Kinds \ {"ACK", "RST"}
  PROVE  /\ Sent(s, kind).got = s.got /\ Sent(s, kind).rcv_nxt = s.rcv_nxt
         /\ Sent(s, kind).snd_nxt = s.snd_nxt + 1
         /\ Len(Sent(s, kind).send_buf) = Len(s.send_buf) + 1
         /\ \A i \in DOMAIN Sent(s, kind).send_buf :
              \/ i \in DOMAIN s.send_buf /\ Sent(s, kind).send_buf[i] = s.send_buf[i]
              \/ Sent(s, kind).send_buf[i].pkt = Packet(s, kind)
<1> DEFINE b == [pkt |-> Packet(s, kind), times |-> 1]
           c == Append(s.send_buf, b)
<1>1. s \in SockType /\ s.send_buf \in Seq(Buffers)
  BY DEF Counted, SockType
<1>2. Sent(s, kind) = [s EXCEPT !.snd_nxt = @ + 1, !.send_buf = c]
  BY DEF Sent
<1>3. b \in Buffers
  <2>1. Packet(s, kind) \in PacketType /\ 1 \in 1 .. MaxTimes + 1
    BY <1>1, PacketIs, ConnAssumption
  <2> QED
    BY <2>1 DEF Buffers
<1> HIDE DEF b
<1>4. /\ Len(c) = Len(s.send_buf) + 1
      /\ \A i \in DOMAIN c : (i \in DOMAIN s.send_buf /\ c[i] = s.send_buf[i]) \/ c[i] = b
  <2>1. /\ c \in Seq(Buffers) /\ Len(c) = Len(s.send_buf) + 1 /\ Len(s.send_buf) \in Nat
        /\ DOMAIN s.send_buf = 1 .. Len(s.send_buf)
        /\ \A i \in 1 .. Len(s.send_buf) : c[i] = s.send_buf[i]
        /\ c[Len(s.send_buf) + 1] = b
    BY <1>1, <1>3
  <2> HIDE DEF c
  <2>2. \A i \in DOMAIN c : i \in 1 .. Len(s.send_buf) \/ i = Len(s.send_buf) + 1
    BY <2>1
  <2> QED
    BY <2>1, <2>2
<1>5. b.pkt = Packet(s, kind)
  BY DEF b
<1> HIDE DEF c
<1>6. /\ Sent(s, kind).got = s.got /\ Sent(s, kind).rcv_nxt = s.rcv_nxt
      /\ Sent(s, kind).snd_nxt = s.snd_nxt + 1 /\ Sent(s, kind).send_buf = c
  BY <1>1, <1>2 DEF SockType
<1> QED
  BY <1>4, <1>5, <1>6

LEMMA SomeoneElseAdded ==
  ASSUME ConnInv, NEW t \in InServer, t # SHead, tl' = list_add_tail(tl, t, SHead),
         NEW u \in InServer, u # t, u # SHead, Unlinked(u)
  PROVE  Unlinked(u)'
<1>1. /\ tl \in Memory(TimerNode) /\ SHead \in TimerNode /\ SHead \in InServer
      /\ InServer \in SUBSET TimerNode
  BY TimerNodes DEF ConnInv, AppInv
<1>2. /\ \A y \in TimerNode : tl'.next[y] = IF y = t THEN SHead ELSE IF y = tl.prev[SHead] THEN t ELSE tl.next[y]
      /\ \A y \in TimerNode : tl'.prev[y] = IF y = t THEN tl.prev[SHead] ELSE IF y = SHead THEN t ELSE tl.prev[y]
  BY <1>1, AddTailPointers
<1>3. tl.prev[SHead] # u
  BY <1>1 DEF Unlinked
<1>4. \A y \in InServer : y # u => tl'.next[y] # u /\ tl'.prev[y] # u
  BY <1>1, <1>2, <1>3 DEF Unlinked
<1> QED
  BY <1>4 DEF Unlinked, InServer, TimersIn

LEMMA SomeoneElseDeleted ==
  ASSUME ConnInv, NEW t \in InServer, tl' = list_delete_entry(tl, t),
         NEW u \in InServer, u # t, Unlinked(u)
  PROVE  Unlinked(u)'
<1>1. tl \in Memory(TimerNode) /\ InServer \in SUBSET TimerNode
  BY TimerNodes DEF ConnInv, AppInv
<1>2. /\ \A y \in TimerNode : tl'.next[y] = IF y = tl.prev[t] THEN tl.next[t] ELSE tl.next[y]
      /\ \A y \in TimerNode : tl'.prev[y] = IF y = tl.next[t] THEN tl.prev[t] ELSE tl.prev[y]
  BY <1>1, DeletePointers
<1>3. tl.next[t] # u /\ tl.prev[t] # u
  BY DEF Unlinked
<1>4. \A y \in InServer : y # u => tl'.next[y] # u /\ tl'.prev[y] # u
  BY <1>1, <1>2, <1>3 DEF Unlinked
<1> QED
  BY <1>4 DEF Unlinked, InServer, TimersIn

\* What is not linked is not in the list.
LEMMA UnlinkedIs ==
  ASSUME ConnInv, NEW x \in Child, Unlinked(Timewait(x))
  PROVE  ~Armed(Timewait(x), x)
<1>1. PICK q : Linked(tl, InServer, SHead, q) \/ Bent(tl, InServer, SHead, q)
  BY DEF ConnInv, ServerInv
<1>2. IsList(tl, InServer, SHead, q)
  BY <1>1 DEF Linked, Bent
<1> DEFINE t == Timewait(x)
<1>3. t \in InServer /\ t # SHead /\ SHead \in InServer
  BY TimerNodes
<1>4. SUFFICES ASSUME t \in ToSet(q)  PROVE FALSE
  BY <1>2, ServerTimers DEF ConnInv
<1>5. PICK i \in 1 .. Len(q) : q[i] = t
  BY <1>2, <1>4, ListType
<1>6. /\ Len(q) \in Nat /\ Place(SHead, q, 0) = SHead
      /\ \A j \in 1 .. Len(q) : q[j] \in InServer /\ Place(SHead, q, j) = q[j]
      /\ \A j, k \in 1 .. Len(q) : q[j] = q[k] => j = k
      /\ \A j \in 0 .. Len(q) : tl.next[Place(SHead, q, j)] = Place(SHead, q, j + 1)
  <2>1. \A j \in 0 .. Len(q) : tl.next[Place(SHead, q, j)] = Place(SHead, q, j + 1)
    BY <1>2 DEF IsList
  <2> QED
    BY <1>2, <2>1, ListType
<1> DEFINE n == Place(SHead, q, i - 1)
<1>7. i - 1 \in 0 .. Len(q) /\ i - 1 + 1 = i /\ (i - 1 = 0 \/ i - 1 \in 1 .. Len(q)) /\ i - 1 # i
  BY <1>5, <1>6
<1>8. n \in InServer /\ n # t
  <2>1. CASE i - 1 = 0
    BY <1>3, <1>6, <2>1
  <2>2. CASE i - 1 \in 1 .. Len(q)
    BY <1>5, <1>6, <1>7, <2>2
  <2> QED
    BY <1>7, <2>1, <2>2
<1>9. tl.next[n] = t
  BY <1>5, <1>6, <1>7
<1> QED
  BY <1>8, <1>9 DEF Unlinked

LEMMA OnlyIs ==
  ASSUME ConnInv, OneClient, NEW k \in running
  PROVE  k \in Client /\ k \notin Child /\ Client = {k} /\ running = {k} /\ unused = {}
BY Heads DEF OneClient, ConnInv, AppInv

\* What handling a packet does to the sockets and the links.
LEMMA BecomesIs ==
  ASSUME ConnInv, NEW x \in Sock, NEW p, For(x, p), NEW s, NEW ps, Becomes(x, s, ps)
  PROVE  /\ sock'[x] = s /\ \A y \in Sock : y # x => sock'[y] = sock[y]
         /\ net[HostOf(x)] # <<>> /\ p = net[HostOf(x)][1] /\ 1 \in DOMAIN net[HostOf(x)]
         /\ net'[HostOf(x)] = Tail(net[HostOf(x)])
         /\ ps = <<>> => net'[Peer(x)] = net[Peer(x)]
         /\ \A q \in PacketType : ps = <<q>> => Grown(net'[Peer(x)], net[Peer(x)], q)
<1>1. sock' = [sock EXCEPT ![x] = s] /\ net' = Transmit([net EXCEPT ![HostOf(x)] = Tail(@)], Peer(x), ps)
  BY DEF Becomes
<1>2. sock'[x] = s /\ \A y \in Sock : y # x => sock'[y] = sock[y]
  BY <1>1 DEF ConnInv, SockInv
<1>3. HostOf(x) \in Hosts /\ Peer(x) \in Hosts /\ HostOf(x) # Peer(x)
  BY DEF HostOf, Peer, Hosts
<1>4. net \in Nets /\ net[HostOf(x)] # <<>> /\ p = Head(net[HostOf(x)])
  BY DEF ConnInv, AppInv, For
<1> DEFINE n == [net EXCEPT ![HostOf(x)] = Tail(@)]
<1>5. n \in Nets /\ p \in PacketType
  BY <1>3, <1>4, TakenIs
<1>6. net[HostOf(x)] \in Seq(PacketType) /\ DOMAIN net = Hosts
  BY <1>3, <1>4 DEF Nets, Hosts
<1>7. p = net[HostOf(x)][1] /\ 1 \in DOMAIN net[HostOf(x)]
  BY <1>4, <1>6, Shift
<1>8. n[HostOf(x)] = Tail(net[HostOf(x)]) /\ n[Peer(x)] = net[Peer(x)]
  BY <1>3, <1>6
<1> HIDE DEF n
<1>9. net' = Transmit(n, Peer(x), ps)
  BY <1>1 DEF n
<1>10. net'[HostOf(x)] = Tail(net[HostOf(x)])
  <2>1. Transmit(n, Peer(x), ps)[HostOf(x)] = n[HostOf(x)]
    <3>1. PICK q \in PacketType : q = p
      BY <1>5
    <3> QED
      BY <1>3, <1>5, <3>1, TransmitGrows
  <2> QED
    BY <1>8, <1>9, <2>1
<1>11. ps = <<>> => net'[Peer(x)] = net[Peer(x)]
  BY <1>3, <1>5, <1>8, <1>9, TransmitGrows
<1>12. ASSUME NEW q \in PacketType, ps = <<q>>  PROVE Grown(net'[Peer(x)], net[Peer(x)], q)
  BY <1>3, <1>5, <1>8, <1>9, <1>12, TransmitGrows
<1> QED
  BY <1>2, <1>4, <1>7, <1>10, <1>11, <1>12

\* A packet sent by itself.
LEMMA SendsIs ==
  ASSUME ConnInv, NEW h \in Hosts, NEW p \in PacketType, net' = Transmit(net, h, <<p>>)
  PROVE  Grown(net'[h], net[h], p) /\ \A g \in Hosts : g # h => net'[g] = net[g]
BY TransmitGrows DEF ConnInv, AppInv

-----------------------------------------------------------------------------
(* What a step has to say of the server, and of the client *)

\* The packets on their way to the server, when one is taken.
LEMMA OrderIs ==
  ASSUME ConnInv, UpInOrder, AtServer # <<>>
  PROVE  /\ 1 \in DOMAIN AtServer /\ Head(AtServer) = AtServer[1] /\ GoodUp(AtServer[1])
         /\ \A i \in DOMAIN Tail(AtServer) :
              /\ \E j \in DOMAIN AtServer : Tail(AtServer)[i] = AtServer[j]
              /\ AtServer[1].kind \in {"PSH", "FIN"} => Past(Tail(AtServer)[i])
              /\ AtServer[1].kind = "FIN" => Final(Tail(AtServer)[i], SeqEnd(AtServer[1]))
         /\ AtServer' = Tail(AtServer) => UpInOrder'
<1> DEFINE S == AtServer
           R == Tail(AtServer)
<1>1. S \in Seq(PacketType)
  BY DEF ConnInv, AppInv, Nets, AtServer
<1>2. /\ 1 \in DOMAIN S /\ Head(S) = S[1]
      /\ \A i \in DOMAIN R : i \in Nat /\ i + 1 \in DOMAIN S /\ 1 < i + 1 /\ R[i] = S[i + 1]
  <2> HIDE DEF S
  <2> QED
    BY <1>1, Shift DEF S
<1>3. /\ \A i \in DOMAIN S : GoodUp(S[i])
      /\ \A i, j \in DOMAIN S : i < j =>
           /\ S[i].kind \in {"PSH", "FIN"} => Past(S[j])
           /\ S[i].kind = "FIN" => Final(S[j], SeqEnd(S[i]))
  BY DEF UpInOrder
<1> HIDE DEF S, R
<1>4. ASSUME NEW i \in DOMAIN R
      PROVE  /\ \E j \in DOMAIN S : R[i] = S[j]
             /\ S[1].kind \in {"PSH", "FIN"} => Past(R[i])
             /\ S[1].kind = "FIN" => Final(R[i], SeqEnd(S[1]))
  BY <1>2, <1>3
<1>5. ASSUME NEW i \in DOMAIN R, NEW j \in DOMAIN R, i < j
      PROVE  /\ R[i].kind \in {"PSH", "FIN"} => Past(R[j])
             /\ R[i].kind = "FIN" => Final(R[j], SeqEnd(R[i]))
  <2>1. i + 1 \in DOMAIN S /\ j + 1 \in DOMAIN S /\ R[i] = S[i + 1] /\ R[j] = S[j + 1] /\ i + 1 < j + 1
    BY <1>2, <1>5
  <2> QED
    BY <1>3, <2>1
<1>6. \A i \in DOMAIN R : GoodUp(R[i])
  BY <1>3, <1>4
<1>7. AtServer' = R => UpInOrder'
  BY <1>5, <1>6 DEF UpInOrder
<1> QED
  BY <1>2, <1>3, <1>4, <1>7 DEF S, R

LEMMA FreshIs ==
  ASSUME ConnInv, OneInv, NEW x \in Child
  PROVE  /\ Fresh(x) => sock[x] = NewSock
         /\ ~Fresh(x) => \A y \in Child : y # x => Fresh(y)
BY DEF ConnInv, ServerInv, OneInv, OneChild

\* Nobody is about to begin while a packet is on its way or a child is in use.
LEMMA NotQuiet ==
  ASSUME OneInv, ~Quiet
  PROVE  unused = {}
BY DEF OneInv

\* A step of the server that changes its child x and nothing of the client.
LEMMA ServerDoes ==
  ASSUME ConnInv, ConnInv', OneInv, unused = {}, NEW x \in Child,
         \A y \in Child : y # x => Fresh(y) /\ sock'[y] = sock[y],
         \A y \in Client : sock'[y] = sock[y],
         UNCHANGED clientVars,
         AtServer' = AtServer \/ (AtServer # <<>> /\ AtServer' = Tail(AtServer)),
         ChildIs(x, sock'[x], AtServer', hl'.next[Table]),
         Ended(x) => sock'[x].snd_nxt >= 3,
         \A i \in DOMAIN AtClient' : \/ \E j \in DOMAIN AtClient : AtClient'[i] = AtClient[j]
                                     \/ GoodDown(AtClient'[i], sock'[x].snd_nxt >= 3),
         \A i \in DOMAIN sock'[x].send_buf :
           \/ \E j \in DOMAIN sock[x].send_buf : sock'[x].send_buf[i].pkt = sock[x].send_buf[j].pkt
           \/ GoodDown(sock'[x].send_buf[i].pkt, sock'[x].snd_nxt >= 3),
         \A y \in Child : ~ (sock'[y].snd_nxt >= 3) /\ Unlinked(Timewait(y)) => Unlinked(Timewait(y))',
         sock'[x].got = 1 => sock[x].got = 1 \/ \E i \in DOMAIN AtServer : AtServer[i].kind = "PSH",
         sock'[x].snd_nxt >= 3 =>
           \/ Ended(x) /\ sock'[x].rcv_nxt = sock[x].rcv_nxt
           \/ \E i \in DOMAIN AtServer : AtServer[i].kind = "FIN" /\ sock'[x].rcv_nxt = SeqEnd(AtServer[i]),
         \/ accept_queue = <<>> /\ accepted = {} => accept_queue' = <<>> /\ accepted' = {}
         \/ \E i \in DOMAIN AtServer : AtServer[i].kind \notin {"SYN", "RST"},
         \A y \in queued' : ~ (sock'[y].snd_nxt >= 3)
  PROVE  OneInv'
<1>1. UpInOrder /\ Down /\ OneChild /\ UntilFin /\ \A k \in running : ClientRuns(k)
  BY DEF OneInv
<1>2. UNCHANGED <<running, unused, cpc, wait_connect>>
  BY DEF clientVars
<1>3. \A i \in DOMAIN AtServer' : \E j \in DOMAIN AtServer : AtServer'[i] = AtServer[j]
  BY <1>1, OrderIs
<1>4. UpInOrder'
  <2>1. CASE AtServer' = AtServer
    BY <1>1, <2>1 DEF UpInOrder
  <2>2. CASE AtServer # <<>> /\ AtServer' = Tail(AtServer)
    BY <1>1, <2>2, OrderIs
  <2> QED
    BY <2>1, <2>2
<1>5. AnyEnded => AnyEnded'
  BY DEF AnyEnded, Ended
<1>6. sock'[x].snd_nxt >= 3 => AnyEnded'
  BY DEF AnyEnded, Ended
<1>7. \A p : GoodDown(p, AnyEnded) \/ GoodDown(p, sock'[x].snd_nxt >= 3) => GoodDown(p, AnyEnded')
  BY <1>5, <1>6 DEF GoodDown
<1>8. Down'
  <2>1. \A i \in DOMAIN AtClient' : GoodDown(AtClient'[i], AnyEnded')
    BY <1>1, <1>7 DEF Down
  <2>2. \A i \in DOMAIN sock'[x].send_buf : GoodDown(sock'[x].send_buf[i].pkt, AnyEnded')
    BY <1>1, <1>7 DEF Down
  <2>3. \A y \in Child : y # x => \A i \in DOMAIN sock'[y].send_buf : GoodDown(sock'[y].send_buf[i].pkt, AnyEnded')
    BY <1>1, <1>7 DEF Down
  <2> QED
    BY <2>1, <2>2, <2>3 DEF Down
<1>9. OneChild'
  <2>1. \A y \in Child : y # x => sock'[y] = NewSock
    BY FreshIs
  <2>2. \A y \in Child : y # x => ChildIs(y, sock'[y], AtServer', hl'.next[Table])
    BY <2>1 DEF ChildIs, NewSock
  <2>3. \A y \in Child : sock'[y].snd_nxt # 0 => y = x
    BY <2>1 DEF NewSock
  <2> QED
    BY <2>2, <2>3 DEF OneChild, Fresh
<1>10. UntilFin'
  <2>1. \A y \in Child : Ended(y) => sock'[y].snd_nxt >= 3
    BY DEF Ended
  <2>2. \A y \in Child : ~ (sock'[y].snd_nxt >= 3) => Unlinked(Timewait(y))'
    BY <1>1, <2>1 DEF UntilFin
  <2> QED
    BY <2>2 DEF UntilFin, Ended
<1>11. ASSUME NEW k \in running  PROVE ClientRuns(k)'
  <2>1. ClientRuns(k) /\ k \in Client
    BY <1>1, <1>11 DEF ConnInv, AppInv
  <2> DEFINE nxt == sock[k].snd_nxt
  <2>2. sock'[k] = sock[k] /\ cpc' = cpc /\ wait_connect' = wait_connect
    BY <1>2, <2>1
  <2>3. \A i \in DOMAIN AtServer : SentAt(AtServer[i], cpc, nxt)
    BY <2>1 DEF ClientRuns
  <2>4. \A i \in DOMAIN AtServer' : SentAt(AtServer'[i], cpc, nxt)
    BY <1>3, <2>3
  <2>5. ReachedAt(cpc, nxt)
    BY <2>1 DEF ClientRuns
  <2>6. \A y \in Child : /\ sock'[y].got = 1 => cpc \notin Early \cup {"write"} /\ nxt >= 3
                         /\ sock'[y].snd_nxt >= 3 => cpc = "closed" /\ sock'[y].rcv_nxt = nxt
    <3>1. \A y \in Child : y # x => sock'[y] = NewSock
      BY FreshIs
    <3>2. \A y \in Child : y # x => sock'[y].got = 0 /\ sock'[y].snd_nxt = 0
      BY <3>1 DEF NewSock
    <3>3. sock'[x].got = 1 => cpc \notin Early \cup {"write"} /\ nxt >= 3
      BY <2>3, <2>5 DEF SentAt, ReachedAt
    <3>4. sock'[x].snd_nxt >= 3 => cpc = "closed" /\ sock'[x].rcv_nxt = nxt
      BY <2>3, <2>5 DEF SentAt, ReachedAt
    <3> QED
      BY <3>2, <3>3, <3>4
  <2>7. cpc \in Early => accept_queue' = <<>> /\ accepted' = {}
    BY <2>3, <2>5 DEF SentAt, ReachedAt
  <2>8. ReachedAt(cpc, nxt)'
    BY <2>2, <2>6, <2>7 DEF ReachedAt, Ended, Early, Waiting
  <2> QED
    BY <1>5, <2>1, <2>2, <2>4, <2>8 DEF ClientRuns, Early, Waiting
<1>12. StillOpen'
  BY DEF StillOpen, Ended
<1> QED
  BY <1>2, <1>4, <1>8, <1>9, <1>10, <1>11, <1>12 DEF OneInv

-----------------------------------------------------------------------------
(* The server *)

\* The socket t is s after the packet p, whose data it has accepted or not.
Took(s, p, t) ==
  \/ t.got = s.got /\ t.rcv_nxt = IF p.kind = "PSH" THEN s.rcv_nxt ELSE SeqEnd(p)
  \/ /\ p.kind = "PSH" /\ p.seq = s.rcv_nxt
     /\ t.got = s.got + 1 /\ t.rcv_nxt = s.rcv_nxt + 1

LEMMA TookIs ==
  ASSUME NEW s \in Counted, NEW p \in PacketType
  PROVE  /\ Took(s, p, Acknowledged(s, p))
         /\ p.kind = "PSH" => Took(s, p, Accept(Acknowledged(s, p), p))
<1> DEFINE a == Acknowledged(s, p)
           t == Accept(a, p)
<1>1. /\ a \in Counted /\ a.got = s.got
      /\ a.rcv_nxt = IF p.kind = "PSH" THEN s.rcv_nxt ELSE SeqEnd(p)
  BY AcknowledgedIs, AcknowledgedHas
<1> HIDE DEF a
<1>2. Took(s, p, a)
  BY <1>1 DEF Took
<1>4. \/ t.got = a.got /\ t.rcv_nxt = a.rcv_nxt
      \/ p.seq = a.rcv_nxt /\ t.got = a.got + 1 /\ t.rcv_nxt = a.rcv_nxt + 1
  BY <1>1, AcceptHas
<1> HIDE DEF t
<1>3. p.kind = "PSH" => Took(s, p, t)
  BY <1>1, <1>4 DEF Took
<1> QED
  BY <1>2, <1>3 DEF a, t

LEMMA ChildHandles ==
  ASSUME ConnInv, ConnInv', OneInv, Up, NEW x \in Child, NEW p, For(x, p),
         NEW t, NEW ps, Becomes(x, t, ps), UNCHANGED clientVars,
         Took(sock[x], p, t),
         t.snd_nxt = sock[x].snd_nxt \/ (HasFin(p) /\ t.snd_nxt = sock[x].snd_nxt + 1),
         \A i \in DOMAIN t.send_buf :
           \/ \E j \in DOMAIN sock[x].send_buf : t.send_buf[i].pkt = sock[x].send_buf[j].pkt
           \/ GoodDown(t.send_buf[i].pkt, t.snd_nxt >= 3),
         ps = <<>> \/ \E q \in PacketType : ps = <<q>> /\ GoodDown(q, t.snd_nxt >= 3),
         hl'.next[Table] = x \/ (t.snd_nxt >= 3 /\ t.state = "CLOSED"),
         t.state = "LAST_ACK" => t.snd_nxt >= 3,
         t.state = "SYN_RECV" => sock[x].state = "SYN_RECV" /\ t.snd_nxt = sock[x].snd_nxt,
         queued' = queued \/ (queued' = {x} /\ ~ (t.snd_nxt >= 3)),
         \/ tl' = tl
         \/ tl' = list_add_tail(tl, Timewait(x), SHead) /\ t.snd_nxt >= 3,
         UNCHANGED <<accept_queue, accepted>> \/ HasAck(p)
  PROVE  OneInv'
<1>1. /\ x \in Sock /\ HostOf(x) = "server" /\ Peer(x) = "client"
      /\ \A y \in Client : y \in Sock /\ y # x
      /\ \A y \in Child : y \in Sock
  BY Heads
<1>2. /\ p \in PacketType /\ sock[x] \in Counted /\ ~Fresh(x) /\ hl.next[Table] = x
      /\ queued = {}
  BY <1>1, ForIs
<1>3. /\ sock'[x] = t /\ \A y \in Sock : y # x => sock'[y] = sock[y]
      /\ AtServer # <<>> /\ p = AtServer[1] /\ 1 \in DOMAIN AtServer
      /\ AtServer' = Tail(AtServer)
      /\ ps = <<>> => AtClient' = AtClient
      /\ \A q \in PacketType : ps = <<q>> => Grown(AtClient', AtClient, q)
  BY <1>1, BecomesIs DEF AtServer, AtClient
<1>4. UpInOrder /\ OneChild
  BY DEF OneInv
<1>5. ChildIs(x, sock[x], AtServer, x)
  BY <1>2, <1>4 DEF OneChild
<1>6. /\ GoodUp(p)
      /\ \A i \in DOMAIN AtServer' :
           /\ \E j \in DOMAIN AtServer : AtServer'[i] = AtServer[j]
           /\ p.kind \in {"PSH", "FIN"} => Past(AtServer'[i])
           /\ p.kind = "FIN" => Final(AtServer'[i], SeqEnd(p))
  BY <1>3, <1>4, OrderIs
<1>7. /\ sock[x].got \in Nat /\ sock[x].rcv_nxt \in Nat /\ sock[x].snd_nxt \in Nat
      /\ p.seq \in Nat
  BY <1>2 DEF Counted, SockType, PacketType
<1>8. /\ p.kind \in {"SYN", "ACK", "PSH", "FIN", "RST"}
      /\ p.kind = "PSH" => p.seq = 2
      /\ HasFin(p) => p.kind = "FIN"
      /\ p.kind = "FIN" => SeqEnd(p) >= 3
  BY <1>6, <1>7 DEF GoodUp, HasFin, SeqEnd
<1>9. ~Fresh(x) /\ sock[x].snd_nxt >= 2
  BY <1>2, <1>5 DEF ChildIs, Fresh
<1>10. /\ t.got \in {0, 1}
       /\ t.got = 1 => t.rcv_nxt >= 3 /\ \A i \in DOMAIN AtServer' : Past(AtServer'[i])
       /\ t.got = 1 => sock[x].got = 1 \/ p.kind = "PSH"
  <2>1. CASE t.got = sock[x].got /\ t.rcv_nxt = IF p.kind = "PSH" THEN sock[x].rcv_nxt ELSE SeqEnd(p)
    <3>1. sock[x].got = 1 => Past(p) /\ sock[x].rcv_nxt >= 3 /\ \A i \in DOMAIN AtServer : Past(AtServer[i])
      BY <1>3, <1>5 DEF ChildIs
    <3>2. sock[x].got = 1 => t.rcv_nxt >= 3
      BY <2>1, <3>1 DEF Past
    <3>3. sock[x].got = 1 => \A i \in DOMAIN AtServer' : Past(AtServer'[i])
      BY <1>6, <3>1
    <3> QED
      BY <1>5, <2>1, <3>2, <3>3 DEF ChildIs
  <2>2. CASE /\ p.kind = "PSH" /\ p.seq = sock[x].rcv_nxt
             /\ t.got = sock[x].got + 1 /\ t.rcv_nxt = sock[x].rcv_nxt + 1
    <3>1. sock[x].got = 0
      BY <1>5, <1>8, <2>2 DEF ChildIs
    <3> QED
      BY <1>6, <1>8, <2>2, <3>1
  <2> QED
    BY <2>1, <2>2 DEF Took
<1>11. sock[x].snd_nxt >= 3 => /\ t.rcv_nxt = sock[x].rcv_nxt /\ t.rcv_nxt >= 3 /\ t.snd_nxt >= 3
                               /\ \A i \in DOMAIN AtServer' : Final(AtServer'[i], t.rcv_nxt)
  <2> SUFFICES ASSUME sock[x].snd_nxt >= 3
               PROVE  /\ t.rcv_nxt = sock[x].rcv_nxt /\ t.rcv_nxt >= 3 /\ t.snd_nxt >= 3
                      /\ \A i \in DOMAIN AtServer' : Final(AtServer'[i], t.rcv_nxt)
    OBVIOUS
  <2>1. sock[x].rcv_nxt >= 3 /\ \A i \in DOMAIN AtServer : Final(AtServer[i], sock[x].rcv_nxt)
    BY <1>5 DEF ChildIs
  <2>2. p.kind # "PSH" => SeqEnd(p) = sock[x].rcv_nxt
    BY <1>3, <2>1 DEF Final
  <2>3. t.rcv_nxt = sock[x].rcv_nxt
    BY <1>8, <2>1, <2>2 DEF Took
  <2>4. t.snd_nxt >= 3
    BY <1>7
  <2> QED
    BY <1>6, <2>1, <2>3, <2>4
<1>12. HasFin(p) => /\ p.kind = "FIN" /\ t.rcv_nxt = SeqEnd(p) /\ t.rcv_nxt >= 3
                    /\ \A i \in DOMAIN AtServer' : Final(AtServer'[i], t.rcv_nxt)
  BY <1>6, <1>8 DEF Took
<1>13. t.snd_nxt >= 3 => sock[x].snd_nxt >= 3 \/ HasFin(p)
  BY <1>7
<1>14. t.snd_nxt >= 2 /\ t.snd_nxt # 0
  BY <1>7, <1>9
<1>15. ChildIs(x, t, AtServer', hl'.next[Table])
  <2>1. t.snd_nxt >= 3 => t.rcv_nxt >= 3 /\ \A i \in DOMAIN AtServer' : Final(AtServer'[i], t.rcv_nxt)
    BY <1>11, <1>12, <1>13
  <2>2. t.state \in {"SYN_RECV", "ESTABLISHED", "LAST_ACK"} => hl'.next[Table] = x
    OBVIOUS
  <2>3. t.state = "SYN_RECV" => ~ (t.snd_nxt >= 3)
    BY <1>5 DEF ChildIs
  <2> QED
    BY <1>10, <1>14, <2>1, <2>2, <2>3 DEF ChildIs
<1>16. \A y \in Child : y # x => Fresh(y) /\ sock'[y] = sock[y]
  BY <1>1, <1>2, <1>3, FreshIs
<1>17. \A y \in Client : sock'[y] = sock[y]
  BY <1>1, <1>3
<1>18. unused = {}
  <2>1. ~Quiet
    BY <1>3 DEF Quiet
  <2> QED
    BY <2>1, NotQuiet
<1>19. Ended(x) => sock'[x].snd_nxt >= 3
  BY <1>3, <1>11 DEF Ended
<1>20. \A i \in DOMAIN AtClient' : \/ \E j \in DOMAIN AtClient : AtClient'[i] = AtClient[j]
                                   \/ GoodDown(AtClient'[i], sock'[x].snd_nxt >= 3)
  <2>1. CASE ps = <<>>
    BY <1>3, <2>1
  <2>2. CASE \E q \in PacketType : ps = <<q>> /\ GoodDown(q, t.snd_nxt >= 3)
    <3>1. PICK q \in PacketType : ps = <<q>> /\ GoodDown(q, t.snd_nxt >= 3)
      BY <2>2
    <3>2. Grown(AtClient', AtClient, q)
      BY <1>3, <3>1
    <3> QED
      BY <1>3, <3>1, <3>2 DEF Grown
  <2> QED
    BY <2>1, <2>2
<1>21. \A y \in Child : ~ (sock'[y].snd_nxt >= 3) /\ Unlinked(Timewait(y)) => Unlinked(Timewait(y))'
  <2>1. CASE tl' = tl
    BY <2>1 DEF Unlinked, InServer, TimersIn, Timewait
  <2>2. CASE tl' = list_add_tail(tl, Timewait(x), SHead) /\ t.snd_nxt >= 3
    <3> TAKE y \in Child
    <3> HAVE ~ (sock'[y].snd_nxt >= 3) /\ Unlinked(Timewait(y))
    <3>1. y # x
      BY <1>3, <2>2
    <3>2. /\ Timewait(y) \in InServer /\ Timewait(y) # SHead /\ Timewait(x) \in InServer
          /\ Timewait(x) # SHead /\ Timewait(y) # Timewait(x)
      BY <3>1, TimerNodes
    <3>3. PICK u \in InServer : u = Timewait(y)
      BY <3>2
    <3>4. Unlinked(u)'
      BY <2>2, <3>2, <3>3, SomeoneElseAdded
    <3> QED
      BY <3>3, <3>4 DEF Unlinked, InServer, TimersIn, Timewait
  <2> QED
    BY <2>1, <2>2
<1>22. sock'[x].got = 1 => sock[x].got = 1 \/ \E i \in DOMAIN AtServer : AtServer[i].kind = "PSH"
  BY <1>3, <1>10
<1>23. sock'[x].snd_nxt >= 3 =>
         \/ Ended(x) /\ sock'[x].rcv_nxt = sock[x].rcv_nxt
         \/ \E i \in DOMAIN AtServer : AtServer[i].kind = "FIN" /\ sock'[x].rcv_nxt = SeqEnd(AtServer[i])
  BY <1>3, <1>11, <1>12, <1>13 DEF Ended
<1>24. \/ accept_queue = <<>> /\ accepted = {} => accept_queue' = <<>> /\ accepted' = {}
       \/ \E i \in DOMAIN AtServer : AtServer[i].kind \notin {"SYN", "RST"}
  BY <1>3 DEF HasAck
<1>25. /\ AtServer # <<>> /\ AtServer' = Tail(AtServer)
       /\ \A i \in DOMAIN sock'[x].send_buf :
            \/ \E j \in DOMAIN sock[x].send_buf : sock'[x].send_buf[i].pkt = sock[x].send_buf[j].pkt
            \/ GoodDown(sock'[x].send_buf[i].pkt, sock'[x].snd_nxt >= 3)
       /\ ChildIs(x, sock'[x], AtServer', hl'.next[Table])
  BY <1>3, <1>15
<1>26. \A y \in queued' : ~ (sock'[y].snd_nxt >= 3)
  BY <1>2, <1>3
<1> QED
  BY <1>26, <1>16, <1>17, <1>18, <1>19, <1>20, <1>21, <1>22, <1>23, <1>24, <1>25, ServerDoes

LEMMA OneSynRecv ==
  ASSUME ConnInv, ConnInv', OneInv, Up, NEW x \in Child, RecvSynRecv(x)
  PROVE  OneInv'
<1>1. PICK p \in Packets :
        /\ For(x, p) /\ sock[x].state = "SYN_RECV"
        /\ LET s == Acknowledged(sock[x], p)
           IN  IF ~Completes(p) THEN Becomes(x, s, <<>>) /\ UNCHANGED threadVars
               ELSE IF p.kind = "PSH"
               THEN LET t == Accept([s EXCEPT !.state = "ESTABLISHED"], p)
                    IN  Becomes(x, t, <<Packet(t, "ACK")>>) /\ UNCHANGED threadVars
               ELSE /\ Becomes(x, s, <<>>)
                    /\ accept_queue' = Append(accept_queue, x)
                    /\ rpc' = "enqueued" /\ queued' = {x}
                    /\ UNCHANGED <<wait_accept, apc, accepted, giving, torn>>
        /\ UNCHANGED <<hl, tl, clientVars>>
  BY DEF RecvSynRecv
<1> DEFINE s == Acknowledged(sock[x], p)
           e == [s EXCEPT !.state = "ESTABLISHED"]
           t == Accept(e, p)
<1>2. /\ p \in PacketType /\ sock[x] \in Counted /\ s \in Counted /\ hl.next[Table] = x
  BY <1>1, Heads, ForIs
<1>3. /\ s.state = "SYN_RECV" /\ s.snd_nxt = sock[x].snd_nxt
      /\ Took(sock[x], p, s)
      /\ \A i \in DOMAIN s.send_buf : \E j \in DOMAIN sock[x].send_buf : s.send_buf[i] = sock[x].send_buf[j]
  BY <1>1, <1>2, AcknowledgedIs, AcknowledgedHas, TookIs
<1>4. s.got = sock[x].got /\ s.rcv_nxt = IF p.kind = "PSH" THEN sock[x].rcv_nxt ELSE SeqEnd(p)
  BY <1>2, AcknowledgedHas
<1> HIDE DEF s
<1>5. /\ e \in Counted /\ e.state = "ESTABLISHED" /\ e.snd_nxt = sock[x].snd_nxt
      /\ e.got = s.got /\ e.rcv_nxt = s.rcv_nxt /\ e.send_buf = s.send_buf
  <2>1. "ESTABLISHED" \in States
    BY DEF States
  <2> QED
    BY <1>2, <1>3, <2>1, StateIs, StateHas
<1>6. Took(sock[x], p, e)
  BY <1>4, <1>5 DEF Took
<1> HIDE DEF e
<1>7. /\ t \in Counted /\ t.state = "ESTABLISHED" /\ t.snd_nxt = sock[x].snd_nxt
      /\ t.send_buf = s.send_buf
      /\ p.kind = "PSH" => Took(sock[x], p, t)
  <2>1. /\ t \in Counted /\ t.state = "ESTABLISHED" /\ t.snd_nxt = sock[x].snd_nxt
        /\ t.send_buf = s.send_buf
    BY <1>2, <1>5, AcceptIs, AcceptHas
  <2>2. \/ t.got = e.got /\ t.rcv_nxt = e.rcv_nxt
        \/ p.seq = e.rcv_nxt /\ t.got = e.got + 1 /\ t.rcv_nxt = e.rcv_nxt + 1
    BY <1>5, AcceptHas
  <2> HIDE DEF t
  <2>3. p.kind = "PSH" => Took(sock[x], p, t)
    BY <1>4, <1>5, <2>2 DEF Took
  <2> QED
    BY <2>1, <2>3
<1> HIDE DEF t
<1>8. hl' = hl /\ tl' = tl /\ UNCHANGED clientVars /\ hl'.next[Table] = x
  BY <1>1, <1>2
<1>12. ~ (sock[x].snd_nxt >= 3)
  BY <1>1 DEF OneInv, OneChild, ChildIs
<1>9. CASE ~Completes(p)
  <2>1. Becomes(x, s, <<>>) /\ UNCHANGED threadVars
    BY <1>1, <1>9 DEF s
  <2>2. UNCHANGED <<accept_queue, accepted, queued>>
    BY <2>1 DEF threadVars
  <2> QED
    BY <1>1, <1>3, <1>8, <2>1, <2>2, ChildHandles
<1>10. CASE Completes(p) /\ p.kind = "PSH"
  <2>1. Becomes(x, t, <<Packet(t, "ACK")>>) /\ queued' = queued
    BY <1>1, <1>10 DEF s, e, t, threadVars
  <2>2. Packet(t, "ACK") \in PacketType /\ GoodDown(Packet(t, "ACK"), t.snd_nxt >= 3)
    BY <1>7, PacketIs DEF Counted, Kinds, GoodDown, HasFin, Packet
  <2>3. HasAck(p)
    BY <1>10 DEF HasAck
  <2> QED
    BY <1>1, <1>3, <1>7, <1>8, <1>10, <2>1, <2>2, <2>3, ChildHandles
<1>11. CASE Completes(p) /\ p.kind # "PSH"
  <2>1. Becomes(x, s, <<>>) /\ queued' = {x}
    BY <1>1, <1>11 DEF s
  <2>2. HasAck(p)
    BY <1>11 DEF Completes
  <2> QED
    BY <1>1, <1>3, <1>8, <1>12, <2>1, <2>2, ChildHandles
<1> QED
  BY <1>9, <1>10, <1>11

LEMMA OneChildCloses ==
  ASSUME ConnInv, ConnInv', OneInv, Up, NEW x \in Child, RecvEstablished(x)
  PROVE  OneInv'
<1>1. PICK p \in Packets :
        /\ For(x, p) /\ sock[x].state = "ESTABLISHED"
        /\ LET s == Acknowledged(sock[x], p)
           IN  IF HasFin(p)
               THEN LET t == [s EXCEPT !.state = "LAST_ACK"]
                    IN  /\ Becomes(x, Hold(Sent(t, "FINACK")), <<Packet(t, "FINACK")>>)
                        /\ tl' = ArmTimewait(x)
               ELSE /\ IF p.kind = "PSH"
                       THEN LET t == Accept(s, p) IN Becomes(x, t, <<Packet(t, "ACK")>>)
                       ELSE Becomes(x, s, <<>>)
                    /\ UNCHANGED tl
        /\ UNCHANGED <<hl, clientVars, threadVars>>
  BY DEF RecvEstablished
<1> DEFINE s == Acknowledged(sock[x], p)
           e == [s EXCEPT !.state = "LAST_ACK"]
           f == Sent(e, "FINACK")
           t == Accept(s, p)
<1>2. /\ p \in PacketType /\ sock[x] \in Counted /\ s \in Counted /\ hl.next[Table] = x
      /\ ~sock[x].freed
  BY <1>1, Heads, ForIs
<1>3. /\ s.state = "ESTABLISHED" /\ s.snd_nxt = sock[x].snd_nxt /\ s.freed = sock[x].freed
      /\ Took(sock[x], p, s)
      /\ \A i \in DOMAIN s.send_buf : \E j \in DOMAIN sock[x].send_buf : s.send_buf[i] = sock[x].send_buf[j]
      /\ s.got = sock[x].got /\ s.rcv_nxt = IF p.kind = "PSH" THEN sock[x].rcv_nxt ELSE SeqEnd(p)
  BY <1>1, <1>2, AcknowledgedIs, AcknowledgedHas, TookIs
<1>4. UNCHANGED clientVars /\ hl'.next[Table] = x /\ UNCHANGED <<accept_queue, accepted, queued>>
  BY <1>1, <1>2 DEF threadVars
<1>5. p.kind = "PSH" => Took(sock[x], p, t)
  BY <1>2, TookIs
<1> HIDE DEF s
<1>6. CASE HasFin(p)
  <2>1. Becomes(x, Hold(f), <<Packet(e, "FINACK")>>) /\ tl' = ArmTimewait(x)
    BY <1>1, <1>6 DEF s
  <2>2. /\ e \in Counted /\ e.state = "LAST_ACK" /\ e.snd_nxt = sock[x].snd_nxt
        /\ e.got = s.got /\ e.rcv_nxt = s.rcv_nxt /\ e.send_buf = s.send_buf
    <3>1. "LAST_ACK" \in States
      BY DEF States
    <3> QED
      BY <1>2, <1>3, <3>1, StateIs, StateHas
  <2> HIDE DEF e
  <2>3. "FINACK" \in Kinds \ {"ACK", "RST"}
    BY DEF Kinds
  <2>4. /\ f \in Counted /\ f.state = "LAST_ACK" /\ f.snd_nxt = sock[x].snd_nxt + 1
        /\ f.got = s.got /\ f.rcv_nxt = s.rcv_nxt
        /\ \A i \in DOMAIN f.send_buf :
             \/ i \in DOMAIN s.send_buf /\ f.send_buf[i] = s.send_buf[i]
             \/ f.send_buf[i].pkt = Packet(e, "FINACK")
        /\ Packet(e, "FINACK") \in PacketType /\ Packet(e, "FINACK").kind = "FINACK"
    <3>1. /\ f \in Counted /\ f.state = "LAST_ACK" /\ f.snd_nxt = sock[x].snd_nxt + 1
          /\ f.got = s.got /\ f.rcv_nxt = s.rcv_nxt
      <4>1. f \in Counted /\ f.state = e.state
        BY <2>2, <2>3, SentIs
      <4>2. f.got = e.got /\ f.rcv_nxt = e.rcv_nxt /\ f.snd_nxt = e.snd_nxt + 1
        BY <2>2, <2>3, SentHas
      <4> QED
        BY <2>2, <4>1, <4>2
    <3>2. \A i \in DOMAIN f.send_buf :
             \/ i \in DOMAIN s.send_buf /\ f.send_buf[i] = s.send_buf[i]
             \/ f.send_buf[i].pkt = Packet(e, "FINACK")
      BY <2>2, <2>3, SentHas
    <3>3. Packet(e, "FINACK") \in PacketType
      BY <2>2, <2>3, PacketIs DEF Counted
    <3> QED
      BY <3>1, <3>2, <3>3 DEF Packet
  <2> HIDE DEF f
  <2>5. /\ Hold(f).state = "LAST_ACK" /\ Hold(f).snd_nxt = sock[x].snd_nxt + 1
        /\ Hold(f).got = s.got /\ Hold(f).rcv_nxt = s.rcv_nxt /\ Hold(f).send_buf = f.send_buf
    BY <2>4, HoldHas DEF Hold, Counted, SockType
  <2>6. sock[x].snd_nxt + 1 >= 3
    <3>1. ChildIs(x, sock[x], AtServer, x) /\ sock[x].snd_nxt # 0 /\ sock[x].snd_nxt \in Nat
      BY <1>1, <1>2, Heads, ForIs DEF OneInv, OneChild, Counted, SockType
    <3> QED
      BY <3>1 DEF ChildIs
  <2>7. GoodDown(Packet(e, "FINACK"), Hold(f).snd_nxt >= 3)
    BY <2>4, <2>5, <2>6 DEF GoodDown
  <2>8. \A i \in DOMAIN Hold(f).send_buf :
          \/ \E j \in DOMAIN sock[x].send_buf : Hold(f).send_buf[i].pkt = sock[x].send_buf[j].pkt
          \/ GoodDown(Hold(f).send_buf[i].pkt, Hold(f).snd_nxt >= 3)
    BY <1>3, <2>4, <2>5, <2>7
  <2>9. Took(sock[x], p, Hold(f))
    BY <1>3, <2>5 DEF Took
  <2>10. tl' = list_add_tail(tl, Timewait(x), SHead)
    BY <2>1, Heads DEF ArmTimewait
  <2> HIDE DEF s
  <2> DEFINE h == Hold(f)
             q == Packet(e, "FINACK")
  <2>11. /\ Becomes(x, h, <<q>>) /\ q \in PacketType /\ GoodDown(q, h.snd_nxt >= 3)
         /\ h.snd_nxt >= 3 /\ h.snd_nxt = sock[x].snd_nxt + 1 /\ Took(sock[x], p, h)
         /\ h.state # "SYN_RECV"
         /\ \A i \in DOMAIN h.send_buf :
              \/ \E j \in DOMAIN sock[x].send_buf : h.send_buf[i].pkt = sock[x].send_buf[j].pkt
              \/ GoodDown(h.send_buf[i].pkt, h.snd_nxt >= 3)
    BY <2>1, <2>4, <2>5, <2>6, <2>7, <2>8, <2>9
  <2> HIDE DEF h, q
  <2> QED
    BY <1>1, <1>4, <1>6, <2>10, <2>11, ChildHandles
<1>7. CASE ~HasFin(p) /\ p.kind = "PSH"
  <2>1. /\ t \in Counted /\ t.state = "ESTABLISHED" /\ t.snd_nxt = sock[x].snd_nxt
        /\ t.send_buf = s.send_buf
    BY <1>2, <1>3, AcceptIs, AcceptHas
  <2>2. Becomes(x, t, <<Packet(t, "ACK")>>) /\ tl' = tl
    BY <1>1, <1>7 DEF s
  <2> HIDE DEF t
  <2>3. Packet(t, "ACK") \in PacketType /\ GoodDown(Packet(t, "ACK"), t.snd_nxt >= 3)
    BY <2>1, PacketIs DEF Counted, Kinds, GoodDown, HasFin, Packet
  <2> QED
    BY <1>1, <1>3, <1>4, <1>5, <1>7, <2>1, <2>2, <2>3, ChildHandles
<1>8. CASE ~HasFin(p) /\ p.kind # "PSH"
  <2>1. Becomes(x, s, <<>>) /\ tl' = tl
    BY <1>1, <1>8 DEF s
  <2>2. /\ s.state \notin {"LAST_ACK", "SYN_RECV"} /\ s.snd_nxt = sock[x].snd_nxt /\ Took(sock[x], p, s)
        /\ \A i \in DOMAIN s.send_buf :
             \E j \in DOMAIN sock[x].send_buf : s.send_buf[i].pkt = sock[x].send_buf[j].pkt
    BY <1>3
  <2> QED
    BY <1>1, <1>4, <2>1, <2>2, ChildHandles
<1> QED
  BY <1>6, <1>7, <1>8

LEMMA OneChildEnds ==
  ASSUME ConnInv, ConnInv', OneInv, Up, NEW x \in Child, RecvLastAck(x) \/ RecvIgnored(x)
  PROVE  OneInv'
<1> DEFINE v(p) == [Acknowledged(sock[x], p) EXCEPT !.state = "CLOSED"]
<1>1. PICK p \in Packets :
        /\ For(x, p) /\ UNCHANGED <<tl, clientVars, threadVars>>
        /\ \/ /\ Becomes(x, Unhashed(Unbound(v(p), x), x), <<>>)
              /\ sock[x].state = "LAST_ACK"
           \/ Becomes(x, Acknowledged(sock[x], p), <<>>) /\ UNCHANGED hl
  <2>1. CASE RecvLastAck(x)
    BY <2>1 DEF RecvLastAck
  <2>2. CASE RecvIgnored(x)
    BY <2>2 DEF RecvIgnored
  <2> QED
    BY <2>1, <2>2
<1> DEFINE s == Acknowledged(sock[x], p)
           c == v(p)
<1>2. /\ p \in PacketType /\ sock[x] \in Counted /\ s \in Counted /\ hl.next[Table] = x /\ x \notin Client
      /\ sock[x].snd_nxt # 0
  BY <1>1, Heads, ForIs
<1>3. /\ s.state = sock[x].state /\ s.snd_nxt = sock[x].snd_nxt
      /\ Took(sock[x], p, s)
      /\ \A i \in DOMAIN s.send_buf : \E j \in DOMAIN sock[x].send_buf : s.send_buf[i] = sock[x].send_buf[j]
  BY <1>1, <1>2, AcknowledgedIs, AcknowledgedHas, TookIs
<1>4. UNCHANGED clientVars /\ UNCHANGED <<accept_queue, accepted, queued>> /\ tl' = tl
  BY <1>1 DEF threadVars
<1>5. ChildIs(x, sock[x], AtServer, x)
  BY <1>2 DEF OneInv, OneChild
<1>6. sock[x].state = "LAST_ACK" => sock[x].snd_nxt >= 3
  BY <1>5 DEF ChildIs
<1>7. CASE Becomes(x, s, <<>>) /\ UNCHANGED hl
  <2> HIDE DEF s
  <2> QED
    BY <1>1, <1>2, <1>3, <1>4, <1>6, <1>7, ChildHandles
<1>8. CASE Becomes(x, Unhashed(Unbound(c, x), x), <<>>) /\ sock[x].state = "LAST_ACK"
  <2>1. /\ c \in Counted /\ c.state = "CLOSED" /\ c.snd_nxt = sock[x].snd_nxt
        /\ c.got = s.got /\ c.rcv_nxt = s.rcv_nxt /\ c.send_buf = s.send_buf
    <3>1. "CLOSED" \in States
      BY DEF States
    <3> HIDE DEF s
    <3>2. c = [s EXCEPT !.state = "CLOSED"]
      BY DEF s
    <3> HIDE DEF c
    <3> QED
      BY <1>2, <1>3, <3>1, <3>2, StateIs, StateHas
  <2> HIDE DEF s, c
  <2>2. Unbound(c, x) = c
    BY <1>2 DEF Unbound
  <2> DEFINE u == Unhashed(c, x)
  <2>3. /\ u.state = "CLOSED" /\ u.snd_nxt = sock[x].snd_nxt
        /\ u.got = s.got /\ u.rcv_nxt = s.rcv_nxt /\ u.send_buf = s.send_buf
    BY <2>1, HoldHas
  <2>4. Becomes(x, u, <<>>)
    BY <1>8, <2>2
  <2> HIDE DEF u
  <2>5. Took(sock[x], p, u)
    BY <1>3, <2>3 DEF Took
  <2> QED
    BY <1>1, <1>3, <1>4, <1>6, <1>8, <2>3, <2>4, <2>5, ChildHandles
<1> QED
  BY <1>1, <1>7, <1>8

\* A step that leaves the sockets and the lists alone.
LEMMA OneSame ==
  ASSUME ConnInv, OneInv, UNCHANGED <<connVars, clientVars>>,
         AtServer' = AtServer \/ (AtServer # <<>> /\ AtServer' = Tail(AtServer)),
         \A i \in DOMAIN AtClient' : \E j \in DOMAIN AtClient : AtClient'[i] = AtClient[j],
         accept_queue = <<>> /\ accepted = {} => accept_queue' = <<>> /\ accepted' = {},
         queued' = queued
  PROVE  OneInv'
<1>1. UpInOrder /\ Down /\ OneChild /\ UntilFin /\ \A k \in running : ClientRuns(k)
  BY DEF OneInv
<1>2. UNCHANGED <<running, unused, cpc, wait_connect, sock, hl, tl>>
  BY DEF clientVars, connVars
<1>3. \A i \in DOMAIN AtServer' : \E j \in DOMAIN AtServer : AtServer'[i] = AtServer[j]
  BY <1>1, OrderIs
<1>4. UpInOrder'
  <2>1. CASE AtServer' = AtServer
    BY <1>1, <2>1 DEF UpInOrder
  <2>2. CASE AtServer # <<>> /\ AtServer' = Tail(AtServer)
    BY <1>1, <2>2, OrderIs
  <2> QED
    BY <2>1, <2>2
<1>5. Down'
  BY <1>1, <1>2 DEF Down, AnyEnded, Ended
<1>6. OneChild'
  <2>1. \A x \in Child : ChildIs(x, sock[x], AtServer', hl.next[Table])
    BY <1>1, <1>3 DEF OneChild, ChildIs
  <2> QED
    BY <1>1, <1>2, <2>1 DEF OneChild, Fresh
<1>7. UntilFin'
  BY <1>1, <1>2 DEF UntilFin, Ended, Unlinked, Timewait, InServer, TimersIn
<1>8. ASSUME NEW k \in running  PROVE ClientRuns(k)'
  <2>1. ClientRuns(k)
    BY <1>1, <1>8
  <2>2. \A i \in DOMAIN AtServer' : SentAt(AtServer'[i], cpc, sock[k].snd_nxt)
    BY <1>3, <2>1 DEF ClientRuns
  <2>3. ReachedAt(cpc, sock[k].snd_nxt)'
    BY <1>2, <2>1 DEF ClientRuns, ReachedAt, Ended, Early, Waiting
  <2> QED
    BY <1>2, <2>1, <2>2, <2>3 DEF ClientRuns, AnyEnded, Ended, Early, Waiting
<1>9. \A k \in unused : Quiet => Quiet'
  BY <1>2 DEF Quiet, Fresh
<1>10. StillOpen'
  BY <1>2 DEF OneInv, StillOpen, Ended
<1> QED
  BY <1>10, <1>2, <1>4, <1>5, <1>6, <1>7, <1>8, <1>9 DEF OneInv

LEMMA OneLoses ==
  ASSUME ConnInv, OneInv, NEW h \in Hosts, net[h] # <<>>, net' = [net EXCEPT ![h] = Tail(@)],
         UNCHANGED <<connVars, clientVars, threadVars>>
  PROVE  OneInv'
<1>1. net \in [Hosts -> Seq(PacketType)]
  BY DEF ConnInv, AppInv, Nets, Hosts
<1>2. net'[h] = Tail(net[h]) /\ \A g \in Hosts : g # h => net'[g] = net[g]
  BY <1>1
<1>3. UNCHANGED <<accept_queue, accepted, queued>>
  BY DEF threadVars
<1>4. CASE h = "server"
  BY <1>2, <1>3, <1>4, OneSame DEF AtServer, AtClient, Hosts
<1>5. CASE h = "client"
  <2>1. \A i \in DOMAIN AtClient' : \E j \in DOMAIN AtClient : AtClient'[i] = AtClient[j]
    BY <1>1, <1>2, <1>5, Shift DEF AtClient
  <2> QED
    BY <1>2, <1>3, <1>5, <2>1, OneSame DEF AtServer, AtClient, Hosts
<1> QED
  BY <1>4, <1>5 DEF Hosts

\* A step of the server that does not take a packet.
LEMMA ChildTicks ==
  ASSUME ConnInv, ConnInv', OneInv, NEW x \in Child, ~Fresh(x), NEW t, sock' = [sock EXCEPT ![x] = t],
         UNCHANGED <<clientVars, accept_queue, accepted>>, AtServer' = AtServer,
         t.got = sock[x].got, t.rcv_nxt = sock[x].rcv_nxt, t.snd_nxt = sock[x].snd_nxt,
         \A i \in DOMAIN t.send_buf :
           \E j \in DOMAIN sock[x].send_buf : t.send_buf[i].pkt = sock[x].send_buf[j].pkt,
         t.state \in {"SYN_RECV", "ESTABLISHED", "LAST_ACK"} => hl'.next[Table] = x,
         t.state \in {"LAST_ACK", "SYN_RECV"} => sock[x].state = t.state,
         queued' \in SUBSET queued,
         hl'.next[Table] \in {x, hl.next[Table]} \/ Ended(x),
         AtClient' = AtClient \/ \E p : Grown(AtClient', AtClient, p) /\ GoodDown(p, AnyEnded),
         \/ tl' = tl
         \/ \E u \in InServer : /\ tl' = list_delete_entry(tl, u)
                                /\ u = RetransTimer(x) \/ (u = Timewait(x) /\ Ended(x))
  PROVE  OneInv'
<1>1. /\ sock'[x] = t /\ \A y \in Sock : y # x => sock'[y] = sock[y]
  BY Heads DEF ConnInv, SockInv
<1>11. \A y \in queued' : ~ (sock'[y].snd_nxt >= 3)
  <2>1. \A y \in queued : y \in Child /\ ~Ended(y)
    BY DEF OneInv, StillOpen, ConnInv, QueueInv
  <2> QED
    BY <1>1, <2>1, Heads DEF Ended
<1>2. /\ \A y \in Child : y # x => Fresh(y) /\ sock'[y] = sock[y]
      /\ \A y \in Client : sock'[y] = sock[y]
  BY <1>1, Heads, FreshIs
<1>3. unused = {} /\ UNCHANGED clientVars /\ UNCHANGED <<accept_queue, accepted>>
  <2>1. ~Quiet
    BY DEF Quiet
  <2> QED
    BY <2>1, NotQuiet
<1>4. ChildIs(x, sock[x], AtServer, hl.next[Table])
  BY DEF OneInv, OneChild
<1>5. ChildIs(x, sock'[x], AtServer', hl'.next[Table])
  BY <1>1, <1>4 DEF ChildIs, Ended
<1>6. /\ Ended(x) => sock'[x].snd_nxt >= 3
      /\ sock'[x].got = 1 => sock[x].got = 1
      /\ sock'[x].snd_nxt >= 3 => Ended(x) /\ sock'[x].rcv_nxt = sock[x].rcv_nxt
  BY <1>1 DEF Ended
<1>7. AnyEnded => sock'[x].snd_nxt >= 3
  <2>1. \A y \in Child : y # x => ~Ended(y)
    BY <1>2 DEF Fresh, Ended
  <2> QED
    BY <1>6, <2>1 DEF AnyEnded
<1>8. \A i \in DOMAIN AtClient' : \/ \E j \in DOMAIN AtClient : AtClient'[i] = AtClient[j]
                                  \/ GoodDown(AtClient'[i], sock'[x].snd_nxt >= 3)
  <2>1. CASE AtClient' = AtClient
    BY <2>1
  <2>2. ASSUME NEW p, Grown(AtClient', AtClient, p), GoodDown(p, AnyEnded)
        PROVE  \A i \in DOMAIN AtClient' : \/ \E j \in DOMAIN AtClient : AtClient'[i] = AtClient[j]
                                           \/ GoodDown(AtClient'[i], sock'[x].snd_nxt >= 3)
    BY <1>7, <2>2 DEF Grown, GoodDown
  <2> QED
    BY <2>1, <2>2
<1>9. \A y \in Child : ~ (sock'[y].snd_nxt >= 3) /\ Unlinked(Timewait(y)) => Unlinked(Timewait(y))'
  <2>1. CASE tl' = tl
    BY <2>1 DEF Unlinked, InServer, TimersIn, Timewait
  <2>2. ASSUME NEW u \in InServer, tl' = list_delete_entry(tl, u),
               u = RetransTimer(x) \/ (u = Timewait(x) /\ Ended(x))
        PROVE  \A y \in Child : ~ (sock'[y].snd_nxt >= 3) /\ Unlinked(Timewait(y)) => Unlinked(Timewait(y))'
    <3> TAKE y \in Child
    <3> HAVE ~ (sock'[y].snd_nxt >= 3) /\ Unlinked(Timewait(y))
    <3>1. u # Timewait(y)
      <4>1. CASE u = RetransTimer(x)
        BY <4>1, TimerNodes
      <4>2. CASE u = Timewait(x) /\ Ended(x)
        <5>1. y # x
          BY <1>6, <4>2
        <5> QED
          BY <4>2, <5>1, TimerNodes
      <4> QED
        BY <2>2, <4>1, <4>2
    <3>2. PICK w \in InServer : w = Timewait(y)
      BY TimerNodes
    <3>3. Unlinked(w)'
      BY <2>2, <3>1, <3>2, SomeoneElseDeleted
    <3> QED
      BY <3>2, <3>3 DEF Unlinked, InServer, TimersIn, Timewait
  <2> QED
    BY <2>1, <2>2
<1>10. \A i \in DOMAIN sock'[x].send_buf :
         \E j \in DOMAIN sock[x].send_buf : sock'[x].send_buf[i].pkt = sock[x].send_buf[j].pkt
  BY <1>1
<1> QED
  BY <1>2, <1>3, <1>5, <1>6, <1>8, <1>9, <1>10, <1>11, ServerDoes

LEMMA TimesHas ==
  ASSUME NEW s \in Counted, NEW i \in DOMAIN s.send_buf
  PROVE  LET t == Tried(s, i)
         IN  /\ t.got = s.got /\ t.rcv_nxt = s.rcv_nxt
             /\ DOMAIN t.send_buf = DOMAIN s.send_buf
             /\ Len(t.send_buf) = Len(s.send_buf)
             /\ \A j \in DOMAIN s.send_buf :
                  /\ t.send_buf[j].pkt = s.send_buf[j].pkt
                  /\ t.send_buf[j].times = IF j = i THEN s.send_buf[i].times + 1 ELSE s.send_buf[j].times
<1> DEFINE b == [s.send_buf[i] EXCEPT !.times = @ + 1]
           c == [s.send_buf EXCEPT ![i] = b]
           t == [s EXCEPT !.send_buf = c]
<1>1. s \in SockType /\ s.send_buf \in Seq(Buffers)
  BY DEF Counted, SockType
<1>2. s.send_buf[i] \in Buffers /\ DOMAIN s.send_buf = 1 .. Len(s.send_buf) /\ Len(s.send_buf) \in Nat
      /\ s.send_buf \in [1 .. Len(s.send_buf) -> Buffers]
  BY <1>1
<1>3. b.pkt = s.send_buf[i].pkt /\ b.times = s.send_buf[i].times + 1
  BY <1>2 DEF Buffers
<1>4. Tried(s, i) = t
  BY DEF Tried, t, c, b
<1> HIDE DEF b
<1>5. /\ DOMAIN c = DOMAIN s.send_buf /\ c[i] = b
      /\ \A j \in DOMAIN s.send_buf : j # i => c[j] = s.send_buf[j]
  BY <1>2
<1>6. Len(c) = Len(s.send_buf)
  <2>1. b \in Buffers \cup {b} /\ \A j \in 1 .. Len(s.send_buf) : s.send_buf[j] \in Buffers \cup {b}
    BY <1>2
  <2>2. c \in [1 .. Len(s.send_buf) -> Buffers \cup {b}]
    BY <1>2, <2>1
  <2>3. c \in Seq(Buffers \cup {b}) /\ DOMAIN c = 1 .. Len(s.send_buf)
    BY <1>2, <2>2
  <2> HIDE DEF c
  <2> QED
    BY <1>2, <2>3
<1> HIDE DEF c
<1>7. t.got = s.got /\ t.rcv_nxt = s.rcv_nxt /\ t.send_buf = c
  BY <1>1 DEF SockType
<1> HIDE DEF t
<1> QED
  BY <1>3, <1>4, <1>5, <1>6, <1>7

LEMMA OneListen ==
  ASSUME ConnInv, ConnInv', OneInv, RecvListen
  PROVE  OneInv'
<1> DEFINE p == Head(net["server"])
           c == CHOOSE c \in Child : Fresh(c)
           s == [NewSock EXCEPT !.state = "SYN_RECV", !.snd_nxt = Iss, !.rcv_nxt = SeqEnd(p)]
           e == Sent(s, "SYNACK")
           t == Hold(e)
           q == Packet(s, "SYNACK")
           n == [net EXCEPT !["server"] = Tail(@)]
<1>1. /\ net["server"] # <<>> /\ hl.next[Table] = Table /\ HasSyn(p)
      /\ UNCHANGED <<clientVars, threadVars>>
  BY DEF RecvListen
<1>2. /\ "server" \in Hosts /\ "client" \in Hosts /\ net \in Nets /\ n \in Nets /\ p \in PacketType
  BY <1>1, TakenIs DEF ConnInv, AppInv, Hosts
<1>3. AtServer # <<>> /\ AtServer[1] = p /\ 1 \in DOMAIN AtServer /\ GoodUp(p)
  BY <1>1, OrderIs DEF OneInv, AtServer
<1>4. p.kind = "SYN" /\ SeqEnd(p) = 2
  BY <1>1, <1>3 DEF GoodUp, HasSyn, SeqEnd
<1>5. net \in [Hosts -> Seq(PacketType)]
  BY <1>2 DEF Nets, Hosts
<1>6. n["server"] = Tail(AtServer) /\ n["client"] = AtClient
  BY <1>2, <1>5 DEF AtServer, AtClient
<1>7. \A y \in Child : Fresh(y)
  <2> TAKE y \in Child
  <2>1. ChildIs(y, sock[y], AtServer, Table) /\ y # Table
    BY <1>1, Heads DEF OneInv, OneChild
  <2>2. ~Fresh(y) => sock[y].rcv_nxt >= 3 /\ Final(p, sock[y].rcv_nxt)
    BY <1>3, <2>1 DEF ChildIs, Fresh
  <2> QED
    BY <1>4, <2>2 DEF Final
<1>8. CASE \A x \in Child : ~Fresh(x)
  <2>1. net' = n /\ UNCHANGED connVars
    BY <1>1, <1>8 DEF RecvListen
  <2> QED
    BY <1>1, <1>2, <2>1, OneLoses
<1>9. CASE \E x \in Child : Fresh(x)
  <2>1. /\ tl' = list_add_tail(tl, RetransTimer(c), TimerHead(c))
        /\ hl' = Hash(c) /\ sock' = [sock EXCEPT ![c] = t]
        /\ net' = Transmit(n, "client", <<q>>)
    BY <1>1, <1>9 DEF RecvListen
  <2>2. PICK x \in Child : x = c
    BY <1>9
  <2>3. s \in Counted /\ s.snd_nxt = 1 /\ s.rcv_nxt = 2 /\ s.state = "SYN_RECV" /\ s.got = 0
        /\ s.send_buf = <<>> /\ ~s.freed
    <3>1. /\ NewSock \in SockType /\ NewSock.refs = 1 /\ NewSock.freed = FALSE /\ NewSock.got = 0
          /\ NewSock.send_buf = <<>>
      BY NewSockIs DEF Counted, NewSock
    <3>2. SeqEnd(p) \in Nat
      BY <1>4
    <3> HIDE DEF p
    <3>3. s = [[[NewSock EXCEPT !.state = "SYN_RECV"] EXCEPT !.snd_nxt = Iss] EXCEPT !.rcv_nxt = SeqEnd(p)]
      BY DEF s, NewSock
    <3>4. /\ s \in SockType /\ s.refs = 1 /\ s.freed = FALSE /\ s.snd_nxt = 1 /\ s.rcv_nxt = SeqEnd(p)
          /\ s.state = "SYN_RECV" /\ s.got = 0 /\ s.send_buf = <<>>
      BY <3>1, <3>2 DEF s, SockType, States, Iss
    <3> HIDE DEF s
    <3> QED
      BY <1>4, <3>4 DEF Counted
  <2> HIDE DEF s, c, p, n
  <2>4. "SYNACK" \in Kinds \ {"ACK", "RST"} /\ "SYNACK" \in Kinds
    BY DEF Kinds
  <2>5. q \in PacketType /\ q.kind = "SYNACK" /\ q.ack = 2
    <3>1. q \in PacketType
      BY <2>3, <2>4, PacketIs DEF Counted
    <3> QED
      BY <2>3, <3>1 DEF Packet
  <2>6. /\ e \in Counted /\ e.state = "SYN_RECV" /\ e.snd_nxt = 2 /\ e.got = 0 /\ e.rcv_nxt = 2
        /\ \A i \in DOMAIN e.send_buf : e.send_buf[i].pkt = q
    <3>1. e \in Counted /\ e.state = s.state
      BY <2>3, <2>4, SentIs
    <3>2. e.snd_nxt = s.snd_nxt + 1 /\ e.got = s.got /\ e.rcv_nxt = s.rcv_nxt
      BY <2>3, <2>4, SentHas
    <3>3. \A i \in DOMAIN e.send_buf :
            (i \in DOMAIN s.send_buf /\ e.send_buf[i] = s.send_buf[i]) \/ e.send_buf[i].pkt = q
      BY <2>3, <2>4, SentHas
    <3>4. DOMAIN s.send_buf = {}
      BY <2>3
    <3> QED
      BY <2>3, <3>1, <3>2, <3>3, <3>4
  <2> HIDE DEF e, q
  <2>7. /\ t.state = "SYN_RECV" /\ t.snd_nxt = 2 /\ t.got = 0 /\ t.rcv_nxt = 2
        /\ \A i \in DOMAIN t.send_buf : t.send_buf[i].pkt = q
    BY <2>6 DEF Hold, Counted, SockType
  <2> HIDE DEF t
  <2>8. /\ x \in Sock /\ TableOf(x) = Table /\ TimerHead(x) = SHead
        /\ sock'[x] = t /\ \A y \in Sock : y # x => sock'[y] = sock[y]
    BY <2>1, <2>2, Heads DEF ConnInv, SockInv
  <2>9. hl'.next[Table] = x
    BY <1>1, <2>1, <2>2, <2>8, HashIs DEF ConnInv, AppInv
  <2>10. AtServer' = Tail(AtServer) /\ Grown(AtClient', AtClient, q)
    <3>1. Grown(Transmit(n, "client", <<q>>)["client"], n["client"], q)
      BY <1>2, <2>5, TransmitGrows
    <3>2. Transmit(n, "client", <<q>>)["server"] = n["server"]
      BY <1>2, <2>5, TransmitGrows
    <3> QED
      BY <1>6, <2>1, <3>1, <3>2 DEF AtServer, AtClient, n, p
  <2>11. ChildIs(x, sock'[x], AtServer', hl'.next[Table])
    BY <2>7, <2>8, <2>9 DEF ChildIs
  <2>12. /\ \A y \in Child : y # x => Fresh(y) /\ sock'[y] = sock[y]
         /\ \A y \in Client : sock'[y] = sock[y]
    BY <1>7, <2>8, Heads
  <2>13. unused = {}
    <3>1. ~Quiet
      BY <1>3 DEF Quiet
    <3> QED
      BY <3>1, NotQuiet
  <2>14. ~Ended(x)
    BY <1>7 DEF Fresh, Ended
  <2>15. GoodDown(q, sock'[x].snd_nxt >= 3)
    BY <2>5 DEF GoodDown, HasFin
  <2>16. /\ \A i \in DOMAIN AtClient' : \/ \E j \in DOMAIN AtClient : AtClient'[i] = AtClient[j]
                                        \/ GoodDown(AtClient'[i], sock'[x].snd_nxt >= 3)
         /\ \A i \in DOMAIN sock'[x].send_buf : GoodDown(sock'[x].send_buf[i].pkt, sock'[x].snd_nxt >= 3)
    BY <2>7, <2>8, <2>10, <2>15 DEF Grown
  <2>17. \A y \in Child : Unlinked(Timewait(y)) => Unlinked(Timewait(y))'
    <3> TAKE y \in Child
    <3> HAVE Unlinked(Timewait(y))
    <3>1. /\ RetransTimer(x) \in InServer /\ RetransTimer(x) # SHead
          /\ Timewait(y) \in InServer /\ Timewait(y) # SHead /\ Timewait(y) # RetransTimer(x)
      BY TimerNodes
    <3>2. PICK u \in InServer : u = Timewait(y)
      BY <3>1
    <3>3. tl' = list_add_tail(tl, RetransTimer(x), SHead)
      BY <2>1, <2>2, <2>8
    <3>4. Unlinked(u)'
      BY <3>1, <3>2, <3>3, SomeoneElseAdded
    <3> QED
      BY <3>2, <3>4 DEF Unlinked, InServer, TimersIn, Timewait
  <2>18. UNCHANGED clientVars /\ UNCHANGED <<accept_queue, accepted, queued>>
    BY <1>1 DEF threadVars
  <2>20. queued' = {}
    BY <1>1, <2>18 DEF RecvListen, Ready, ConnInv, QueueInv
  <2>19. sock'[x].got # 1 /\ ~ (sock'[x].snd_nxt >= 3)
    BY <2>7, <2>8
  <2> QED
    BY <1>3, <2>10, <2>11, <2>12, <2>13, <2>14, <2>16, <2>17, <2>18, <2>19, <2>20, ServerDoes
<1> QED
  BY <1>8, <1>9

LEMMA OneChildTimer ==
  ASSUME ConnInv, ConnInv', OneInv, Up, NEW x \in Child,
         \/ TimewaitExpires(x)
         \/ \E i \in DOMAIN sock[x].send_buf : Resend(x, i) \/ GiveUpChild(x, i)
  PROVE  OneInv'
<1>1. /\ x \in Sock /\ x \notin Client /\ Peer(x) = "client" /\ "client" \in Hosts /\ "server" \in Hosts
  BY Heads DEF Hosts
<1>2. sock[x] \in Counted
  BY <1>1 DEF ConnInv, SockInv
<1>3. /\ RetransTimer(x) \in InServer /\ Timewait(x) \in InServer
      /\ RetransTimer(x) \in {RetransTimer(x), Timewait(x)} /\ Timewait(x) \in {RetransTimer(x), Timewait(x)}
  BY TimerNodes
<1>4. ChildIs(x, sock[x], AtServer, hl.next[Table])
  BY DEF OneInv, OneChild
<1>5. CASE TimewaitExpires(x)
  <2> DEFINE e == [sock[x] EXCEPT !.state = "CLOSED"]
             u == Unhashed(e, x)
  <2>1. /\ Armed(Timewait(x), x) /\ tl' = list_delete_entry(tl, Timewait(x))
        /\ sock' = [sock EXCEPT ![x] = u]
        /\ UNCHANGED <<net, clientVars, threadVars>>
    BY <1>1, <1>5 DEF TimewaitExpires, Unbound
  <2>2. ~Fresh(x)
    BY <1>1, <1>3, <2>1, ArmedIs
  <2>3. Ended(x)
    <3>1. ~Unlinked(Timewait(x))
      BY <2>1, UnlinkedIs
    <3> QED
      BY <3>1 DEF OneInv, UntilFin
  <2>4. e \in Counted /\ e.state = "CLOSED" /\ e.got = sock[x].got /\ e.rcv_nxt = sock[x].rcv_nxt
        /\ e.snd_nxt = sock[x].snd_nxt /\ e.send_buf = sock[x].send_buf
    <3>1. "CLOSED" \in States
      BY DEF States
    <3> QED
      BY <1>2, <3>1, StateIs, StateHas
  <2> HIDE DEF e
  <2>5. u.state = "CLOSED" /\ u.got = sock[x].got /\ u.rcv_nxt = sock[x].rcv_nxt
        /\ u.snd_nxt = sock[x].snd_nxt /\ u.send_buf = sock[x].send_buf
    BY <2>4, HoldHas
  <2> HIDE DEF u
  <2>6. UNCHANGED <<clientVars, accept_queue, accepted, queued>> /\ AtServer' = AtServer /\ AtClient' = AtClient
    BY <2>1 DEF threadVars, AtServer, AtClient
  <2> QED
    BY <1>3, <2>1, <2>2, <2>3, <2>5, <2>6, ChildTicks
<1>6. ASSUME NEW i \in DOMAIN sock[x].send_buf, Resend(x, i)  PROVE OneInv'
  <2> DEFINE t == Tried(sock[x], i)
             q == sock[x].send_buf[i].pkt
  <2>1. /\ Armed(RetransTimer(x), x) /\ sock[x].send_buf[i].times < MaxTimes
        /\ sock' = [sock EXCEPT ![x] = t]
        /\ net' = Transmit(net, "client", <<q>>)
        /\ UNCHANGED <<hl, tl, clientVars, threadVars>>
    BY <1>1, <1>6 DEF Resend
  <2>2. ~Fresh(x)
    BY <1>1, <1>3, <2>1, ArmedIs
  <2>3. sock' = [sock EXCEPT ![x] = t]
    BY <2>1
  <2>4. /\ q \in PacketType /\ t.state = sock[x].state /\ t.snd_nxt = sock[x].snd_nxt
    <3>1. sock[x].send_buf[i] \in Buffers
      BY <1>2, <1>6 DEF Counted, SockType
    <3>2. sock[x].send_buf[i].times <= MaxTimes
      BY <2>1, <3>1, ConnAssumption DEF Buffers
    <3> QED
      BY <1>2, <1>6, <3>2, TimesIs
  <2>5. /\ t.got = sock[x].got /\ t.rcv_nxt = sock[x].rcv_nxt
        /\ \A j \in DOMAIN t.send_buf : j \in DOMAIN sock[x].send_buf /\ t.send_buf[j].pkt = sock[x].send_buf[j].pkt
    BY <1>2, <1>6, TimesHas
  <2> HIDE DEF t
  <2>6. Grown(AtClient', AtClient, q) /\ AtServer' = AtServer
    BY <1>1, <2>1, <2>4, SendsIs DEF AtClient, AtServer
  <2>7. GoodDown(q, AnyEnded)
    BY <1>6 DEF OneInv, Down
  <2>8. UNCHANGED <<clientVars, accept_queue, accepted, queued>> /\ hl' = hl /\ tl' = tl
    BY <2>1 DEF threadVars
  <2> HIDE DEF q
  <2>9. /\ t.state \in {"SYN_RECV", "ESTABLISHED", "LAST_ACK"} => hl'.next[Table] = x
        /\ hl'.next[Table] = hl.next[Table]
    BY <1>4, <2>4, <2>8 DEF ChildIs
  <2>10. \A j \in DOMAIN t.send_buf :
           \E k \in DOMAIN sock[x].send_buf : t.send_buf[j].pkt = sock[x].send_buf[k].pkt
    BY <2>5
  <2> QED
    BY <2>2, <2>3, <2>4, <2>5, <2>6, <2>7, <2>8, <2>9, <2>10, ChildTicks
<1>7. ASSUME NEW i \in DOMAIN sock[x].send_buf, GiveUpChild(x, i)  PROVE OneInv'
  <2> DEFINE e == Tried(sock[x], i)
             t == [e EXCEPT !.state = "CLOSED"]
             q == Packet(sock[x], "RST")
  <2>1. /\ Armed(RetransTimer(x), x) /\ sock[x].send_buf[i].times = MaxTimes
        /\ tl' = list_delete_entry(tl, RetransTimer(x))
        /\ sock' = [sock EXCEPT ![x] = t]
        /\ net' = Transmit(net, "client", <<q>>)
        /\ UNCHANGED <<hl, clientVars, threadVars>>
    BY <1>7 DEF GiveUpChild, Exhausted
  <2>2. ~Fresh(x)
    BY <1>1, <1>3, <2>1, ArmedIs
  <2>3. e \in Counted /\ e.snd_nxt = sock[x].snd_nxt
    BY <1>2, <1>7, <2>1, ConnAssumption, TimesIs
  <2>4. /\ e.got = sock[x].got /\ e.rcv_nxt = sock[x].rcv_nxt
        /\ \A j \in DOMAIN e.send_buf : j \in DOMAIN sock[x].send_buf /\ e.send_buf[j].pkt = sock[x].send_buf[j].pkt
    BY <1>2, <1>7, TimesHas
  <2> HIDE DEF e
  <2>5. /\ t.state = "CLOSED" /\ t.got = e.got /\ t.rcv_nxt = e.rcv_nxt
        /\ t.snd_nxt = e.snd_nxt /\ t.send_buf = e.send_buf
    <3>1. "CLOSED" \in States
      BY DEF States
    <3> QED
      BY <2>3, <3>1, StateIs, StateHas
  <2> HIDE DEF t
  <2>7. q \in PacketType /\ q.kind = "RST"
    <3>1. "RST" \in Kinds
      BY DEF Kinds
    <3> QED
      BY <1>2, <3>1, PacketIs DEF Counted, Packet
  <2> HIDE DEF q
  <2>8. Grown(AtClient', AtClient, q) /\ AtServer' = AtServer
    BY <1>1, <2>1, <2>7, SendsIs DEF AtClient, AtServer
  <2>9. GoodDown(q, AnyEnded)
    BY <2>7 DEF GoodDown, HasFin
  <2>10. UNCHANGED <<clientVars, accept_queue, accepted, queued>> /\ hl'.next[Table] = hl.next[Table]
    BY <2>1 DEF threadVars
  <2>11. \A j \in DOMAIN t.send_buf :
           \E k \in DOMAIN sock[x].send_buf : t.send_buf[j].pkt = sock[x].send_buf[k].pkt
    BY <2>4, <2>5
  <2>12. /\ t.got = sock[x].got /\ t.rcv_nxt = sock[x].rcv_nxt /\ t.snd_nxt = sock[x].snd_nxt
         /\ t.state \notin {"SYN_RECV", "ESTABLISHED", "LAST_ACK"}
    BY <2>3, <2>4, <2>5
  <2>13. \E u \in InServer : /\ tl' = list_delete_entry(tl, u)
                             /\ u = RetransTimer(x) \/ (u = Timewait(x) /\ Ended(x))
    BY <1>3, <2>1
  <2>14. \E r : Grown(AtClient', AtClient, r) /\ GoodDown(r, AnyEnded)
    BY <2>8, <2>9
  <2> QED
    BY <2>1, <2>2, <2>8, <2>10, <2>11, <2>12, <2>13, <2>14, ChildTicks
<1> QED
  BY <1>5, <1>6, <1>7

LEMMA OneAccepts ==
  ASSUME ConnInv, ConnInv', OneInv, Up, ServerApp
  PROVE  OneInv'
<1>1. CASE AcceptDequeues
  <2>1. UNCHANGED <<connVars, net, clientVars, queued>>
    BY <1>1 DEF AcceptDequeues, AcceptStep
  <2>2. accept_queue # <<>>
    BY <1>1 DEF AcceptDequeues, ConnInv, QueueInv
  <2> QED
    BY <2>1, <2>2, OneSame DEF AtServer, AtClient
<1>2. CASE AcceptLooks \/ AcceptSleeps \/ AcceptResumes
  <2>1. UNCHANGED <<connVars, net, clientVars, accept_queue, accepted, queued>>
    BY <1>2 DEF AcceptLooks, AcceptSleeps, AcceptResumes, AcceptStep
  <2> QED
    BY <2>1, OneSame DEF AtServer, AtClient
<1>3. CASE AcceptReturns
  <2>1. PICK x \in Child : accepted = {x} /\ ~Fresh(x)
    BY <1>3 DEF AcceptReturns, ConnInv, QueueInv
  <2> DEFINE s == [sock[x] EXCEPT !.state = "ESTABLISHED"]
             t == IF Hash(x) = hl THEN s ELSE Hold(s)
  <2>2. x = CHOOSE y \in accepted : TRUE
    BY <2>1
  <2>3. /\ sock' = [sock EXCEPT ![x] = t] /\ hl' = Hash(x)
        /\ UNCHANGED <<tl, net, clientVars, accept_queue, accepted, queued>>
    BY <1>3, <2>2 DEF AcceptReturns, AcceptStep
  <2>4. x \in Sock /\ TableOf(x) = Table /\ sock[x] \in Counted /\ Table \notin Child
    BY Heads DEF ConnInv, SockInv
  <2>5. s \in Counted /\ s.state = "ESTABLISHED" /\ s.got = sock[x].got /\ s.rcv_nxt = sock[x].rcv_nxt
        /\ s.snd_nxt = sock[x].snd_nxt /\ s.send_buf = sock[x].send_buf
    <3>1. "ESTABLISHED" \in States
      BY DEF States
    <3> QED
      BY <2>4, <3>1, StateIs, StateHas
  <2> HIDE DEF s
  <2>6. t.state = "ESTABLISHED" /\ t.got = sock[x].got /\ t.rcv_nxt = sock[x].rcv_nxt
        /\ t.snd_nxt = sock[x].snd_nxt /\ t.send_buf = sock[x].send_buf
    BY <2>5, HoldHas DEF Hold, Counted, SockType
  <2> HIDE DEF t
  <2>7. hl.next[Table] # Table => hl.next[Table] = x
    <3>1. hl.next[Table] # Table => hl.next[Table] \in Child /\ ~Fresh(hl.next[Table])
      BY DEF ConnInv, HashInv, Bucket
    <3> QED
      BY <2>1, <3>1 DEF OneInv, OneChild
  <2>8. hl'.next[Table] = x
    BY <2>3, <2>4, <2>7, HashIs DEF ConnInv, AppInv
  <2>9. AtServer' = AtServer /\ AtClient' = AtClient
    BY <2>3 DEF AtServer, AtClient
  <2> QED
    BY <2>1, <2>3, <2>6, <2>8, <2>9, ChildTicks
<1> QED
  BY <1>1, <1>2, <1>3 DEF ServerApp

\* The receiving thread goes on with the child that it has put into the queue.
LEMMA OneQueues ==
  ASSUME ConnInv, ConnInv', OneInv, QueueWakes \/ QueueEstablishes
  PROVE  OneInv'
<1>1. CASE QueueWakes
  <2>1. UNCHANGED <<connVars, net, clientVars, accept_queue, accepted, queued>>
    BY <1>1 DEF QueueWakes
  <2> QED
    BY <2>1, OneSame DEF AtServer, AtClient
<1>2. CASE QueueEstablishes
  <2>1. PICK x \in Child : queued = {x} /\ ~Fresh(x)
    BY <1>2 DEF QueueEstablishes, ConnInv, QueueInv
  <2> DEFINE t == [sock[x] EXCEPT !.state = "ESTABLISHED"]
  <2>2. x = CHOOSE y \in queued : TRUE
    BY <2>1
  <2>3. sock[x] \in Counted /\ sock \in [Sock -> Counted]
    BY Heads DEF ConnInv, SockInv
  <2>4. /\ sock' = [sock EXCEPT ![x] = t] /\ queued' = {}
        /\ UNCHANGED <<hl, tl, net, clientVars, accept_queue, accepted>>
    BY <1>2, <2>2, <2>3 DEF QueueEstablishes
  <2>5. t.state = "ESTABLISHED" /\ t.got = sock[x].got /\ t.rcv_nxt = sock[x].rcv_nxt
        /\ t.snd_nxt = sock[x].snd_nxt /\ t.send_buf = sock[x].send_buf
    <3>1. "ESTABLISHED" \in States
      BY DEF States
    <3> QED
      BY <2>3, <3>1, StateIs, StateHas
  <2> HIDE DEF t
  <2>6. hl'.next[Table] = x
    <3>1. ~Ended(x) /\ ChildIs(x, sock[x], AtServer, hl.next[Table])
      BY <2>1 DEF OneInv, StillOpen, OneChild
    <3> QED
      BY <2>1, <2>4, <3>1 DEF ChildIs, Fresh, Ended
  <2>7. AtServer' = AtServer /\ AtClient' = AtClient
    BY <2>4 DEF AtServer, AtClient
  <2> QED
    BY <2>1, <2>4, <2>5, <2>6, <2>7, ChildTicks
<1> QED
  BY <1>1, <1>2

-----------------------------------------------------------------------------
(* The client *)

\* A packet that the client sends when it has got to pc and nxt.
Says(p, pc, nxt) == /\ GoodUp(p) /\ SentAt(p, pc, nxt)
                    /\ p.kind # "PSH" => SeqEnd(p) = nxt

\* The client goes on from pc and nxt.
Goes(pc, nxt, pc2, nxt2) ==
  /\ nxt2 >= nxt
  /\ pc = "closed" => pc2 = "closed" /\ nxt2 = nxt
  /\ pc \notin Early => pc2 \notin Early
  /\ pc \notin Early \cup {"write"} => pc2 \notin Early \cup {"write"}

\* A step that leaves the server alone.
LEMMA ServerStays ==
  ASSUME ConnInv, OneInv, \A y \in Child : sock'[y] = sock[y], hl'.next[Table] = hl.next[Table],
         \A y \in InServer : tl'.next[y] = tl.next[y] /\ tl'.prev[y] = tl.prev[y],
         \A i \in DOMAIN AtClient' : \E j \in DOMAIN AtClient : AtClient'[i] = AtClient[j]
  PROVE  /\ Down' /\ UntilFin' /\ (queued' = queued => StillOpen')
         /\ AtServer' = AtServer => UpInOrder' /\ OneChild'
<1>1. UpInOrder /\ Down /\ OneChild /\ UntilFin
  BY DEF OneInv
<1>2. Down'
  BY <1>1 DEF Down, AnyEnded, Ended
<1>3. UntilFin'
  <2>1. \A y \in Child : ~ (sock[y].snd_nxt >= 3) => Unlinked(Timewait(y))'
    BY <1>1 DEF UntilFin, Ended, Unlinked, Timewait, InServer, TimersIn
  <2> QED
    BY <2>1 DEF UntilFin, Ended, Timewait
<1>4. AtServer' = AtServer => UpInOrder' /\ OneChild'
  BY <1>1 DEF UpInOrder, OneChild, Fresh
<1>5. queued' = queued => StillOpen'
  BY DEF OneInv, StillOpen, Ended, ConnInv, QueueInv
<1> QED
  BY <1>2, <1>3, <1>4, <1>5

LEMMA ClientDoes ==
  ASSUME ConnInv, ConnInv', OneInv, OneClient, NEW k \in running,
         UNCHANGED <<running, unused, accept_queue, accepted, queued>>,
         \A y \in Child : sock'[y] = sock[y], hl'.next[Table] = hl.next[Table],
         \A y \in InServer : tl'.next[y] = tl.next[y] /\ tl'.prev[y] = tl.prev[y],
         \/ AtServer' = AtServer
         \/ \E p : Grown(AtServer', AtServer, p) /\ Says(p, cpc', sock'[k].snd_nxt),
         \A i \in DOMAIN AtClient' : \E j \in DOMAIN AtClient : AtClient'[i] = AtClient[j],
         cpc' \in Early \cup {"write", "close", "closing", "fin", "closed"},
         Goes(cpc, sock[k].snd_nxt, cpc', sock'[k].snd_nxt),
         StateIsAt(cpc', sock'[k].state), sock'[k].state = "TIME_WAIT" => AnyEnded,
         BuffersAt(cpc', sock'[k].send_buf, sock'[k].snd_nxt),
         Quits(wait_connect', cpc', sock'[k].send_buf), NumberAt(cpc', sock'[k].snd_nxt)
  PROVE  OneInv'
<1> DEFINE nxt == sock[k].snd_nxt
           nxt2 == sock'[k].snd_nxt
<1>1. UpInOrder /\ OneChild /\ ClientRuns(k)
  BY DEF OneInv
<1>2. Down' /\ UntilFin' /\ StillOpen' /\ (AtServer' = AtServer => UpInOrder' /\ OneChild')
  BY ServerStays
<1>3. k \in Client /\ running = {k} /\ unused = {}
  BY OnlyIs
<1>4. nxt \in Nat /\ nxt2 \in Nat /\ \A y \in Child : sock[y].rcv_nxt \in Nat /\ sock[y].snd_nxt \in Nat
  BY <1>3, Heads DEF ConnInv, SockInv, Counted, SockType
<1>5. /\ \A i \in DOMAIN AtServer : AtServer[i] \in PacketType
      /\ \A i \in DOMAIN AtServer : SentAt(AtServer[i], cpc, nxt)
      /\ ReachedAt(cpc, nxt)
  <2>1. AtServer \in Seq(PacketType)
    BY DEF ConnInv, AppInv, Nets, AtServer
  <2> QED
    BY <1>1, <2>1 DEF ClientRuns
<1>6. Goes(cpc, nxt, cpc', nxt2) /\ nxt2 >= nxt
  BY DEF Goes
<1> HIDE DEF nxt, nxt2
<1>7. \A p \in PacketType : SentAt(p, cpc, nxt) => SentAt(p, cpc', nxt2)
  BY <1>4, <1>6 DEF SentAt, Goes
<1>8. /\ \A y \in Child : /\ sock'[y].got = 1 => cpc' \notin Early \cup {"write"} /\ sock'[k].snd_nxt >= 3
                          /\ sock'[y].snd_nxt >= 3 => cpc' = "closed" /\ sock'[y].rcv_nxt = sock'[k].snd_nxt
      /\ cpc' \in Early => accept_queue' = <<>> /\ accepted' = {}
  <2>1. UNCHANGED <<accept_queue, accepted>>
    OBVIOUS
  <2>2. \A y \in Child : sock[y].got = 1 => cpc' \notin Early \cup {"write"} /\ nxt2 >= 3
    BY <1>4, <1>5, <1>6 DEF ReachedAt, Goes
  <2>3. \A y \in Child : sock[y].snd_nxt >= 3 => cpc' = "closed" /\ sock[y].rcv_nxt = nxt2
    BY <1>5, <1>6 DEF ReachedAt, Goes, Ended
  <2>4. cpc' \in Early => accept_queue = <<>> /\ accepted = {}
    BY <1>5, <1>6 DEF ReachedAt, Goes
  <2> QED
    BY <2>1, <2>2, <2>3, <2>4 DEF nxt2
<1>13. ReachedAt(cpc, sock[k].snd_nxt)'
  <2>1. \A y \in Child : (sock[y].got = 1)' => (cpc \notin Early \cup {"write"})' /\ (sock[k].snd_nxt >= 3)'
    BY <1>8 DEF Early, Waiting
  <2>2. \A y \in Child : Ended(y)' => cpc' = "closed" /\ (sock[y].rcv_nxt = sock[k].snd_nxt)'
    BY <1>8 DEF Ended
  <2>3. (cpc \in Early)' => accept_queue' = <<>> /\ accepted' = {}
    BY <1>8 DEF Early, Waiting
  <2> QED
    BY <2>1, <2>2, <2>3 DEF ReachedAt
<1> USE DEF nxt2
<1>11. sock'[k].state = "TIME_WAIT" => AnyEnded'
  BY DEF AnyEnded, Ended
<1>12. ASSUME \A i \in DOMAIN AtServer' : SentAt(AtServer'[i], cpc', nxt2)
       PROVE  ClientRuns(k)'
  <2>2. /\ StateIsAt(cpc, sock[k].state)' /\ BuffersAt(cpc, sock[k].send_buf, sock[k].snd_nxt)'
        /\ Quits(wait_connect, cpc, sock[k].send_buf)' /\ NumberAt(cpc, sock[k].snd_nxt)'
    BY DEF StateIsAt, BuffersAt, Quits, NumberAt
  <2>3. (\A i \in DOMAIN AtServer : SentAt(AtServer[i], cpc, sock[k].snd_nxt))'
    BY <1>12 DEF SentAt
  <2> QED
    BY <1>11, <1>13, <2>2, <2>3 DEF ClientRuns, Early, Waiting
<1> HIDE DEF nxt2
<1>9. CASE AtServer' = AtServer
  <2>1. \A i \in DOMAIN AtServer' : SentAt(AtServer'[i], cpc', nxt2)
    BY <1>5, <1>7, <1>9
  <2>2. ClientRuns(k)'
    BY <1>12, <2>1
  <2> QED
    BY <1>2, <1>3, <1>9, <2>2 DEF OneInv
<1>10. ASSUME NEW p, Grown(AtServer', AtServer, p), Says(p, cpc', nxt2)  PROVE OneInv'
  <2>1. \A i \in DOMAIN AtServer' : /\ i \in Nat
                                    /\ \/ i \in DOMAIN AtServer /\ AtServer'[i] = AtServer[i]
                                       \/ AtServer'[i] = p /\ \A j \in DOMAIN AtServer' : j <= i
    BY <1>10 DEF Grown
  <2>2. GoodUp(p) /\ SentAt(p, cpc', nxt2) /\ (p.kind # "PSH" => SeqEnd(p) = nxt2)
    BY <1>10 DEF Says
  <2>3. \A i \in DOMAIN AtServer :
          /\ AtServer[i].kind \in {"PSH", "FIN"} => Past(p)
          /\ AtServer[i].kind = "FIN" => Final(p, SeqEnd(AtServer[i]))
    <3> TAKE i \in DOMAIN AtServer
    <3>1. SentAt(AtServer[i], cpc, nxt) /\ AtServer[i] \in PacketType /\ GoodUp(AtServer[i])
      BY <1>1, <1>5 DEF UpInOrder
    <3>2. CASE AtServer[i].kind = "PSH"
      BY <1>4, <1>6, <2>2, <3>1, <3>2 DEF SentAt, Past
    <3>3. CASE AtServer[i].kind = "FIN"
      <4>1. nxt2 = nxt /\ SeqEnd(AtServer[i]) = nxt
        BY <1>6, <3>1, <3>3 DEF SentAt, Goes
      <4>2. nxt >= 3
        BY <3>1, <3>3, <4>1 DEF GoodUp, SeqEnd, HasSyn, HasFin, PacketType
      <4> QED
        BY <2>2, <3>3, <4>1, <4>2 DEF Past, Final
    <3> QED
      BY <3>2, <3>3
  <2>4. UpInOrder'
    <3>1. \A i \in DOMAIN AtServer' : GoodUp(AtServer'[i])
      BY <1>1, <2>1, <2>2 DEF UpInOrder
    <3>2. ASSUME NEW i \in DOMAIN AtServer', NEW j \in DOMAIN AtServer', i < j
          PROVE  /\ AtServer'[i].kind \in {"PSH", "FIN"} => Past(AtServer'[j])
                 /\ AtServer'[i].kind = "FIN" => Final(AtServer'[j], SeqEnd(AtServer'[i]))
      <4>1. i \in DOMAIN AtServer /\ AtServer'[i] = AtServer[i]
        BY <2>1, <3>2
      <4>2. CASE j \in DOMAIN AtServer /\ AtServer'[j] = AtServer[j]
        BY <1>1, <3>2, <4>1, <4>2 DEF UpInOrder
      <4>3. CASE AtServer'[j] = p
        BY <2>3, <4>1, <4>3
      <4> QED
        BY <2>1, <4>2, <4>3
    <3> QED
      BY <3>1, <3>2 DEF UpInOrder
  <2>5. OneChild'
    <3>1. ASSUME NEW y \in Child  PROVE ChildIs(y, sock[y], AtServer', hl.next[Table])
      <4>1. ChildIs(y, sock[y], AtServer, hl.next[Table])
        BY <1>1 DEF OneChild
      <4>2. sock[y].got = 1 => \A i \in DOMAIN AtServer' : Past(AtServer'[i])
        <5>1. sock[y].got = 1 => Past(p)
          BY <1>4, <1>5, <1>6, <2>2 DEF ReachedAt, Past
        <5> QED
          BY <2>1, <4>1, <5>1 DEF ChildIs
      <4>3. sock[y].snd_nxt >= 3 => \A i \in DOMAIN AtServer' : Final(AtServer'[i], sock[y].rcv_nxt)
        <5>1. sock[y].snd_nxt >= 3 => Final(p, sock[y].rcv_nxt)
          BY <1>5, <1>6, <2>2 DEF ReachedAt, Ended, Goes, Final
        <5> QED
          BY <2>1, <4>1, <5>1 DEF ChildIs
      <4> QED
        BY <4>1, <4>2, <4>3 DEF ChildIs
    <3> QED
      BY <1>1, <3>1 DEF OneChild, Fresh
  <2>6. \A i \in DOMAIN AtServer' : SentAt(AtServer'[i], cpc', nxt2)
    BY <1>5, <1>7, <2>1, <2>2
  <2>7. ClientRuns(k)'
    BY <1>12, <2>6
  <2> QED
    BY <1>2, <1>3, <2>4, <2>5, <2>7 DEF OneInv
<1> QED
  BY <1>9, <1>10 DEF nxt2

\* The timers of the client are not those of the server.
LEMMA OtherTimers ==
  ASSUME ConnInv, NEW x \in Client, NEW t \in {RetransTimer(x), Timewait(x)},
         tl' = list_add_tail(tl, t, TimerHead(x)) \/ tl' = list_delete_entry(tl, t)
  PROVE  \A y \in InServer : tl'.next[y] = tl.next[y] /\ tl'.prev[y] = tl.prev[y]
<1>1. tl \in Memory(TimerNode) /\ Closed(tl, InClient)
  BY DEF ConnInv, AppInv, ClientInv
<1>2. /\ InClient \in SUBSET TimerNode /\ t \in InClient /\ t # CHead /\ CHead \in InClient
      /\ \A y \in InServer : y \in TimerNode \ InClient
  BY TimerNodes
<1>3. TimerHead(x) = CHead
  BY Heads
<1>4. CASE tl' = list_add_tail(tl, t, TimerHead(x))
  BY <1>1, <1>2, <1>3, <1>4, AddWithin
<1>5. CASE tl' = list_delete_entry(tl, t)
  BY <1>1, <1>2, <1>5, DeleteWithin
<1> QED
  BY <1>4, <1>5

\* The client's socket x becomes t when it handles the packet p.
LEMMA ClientHandles ==
  ASSUME ConnInv, ConnInv', OneInv, OneClient, Up, NEW x \in Client, NEW p, For(x, p),
         NEW t, NEW ps, Becomes(x, t, ps), UNCHANGED <<hl, running, unused, cpc, threadVars>>,
         t.snd_nxt = sock[x].snd_nxt, Len(t.send_buf) <= Len(sock[x].send_buf),
         \A i \in DOMAIN t.send_buf : \E j \in DOMAIN sock[x].send_buf : t.send_buf[i] = sock[x].send_buf[j],
         StateIsAt(cpc, t.state), t.state = "TIME_WAIT" => AnyEnded,
         wait_connect' = wait_connect \/ DOMAIN t.send_buf = {},
         tl' = tl \/ tl' = ArmTimewait(x),
         \/ ps = <<>>
         \/ \E q \in PacketType : ps = <<q>> /\ q.kind = "ACK" /\ q.seq = t.snd_nxt /\ cpc \notin Early
  PROVE  OneInv'
<1>1. /\ x \in running /\ cpc # "connect" /\ x \in Sock /\ HostOf(x) = "client" /\ Peer(x) = "server"
      /\ \A y \in Child : y \in Sock /\ y # x
  BY Heads, ForIs
<1>2. ClientRuns(x)
  BY <1>1 DEF OneInv
<1>3. /\ sock'[x] = t /\ \A y \in Sock : y # x => sock'[y] = sock[y]
      /\ AtClient # <<>> /\ AtClient' = Tail(AtClient)
      /\ ps = <<>> => AtServer' = AtServer
      /\ \A q \in PacketType : ps = <<q>> => Grown(AtServer', AtServer, q)
  BY <1>1, BecomesIs DEF AtServer, AtClient
<1>4. /\ sock[x].send_buf \in Seq(Buffers) /\ sock[x].snd_nxt \in Nat /\ Len(t.send_buf) \in Nat
      /\ t.send_buf \in Seq(Buffers)
  <2>1. sock[x] \in Counted /\ sock'[x] \in Counted
    BY <1>1 DEF ConnInv, SockInv
  <2> QED
    BY <1>3, <2>1 DEF Counted, SockType
<1>5. \A i \in DOMAIN AtClient' : \E j \in DOMAIN AtClient : AtClient'[i] = AtClient[j]
  <2>1. AtClient \in Seq(PacketType)
    BY DEF ConnInv, AppInv, Nets, AtClient
  <2> QED
    BY <1>3, <2>1, Shift
<1>6. \A y \in InServer : tl'.next[y] = tl.next[y] /\ tl'.prev[y] = tl.prev[y]
  <2>1. CASE tl' = tl
    BY <2>1
  <2>2. CASE tl' = ArmTimewait(x)
    BY <2>2, OtherTimers DEF ArmTimewait
  <2> QED
    BY <2>1, <2>2
<1>7. \/ AtServer' = AtServer
      \/ \E q : Grown(AtServer', AtServer, q) /\ Says(q, cpc', sock'[x].snd_nxt)
  <2>1. CASE ps = <<>>
    BY <1>3, <2>1
  <2>2. ASSUME NEW q \in PacketType, ps = <<q>>, q.kind = "ACK", q.seq = t.snd_nxt, cpc \notin Early
        PROVE  Grown(AtServer', AtServer, q) /\ Says(q, cpc', sock'[x].snd_nxt)
    <3>1. Grown(AtServer', AtServer, q)
      BY <1>3, <2>2
    <3>2. q.seq = sock'[x].snd_nxt /\ cpc' = cpc /\ sock'[x].snd_nxt \in Nat
      BY <1>3, <1>4, <2>2
    <3>3. SeqEnd(q) = sock'[x].snd_nxt
      BY <2>2, <3>2 DEF SeqEnd, HasSyn, HasFin
    <3> QED
      BY <2>2, <3>1, <3>2, <3>3 DEF Says, GoodUp, SentAt
  <2> QED
    BY <2>1, <2>2
<1>8. /\ cpc' = cpc /\ cpc \in Early \cup {"write", "close", "closing", "fin", "closed"}
      /\ StateIsAt(cpc', sock'[x].state) /\ (sock'[x].state = "TIME_WAIT" => AnyEnded)
      /\ NumberAt(cpc', sock'[x].snd_nxt)
      /\ Goes(cpc, sock[x].snd_nxt, cpc', sock'[x].snd_nxt)
  BY <1>2, <1>3, <1>4 DEF ClientRuns, Goes
<1>9. BuffersAt(cpc', sock'[x].send_buf, sock'[x].snd_nxt)
  <2>1. BuffersAt(cpc, sock[x].send_buf, sock[x].snd_nxt)
    BY <1>2 DEF ClientRuns
  <2>2. Len(sock[x].send_buf) \in Nat
    BY <1>4
  <2>3. cpc \in Early => Len(t.send_buf) <= 1
    BY <1>4, <2>1, <2>2 DEF BuffersAt
  <2>4. \A i \in DOMAIN t.send_buf :
          /\ t.send_buf[i].pkt.kind \in {"SYN", "PSH", "FIN"} /\ GoodUp(t.send_buf[i].pkt)
          /\ t.send_buf[i].pkt.kind = "FIN" => cpc = "closed" /\ SeqEnd(t.send_buf[i].pkt) = t.snd_nxt
          /\ t.send_buf[i].pkt.kind = "PSH" => cpc \notin Early \cup {"write"} /\ t.snd_nxt >= 3
    BY <2>1 DEF BuffersAt
  <2> QED
    BY <1>1, <1>3, <1>8, <2>3, <2>4 DEF BuffersAt
<1>10. Quits(wait_connect', cpc', sock'[x].send_buf)
  <2>1. Quits(wait_connect, cpc, sock[x].send_buf)
    BY <1>2 DEF ClientRuns
  <2> QED
    BY <1>1, <1>3, <2>1 DEF Quits
<1>11. \A y \in Child : sock'[y] = sock[y]
  BY <1>1, <1>3
<1> QED
  BY <1>1, <1>5, <1>6, <1>7, <1>8, <1>9, <1>10, <1>11, ClientDoes DEF threadVars

LEMMA OneSynSent ==
  ASSUME ConnInv, ConnInv', OneInv, OneClient, Up, NEW x \in Sock, RecvSynSent(x)
  PROVE  OneInv'
<1>1. PICK p \in Packets :
        /\ For(x, p) /\ sock[x].state = "SYN_SENT"
        /\ Becomes(x, Acknowledged(sock[x], p), <<>>)
        /\ wait_connect' = IF p.kind = "SYNACK" THEN wake_up(wait_connect) ELSE wait_connect
        /\ UNCHANGED <<hl, tl, running, unused, cpc, threadVars>>
  BY DEF RecvSynSent
<1> DEFINE t == Acknowledged(sock[x], p)
<1>2. x \in Client
  BY <1>1, Heads DEF ConnInv, SockInv
<1>3. /\ p \in PacketType /\ sock[x] \in Counted /\ x \in running /\ cpc # "connect"
      /\ HostOf(x) = "client"
  BY <1>1, <1>2, ForIs, Heads
<1>4. ClientRuns(x)
  BY <1>3 DEF OneInv
<1>5. /\ t.state = "SYN_SENT" /\ t.snd_nxt = sock[x].snd_nxt /\ Len(t.send_buf) <= Len(sock[x].send_buf)
      /\ \A i \in DOMAIN t.send_buf : \E j \in DOMAIN sock[x].send_buf : t.send_buf[i] = sock[x].send_buf[j]
      /\ HasAck(p) /\ (\A i \in DOMAIN sock[x].send_buf : SeqEnd(sock[x].send_buf[i].pkt) <= p.ack)
           => DOMAIN t.send_buf = {}
  <2>1. /\ sock[x] \in Counted /\ p \in PacketType
        /\ sock[x].state = "SYN_SENT"
    BY <1>1, <1>3
  <2>2. t.state = sock[x].state /\ t.snd_nxt = sock[x].snd_nxt
    BY <2>1, AcknowledgedIs
  <2>3. /\ Len(t.send_buf) <= Len(sock[x].send_buf)
        /\ \A i \in DOMAIN t.send_buf : \E j \in DOMAIN sock[x].send_buf : t.send_buf[i] = sock[x].send_buf[j]
        /\ HasAck(p) /\ (\A i \in DOMAIN sock[x].send_buf : SeqEnd(sock[x].send_buf[i].pkt) <= p.ack)
             => DOMAIN t.send_buf = {}
    BY <2>1, AcknowledgedHas
  <2> QED
    BY <2>1, <2>2, <2>3
<1> HIDE DEF t
<1>6. StateIsAt(cpc, "SYN_SENT") /\ cpc \in Early
  BY <1>1, <1>4 DEF ClientRuns, StateIsAt, Early, Waiting
<1>7. p.kind = "SYNACK" => DOMAIN t.send_buf = {}
  <2> SUFFICES ASSUME p.kind = "SYNACK"  PROVE DOMAIN t.send_buf = {}
    OBVIOUS
  <2>1. AtClient # <<>> /\ p = AtClient[1] /\ 1 \in DOMAIN AtClient
    BY <1>1, <1>2, <1>3, BecomesIs, Heads DEF AtClient
  <2>2. p.ack >= 2 /\ HasAck(p) /\ p.ack \in Nat
    BY <1>3, <2>1 DEF OneInv, Down, GoodDown, HasAck, PacketType
  <2>3. \A i \in DOMAIN sock[x].send_buf : SeqEnd(sock[x].send_buf[i].pkt) <= p.ack
    <3> TAKE i \in DOMAIN sock[x].send_buf
    <3>1. sock[x].send_buf[i].pkt.kind = "SYN" /\ GoodUp(sock[x].send_buf[i].pkt)
      BY <1>4, <1>6 DEF ClientRuns, BuffersAt, Early, Waiting
    <3>2. SeqEnd(sock[x].send_buf[i].pkt) = 2
      BY <3>1 DEF GoodUp, SeqEnd, HasSyn
    <3> QED
      BY <2>2, <3>2
  <2> QED
    BY <1>5, <2>2, <2>3
<1>8. wait_connect' = wait_connect \/ DOMAIN t.send_buf = {}
  BY <1>1, <1>7
<1>9. Becomes(x, t, <<>>) /\ UNCHANGED <<hl, running, unused, cpc, threadVars>> /\ tl' = tl
  BY <1>1 DEF t
<1> QED
  BY <1>1, <1>2, <1>5, <1>6, <1>8, <1>9, ClientHandles

\* What the client receives: no data, and a FIN only after its own application is done.
LEMMA ClientHears ==
  ASSUME ConnInv, OneInv, Up, NEW x \in Client, NEW p, For(x, p), NEW s, NEW ps, Becomes(x, s, ps)
  PROVE  /\ p.kind # "PSH" /\ ClientRuns(x)
         /\ HasFin(p) => AnyEnded /\ cpc = "closed"
<1>1. x \in running /\ x \in Sock /\ HostOf(x) = "client"
  BY Heads, ForIs
<1>2. p = AtClient[1] /\ 1 \in DOMAIN AtClient
  BY <1>1, BecomesIs DEF AtClient
<1>3. GoodDown(p, AnyEnded) /\ ClientRuns(x)
  BY <1>1, <1>2 DEF OneInv, Down
<1>4. AnyEnded => cpc = "closed"
  BY <1>3 DEF ClientRuns, ReachedAt, AnyEnded
<1> QED
  BY <1>3, <1>4 DEF GoodDown

LEMMA OneEstablished ==
  ASSUME ConnInv, ConnInv', OneInv, OneClient, Up, NEW x \in Client, RecvEstablished(x)
  PROVE  OneInv'
<1>1. PICK p \in Packets :
        LET s == Acknowledged(sock[x], p)
        IN  /\ For(x, p) /\ sock[x].state = "ESTABLISHED"
            /\ IF HasFin(p)
               THEN LET t == [s EXCEPT !.state = "LAST_ACK"]
                    IN  /\ Becomes(x, Hold(Sent(t, "FINACK")), <<Packet(t, "FINACK")>>)
                        /\ tl' = ArmTimewait(x)
               ELSE /\ IF p.kind = "PSH"
                       THEN LET t == Accept(s, p) IN Becomes(x, t, <<Packet(t, "ACK")>>)
                       ELSE Becomes(x, s, <<>>)
                    /\ UNCHANGED tl
            /\ UNCHANGED <<hl, clientVars, threadVars>>
  BY DEF RecvEstablished
<1> DEFINE s == Acknowledged(sock[x], p)
<1>2. p.kind # "PSH" /\ ClientRuns(x) /\ (HasFin(p) => cpc = "closed")
  BY <1>1, ClientHears
<1>3. ~HasFin(p)
  BY <1>1, <1>2 DEF ClientRuns, StateIsAt
<1>4. /\ Becomes(x, s, <<>>) /\ tl' = tl /\ For(x, p)
      /\ UNCHANGED <<hl, running, unused, cpc, threadVars>> /\ wait_connect' = wait_connect
  BY <1>1, <1>2, <1>3 DEF clientVars
<1>5. x \in Sock /\ p \in PacketType /\ sock[x] \in Counted
  BY <1>4, Heads, ForIs
<1>6. /\ s.state = sock[x].state /\ s.snd_nxt = sock[x].snd_nxt /\ Len(s.send_buf) <= Len(sock[x].send_buf)
      /\ \A i \in DOMAIN s.send_buf : \E j \in DOMAIN sock[x].send_buf : s.send_buf[i] = sock[x].send_buf[j]
  BY <1>5, AcknowledgedIs, AcknowledgedHas
<1> HIDE DEF s
<1>7. StateIsAt(cpc, s.state) /\ s.state # "TIME_WAIT"
  BY <1>1, <1>2, <1>6 DEF ClientRuns
<1> QED
  BY <1>4, <1>6, <1>7, ClientHandles

LEMMA OneFinWait ==
  ASSUME ConnInv, ConnInv', OneInv, OneClient, Up, NEW x \in Client, RecvFinWait1(x) \/ RecvFinWait2(x)
  PROVE  OneInv'
<1>1. PICK p \in Packets :
        /\ For(x, p) /\ sock[x].state \in {"FIN_WAIT_1", "FIN_WAIT_2"}
        /\ LET s == Acknowledged(sock[x], p)
               t == [s EXCEPT !.state = "TIME_WAIT"]
           IN  \/ /\ Becomes(x, Hold(t), <<Packet(t, "ACK")>>) /\ tl' = ArmTimewait(x)
                  /\ HasFin(p)
               \/ Becomes(x, [s EXCEPT !.state = "FIN_WAIT_2"], <<>>) /\ UNCHANGED tl
               \/ Becomes(x, s, <<>>) /\ UNCHANGED tl
        /\ UNCHANGED <<hl, clientVars, threadVars>>
  <2>1. CASE RecvFinWait1(x)
    BY <2>1 DEF RecvFinWait1, PeerClosed, HasFin
  <2>2. CASE RecvFinWait2(x)
    BY <2>2 DEF RecvFinWait2
  <2> QED
    BY <2>1, <2>2
<1> DEFINE s == Acknowledged(sock[x], p)
           t == [s EXCEPT !.state = "TIME_WAIT"]
           h == Hold(t)
           f == [s EXCEPT !.state = "FIN_WAIT_2"]
<1>2. x \in Sock /\ p \in PacketType /\ sock[x] \in Counted /\ s \in Counted /\ ~sock[x].freed
  BY <1>1, Heads, ForIs
<1>3. /\ s.state = sock[x].state /\ s.snd_nxt = sock[x].snd_nxt /\ Len(s.send_buf) <= Len(sock[x].send_buf)
      /\ s.freed = sock[x].freed
      /\ \A i \in DOMAIN s.send_buf : \E j \in DOMAIN sock[x].send_buf : s.send_buf[i] = sock[x].send_buf[j]
  BY <1>2, AcknowledgedIs, AcknowledgedHas
<1> HIDE DEF s
<1>4. ClientRuns(x)
  BY <1>1, ClientHears
<1>5. /\ UNCHANGED <<hl, running, unused, cpc, threadVars>> /\ wait_connect' = wait_connect
  BY <1>1 DEF clientVars
<1>6. cpc \in {"fin", "closed"} /\ cpc \notin Early
  BY <1>1, <1>4 DEF ClientRuns, StateIsAt, Early, Waiting
<1>7. /\ StateIsAt(cpc, "TIME_WAIT") /\ StateIsAt(cpc, "FIN_WAIT_2") /\ StateIsAt(cpc, s.state)
      /\ s.state # "TIME_WAIT"
  BY <1>1, <1>3, <1>6 DEF StateIsAt
<1>8. CASE Becomes(x, h, <<Packet(t, "ACK")>>) /\ tl' = ArmTimewait(x) /\ HasFin(p)
  <2>1. "TIME_WAIT" \in States
    BY DEF States
  <2>2. t \in Counted /\ t.state = "TIME_WAIT" /\ t.snd_nxt = sock[x].snd_nxt /\ ~t.freed
        /\ t.send_buf = s.send_buf
    BY <1>2, <1>3, <2>1, StateIs, StateHas
  <2> HIDE DEF t
  <2>3. Packet(t, "ACK") \in PacketType /\ Packet(t, "ACK").kind = "ACK" /\ Packet(t, "ACK").seq = t.snd_nxt
    <3>1. "ACK" \in Kinds
      BY DEF Kinds
    <3> QED
      BY <2>2, <3>1, PacketIs DEF Counted, Packet
  <2>4. h.state = "TIME_WAIT" /\ h.snd_nxt = t.snd_nxt /\ h.send_buf = s.send_buf
    BY <2>2, HoldIs, HoldHas
  <2> DEFINE q == Packet(t, "ACK")
  <2>5. q \in PacketType /\ <<q>> = <<q>> /\ q.kind = "ACK" /\ q.seq = h.snd_nxt
    BY <2>3, <2>4
  <2>6. AnyEnded
    BY <1>1, <1>8, ClientHears
  <2>7. Becomes(x, h, <<q>>)
    BY <1>8
  <2> HIDE DEF h, q
  <2> QED
    BY <1>1, <1>3, <1>5, <1>6, <1>7, <1>8, <2>2, <2>4, <2>5, <2>6, <2>7, ClientHandles
<1>9. CASE Becomes(x, f, <<>>) /\ UNCHANGED tl
  <2>1. "FIN_WAIT_2" \in States
    BY DEF States
  <2>2. f.state = "FIN_WAIT_2" /\ f.snd_nxt = sock[x].snd_nxt /\ f.send_buf = s.send_buf
    BY <1>2, <1>3, <2>1, StateIs, StateHas
  <2> HIDE DEF f
  <2> QED
    BY <1>1, <1>3, <1>5, <1>7, <1>9, <2>2, ClientHandles
<1>10. CASE Becomes(x, s, <<>>) /\ UNCHANGED tl
  BY <1>1, <1>3, <1>5, <1>7, <1>10, ClientHandles
<1> QED
  BY <1>1, <1>8, <1>9, <1>10 DEF s

LEMMA OneIgnored ==
  ASSUME ConnInv, ConnInv', OneInv, OneClient, Up, NEW x \in Client, RecvIgnored(x) \/ RecvLastAck(x)
  PROVE  OneInv'
<1>1. PICK p \in Packets :
        /\ For(x, p) /\ sock[x].state \in {"CLOSED", "TIME_WAIT", "LAST_ACK"}
        /\ \E t, ps : Becomes(x, t, ps)
        /\ sock[x].state # "LAST_ACK" => /\ Becomes(x, Acknowledged(sock[x], p), <<>>)
                                         /\ UNCHANGED <<hl, tl, clientVars, threadVars>>
  BY DEF RecvIgnored, RecvLastAck
<1> DEFINE s == Acknowledged(sock[x], p)
<1>2. ClientRuns(x)
  BY <1>1, ClientHears
<1>3. sock[x].state # "LAST_ACK"
  BY <1>2 DEF ClientRuns, StateIsAt, Early, Waiting
<1>4. /\ Becomes(x, s, <<>>) /\ tl' = tl /\ For(x, p)
      /\ UNCHANGED <<hl, running, unused, cpc, threadVars>> /\ wait_connect' = wait_connect
  BY <1>1, <1>3 DEF clientVars
<1>5. x \in Sock /\ p \in PacketType /\ sock[x] \in Counted
  BY <1>4, Heads, ForIs
<1>6. /\ s.state = sock[x].state /\ s.snd_nxt = sock[x].snd_nxt /\ Len(s.send_buf) <= Len(sock[x].send_buf)
      /\ \A i \in DOMAIN s.send_buf : \E j \in DOMAIN sock[x].send_buf : s.send_buf[i] = sock[x].send_buf[j]
  BY <1>5, AcknowledgedIs, AcknowledgedHas
<1> HIDE DEF s
<1>7. StateIsAt(cpc, s.state) /\ (s.state = "TIME_WAIT" => AnyEnded)
  BY <1>2, <1>6 DEF ClientRuns
<1> QED
  BY <1>4, <1>6, <1>7, ClientHandles

\* The client after a step of its timer thread: the packets kept for retransmission
\* are the same, one of them counted once more or none.
LEMMA ClientTicks ==
  ASSUME ConnInv, ConnInv', OneInv, OneClient, NEW x \in running, NEW t, sock' = [sock EXCEPT ![x] = t],
         UNCHANGED <<running, unused, cpc, accept_queue, accepted, queued>>, hl'.next[Table] = hl.next[Table],
         tl' = tl \/ \E u \in {RetransTimer(x), Timewait(x)} : tl' = list_delete_entry(tl, u),
         t.snd_nxt = sock[x].snd_nxt, Len(t.send_buf) = Len(sock[x].send_buf),
         DOMAIN t.send_buf = DOMAIN sock[x].send_buf,
         \A i \in DOMAIN t.send_buf : t.send_buf[i].pkt = sock[x].send_buf[i].pkt,
         t.state \in {sock[x].state, "CLOSED"}, Quits(wait_connect', cpc, t.send_buf),
         \/ AtServer' = AtServer
         \/ \E p : Grown(AtServer', AtServer, p) /\ Says(p, cpc, sock[x].snd_nxt),
         AtClient' = AtClient
  PROVE  OneInv'
<1>1. x \in Client /\ x \in Sock /\ \A y \in Child : y \in Sock /\ y # x
  BY Heads DEF ConnInv, AppInv
<1>2. ClientRuns(x)
  BY DEF OneInv
<1>3. sock'[x] = t /\ \A y \in Child : sock'[y] = sock[y]
  BY <1>1 DEF ConnInv, SockInv
<1>4. \A y \in InServer : tl'.next[y] = tl.next[y] /\ tl'.prev[y] = tl.prev[y]
  BY <1>1, OtherTimers
<1>5. sock[x].snd_nxt \in Nat
  BY <1>1 DEF ConnInv, SockInv, Counted, SockType
<1>6. /\ cpc' \in Early \cup {"write", "close", "closing", "fin", "closed"}
      /\ Goes(cpc, sock[x].snd_nxt, cpc', sock'[x].snd_nxt) /\ NumberAt(cpc', sock'[x].snd_nxt)
  BY <1>2, <1>3, <1>5 DEF ClientRuns, Goes
<1>7. StateIsAt(cpc', sock'[x].state) /\ (sock'[x].state = "TIME_WAIT" => AnyEnded)
  BY <1>2, <1>3 DEF ClientRuns, StateIsAt
<1>8. BuffersAt(cpc', sock'[x].send_buf, sock'[x].snd_nxt)
  BY <1>2, <1>3 DEF ClientRuns, BuffersAt
<1>9. Quits(wait_connect', cpc', sock'[x].send_buf)
  BY <1>3 DEF Quits
<1>10. \A i \in DOMAIN AtClient' : \E j \in DOMAIN AtClient : AtClient'[i] = AtClient[j]
  OBVIOUS
<1>11. \/ AtServer' = AtServer
       \/ \E p : Grown(AtServer', AtServer, p) /\ Says(p, cpc', sock'[x].snd_nxt)
  BY <1>3 DEF Says, SentAt
<1> QED
  BY <1>3, <1>4, <1>6, <1>7, <1>8, <1>9, <1>10, <1>11, ClientDoes

LEMMA OneClientTimer ==
  ASSUME ConnInv, ConnInv', OneInv, OneClient, Up, NEW x \in Client,
         \/ TimewaitExpires(x)
         \/ \E i \in DOMAIN sock[x].send_buf : Resend(x, i) \/ GiveUp(x, i)
  PROVE  OneInv'
<1>1. /\ x \in Sock /\ x \notin Child /\ Peer(x) = "server" /\ "client" \in Hosts /\ "server" \in Hosts
  BY Heads DEF Hosts
<1>2. sock[x] \in Counted /\ hl \in Memory(HashNode) /\ HashInv
  BY <1>1 DEF ConnInv, SockInv, AppInv
<1>3. RetransTimer(x) \in {RetransTimer(x), Timewait(x)} /\ Timewait(x) \in {RetransTimer(x), Timewait(x)}
  OBVIOUS
<1>4. x \in running => ClientRuns(x)
  BY DEF OneInv
<1>5. Unhash(x).next[Table] = hl.next[Table]
  BY <1>1, <1>2, UnhashIs
<1>6. CASE TimewaitExpires(x)
  <2> DEFINE e == [sock[x] EXCEPT !.state = "CLOSED"]
             b == Unbound(e, x)
             u == Unhashed(b, x)
  <2>1. /\ Armed(Timewait(x), x) /\ tl' = list_delete_entry(tl, Timewait(x))
        /\ sock' = [sock EXCEPT ![x] = u] /\ hl' = Unhash(x)
        /\ UNCHANGED <<net, clientVars, threadVars>>
    BY <1>6 DEF TimewaitExpires
  <2>2. x \in running /\ ClientRuns(x) /\ ~sock[x].freed
    BY <1>1, <1>3, <1>4, <2>1, ArmedIs
  <2>3. e \in Counted /\ e.state = "CLOSED" /\ e.snd_nxt = sock[x].snd_nxt
        /\ e.send_buf = sock[x].send_buf /\ ~e.freed
    <3>1. "CLOSED" \in States
      BY DEF States
    <3> QED
      BY <1>2, <2>2, <3>1, StateIs, StateHas
  <2> HIDE DEF e
  <2>4. b \in Counted /\ b.state = "CLOSED" /\ b.snd_nxt = sock[x].snd_nxt /\ b.send_buf = sock[x].send_buf
    BY <2>3, HoldHas, ReleaseIs DEF Unbound
  <2> HIDE DEF b
  <2>5. u.state = "CLOSED" /\ u.snd_nxt = sock[x].snd_nxt /\ u.send_buf = sock[x].send_buf
    BY <2>4, HoldHas
  <2> HIDE DEF u
  <2>6. /\ UNCHANGED <<running, unused, cpc, wait_connect, accept_queue, accepted, queued>>
        /\ AtServer' = AtServer /\ AtClient' = AtClient
    BY <2>1 DEF clientVars, threadVars, AtServer, AtClient
  <2>7. Quits(wait_connect', cpc, u.send_buf)
    BY <2>2, <2>5, <2>6 DEF ClientRuns
  <2> QED
    BY <1>3, <1>5, <2>1, <2>2, <2>5, <2>6, <2>7, ClientTicks
<1>7. ASSUME NEW i \in DOMAIN sock[x].send_buf, Resend(x, i)  PROVE OneInv'
  <2> DEFINE t == Tried(sock[x], i)
             q == sock[x].send_buf[i].pkt
  <2>1. /\ Armed(RetransTimer(x), x) /\ sock[x].send_buf[i].times < MaxTimes
        /\ sock' = [sock EXCEPT ![x] = t]
        /\ net' = Transmit(net, "server", <<q>>)
        /\ UNCHANGED <<hl, tl, clientVars, threadVars>>
    BY <1>1, <1>7 DEF Resend
  <2>2. x \in running /\ ClientRuns(x)
    BY <1>1, <1>3, <1>4, <2>1, ArmedIs
  <2>4. \A j \in DOMAIN sock[x].send_buf : sock[x].send_buf[j] \in Buffers
    BY <1>2 DEF Counted, SockType
  <2>5. /\ q \in PacketType /\ t.state = sock[x].state /\ t.snd_nxt = sock[x].snd_nxt
    <3>1. sock[x].send_buf[i].times <= MaxTimes
      BY <1>7, <2>1, <2>4, ConnAssumption DEF Buffers
    <3> QED
      BY <1>2, <1>7, <3>1, TimesIs
  <2>6. /\ DOMAIN t.send_buf = DOMAIN sock[x].send_buf /\ Len(t.send_buf) = Len(sock[x].send_buf)
        /\ \A j \in DOMAIN sock[x].send_buf :
             /\ t.send_buf[j].pkt = sock[x].send_buf[j].pkt
             /\ t.send_buf[j].times = IF j = i THEN sock[x].send_buf[i].times + 1 ELSE sock[x].send_buf[j].times
    BY <1>2, <1>7, TimesHas
  <2> HIDE DEF t
  <2>7. UNCHANGED <<running, unused, cpc, wait_connect, accept_queue, accepted, queued>> /\ hl' = hl /\ tl' = tl
    BY <2>1 DEF clientVars, threadVars
  <2>8. Quits(wait_connect', cpc, t.send_buf)
    <3>1. Quits(wait_connect, cpc, sock[x].send_buf)
      BY <2>2 DEF ClientRuns
    <3>2. \A j \in DOMAIN sock[x].send_buf : sock[x].send_buf[j].times \in Nat
      BY <2>4, ConnAssumption DEF Buffers
    <3>3. \A j \in DOMAIN sock[x].send_buf :
            sock[x].send_buf[j].times > MaxTimes => t.send_buf[j].times > MaxTimes
      BY <1>7, <2>6, <3>2, ConnAssumption
    <3> QED
      BY <2>6, <2>7, <3>1, <3>3 DEF Quits
  <2>9. Says(q, cpc, sock[x].snd_nxt)
    <3>1. /\ BuffersAt(cpc, sock[x].send_buf, sock[x].snd_nxt)
          /\ Quits(wait_connect, cpc, sock[x].send_buf)
          /\ NumberAt(cpc, sock[x].snd_nxt)
      BY <2>2 DEF ClientRuns
    <3>2. /\ q.kind \in {"SYN", "PSH", "FIN"} /\ GoodUp(q)
          /\ q.kind = "FIN" => cpc = "closed" /\ SeqEnd(q) = sock[x].snd_nxt
          /\ q.kind = "PSH" => cpc \notin Early \cup {"write"} /\ sock[x].snd_nxt >= 3
      BY <1>7, <3>1 DEF BuffersAt
    <3>3. q.kind = "SYN" => SeqEnd(q) = sock[x].snd_nxt
      <4>1. q.kind = "SYN" => cpc \in Waiting
        <5>1. ~ (sock[x].send_buf[i].times > MaxTimes)
          BY <1>7, <2>1, <2>4, ConnAssumption DEF Buffers
        <5> QED
          BY <1>7, <3>1, <5>1 DEF Quits
      <4>2. cpc # "connect"
        BY <1>7, <3>1 DEF BuffersAt
      <4>3. q.kind = "SYN" => sock[x].snd_nxt = 2
        BY <3>1, <4>1, <4>2 DEF NumberAt, Early
      <4>4. q.kind = "SYN" => SeqEnd(q) = 2
        BY <3>2 DEF GoodUp, SeqEnd, HasSyn
      <4> QED
        BY <4>3, <4>4
    <3>4. SentAt(q, cpc, sock[x].snd_nxt)
      BY <3>2 DEF SentAt, Early, Waiting
    <3> QED
      BY <3>2, <3>3, <3>4 DEF Says
  <2> HIDE DEF q
  <2>10. Grown(AtServer', AtServer, q) /\ AtClient' = AtClient
    BY <1>1, <2>1, <2>5, SendsIs DEF AtClient, AtServer
  <2> QED
    BY <2>1, <2>2, <2>5, <2>6, <2>7, <2>8, <2>9, <2>10, ClientTicks
<1>8. ASSUME NEW i \in DOMAIN sock[x].send_buf, GiveUp(x, i)  PROVE OneInv'
  <2> DEFINE t == Tried(sock[x], i)
             u == Unhashed(t, x)
  <2>1. /\ Armed(RetransTimer(x), x) /\ sock[x].send_buf[i].times = MaxTimes
        /\ tl' = list_delete_entry(tl, RetransTimer(x))
        /\ sock' = [sock EXCEPT ![x] = u]
        /\ hl' = Unhash(x) /\ wait_connect' = wait_exit(wait_connect)
        /\ UNCHANGED <<net, running, unused, cpc, accept_queue, accepted, queued>>
    BY <1>1, <1>8 DEF GiveUp, Exhausted
  <2>2. x \in running /\ ClientRuns(x)
    BY <1>1, <1>3, <1>4, <2>1, ArmedIs
  <2>5. \A j \in DOMAIN sock[x].send_buf : sock[x].send_buf[j] \in Buffers
    BY <1>2 DEF Counted, SockType
  <2>6. t \in Counted /\ t.state = sock[x].state /\ t.snd_nxt = sock[x].snd_nxt
    <3>1. sock[x].send_buf[i].times <= MaxTimes
      BY <2>1, ConnAssumption
    <3> QED
      BY <1>2, <1>8, <3>1, TimesIs
  <2>7. /\ DOMAIN t.send_buf = DOMAIN sock[x].send_buf /\ Len(t.send_buf) = Len(sock[x].send_buf)
        /\ \A j \in DOMAIN sock[x].send_buf :
             /\ t.send_buf[j].pkt = sock[x].send_buf[j].pkt
             /\ t.send_buf[j].times = IF j = i THEN sock[x].send_buf[i].times + 1 ELSE sock[x].send_buf[j].times
    BY <1>2, <1>8, TimesHas
  <2> HIDE DEF t
  <2>8. u.state = sock[x].state /\ u.snd_nxt = sock[x].snd_nxt /\ u.send_buf = t.send_buf
    BY <2>6, HoldHas
  <2> HIDE DEF u
  <2>11. AtServer' = AtServer /\ AtClient' = AtClient
    BY <2>1 DEF AtClient, AtServer
  <2>12. Quits(wait_connect', cpc, t.send_buf)
    <3>1. /\ Quits(wait_connect, cpc, sock[x].send_buf)
          /\ BuffersAt(cpc, sock[x].send_buf, sock[x].snd_nxt)
      BY <2>2 DEF ClientRuns
    <3>2. \A j \in DOMAIN sock[x].send_buf : sock[x].send_buf[j].times \in Nat
      BY <2>5, ConnAssumption DEF Buffers
    <3>3. t.send_buf[i].times > MaxTimes
      BY <1>8, <2>1, <2>7, ConnAssumption
    <3>4. ASSUME NEW j \in DOMAIN sock[x].send_buf, sock[x].send_buf[j].pkt.kind = "SYN"
          PROVE  t.send_buf[j].times > MaxTimes
      <4>1. CASE j = i
        BY <3>3, <4>1
      <4>2. CASE j # i
        <5>1. cpc \notin Early
          <6>1. DOMAIN sock[x].send_buf = 1 .. Len(sock[x].send_buf) /\ Len(sock[x].send_buf) \in Nat
            BY <1>2 DEF Counted, SockType
          <6>2. ~ (Len(sock[x].send_buf) <= 1)
            BY <1>8, <3>4, <4>2, <6>1
          <6> QED
            BY <3>1, <6>2 DEF BuffersAt
        <5>2. sock[x].send_buf[j].times > MaxTimes
          BY <3>1, <3>4, <5>1 DEF Quits, Early
        <5> QED
          BY <2>7, <3>4, <4>2, <5>2
      <4> QED
        BY <4>1, <4>2
    <3>5. cpc # "connect"
      BY <1>8, <3>1 DEF BuffersAt
    <3> QED
      BY <2>7, <3>4, <3>5 DEF Quits
  <2> QED
    BY <1>3, <1>5, <2>1, <2>2, <2>7, <2>8, <2>11, <2>12, ClientTicks
<1> QED
  BY <1>6, <1>7, <1>8

\* The rest of giving up: the client's socket is closed, and the server told.
LEMMA OneGivenUp ==
  ASSUME ConnInv, ConnInv', OneInv, OneClient, GivenUp
  PROVE  OneInv'
<1>1. PICK x \in Client : running = {x} /\ Own = x
  BY DEF GivenUp, ConnInv, AppInv, Own
<1> DEFINE t == [sock[x] EXCEPT !.state = "CLOSED"]
           q == Packet(sock[x], "RST")
<1>2. x \in Sock /\ x \in running /\ sock[x] \in Counted /\ ClientRuns(x)
  BY <1>1, Heads DEF ConnInv, SockInv, OneInv
<1>3. /\ sock' = [sock EXCEPT ![x] = t] /\ net' = Transmit(net, "server", <<q>>)
      /\ UNCHANGED <<hl, tl, running, unused, cpc, wait_connect, accept_queue, accepted, queued>>
  <2>1. sock' = [sock EXCEPT ![x].state = "CLOSED"]
    BY <1>1 DEF GivenUp
  <2>2. sock' = [sock EXCEPT ![x] = t]
    BY <1>2, <2>1 DEF ConnInv, SockInv
  <2> QED
    BY <1>1, <2>2 DEF GivenUp, clientVars
<1>4. t.state = "CLOSED" /\ t.snd_nxt = sock[x].snd_nxt /\ t.send_buf = sock[x].send_buf
  <2>1. "CLOSED" \in States
    BY DEF States
  <2> QED
    BY <1>2, <2>1, StateIs, StateHas
<1> HIDE DEF t
<1>5. q \in PacketType /\ q.kind = "RST" /\ q.seq = sock[x].snd_nxt /\ sock[x].snd_nxt \in Nat
  <2>1. "RST" \in Kinds
    BY DEF Kinds
  <2> QED
    BY <1>2, <2>1, PacketIs DEF Counted, SockType, Packet
<1> HIDE DEF q
<1>6. Says(q, cpc, sock[x].snd_nxt)
  BY <1>5 DEF Says, GoodUp, SentAt, SeqEnd, HasSyn, HasFin
<1>7. Grown(AtServer', AtServer, q) /\ AtClient' = AtClient
  <2>1. "server" \in Hosts /\ "client" \in Hosts
    BY DEF Hosts
  <2> QED
    BY <1>3, <1>5, <2>1, SendsIs DEF AtClient, AtServer
<1>8. Quits(wait_connect', cpc, t.send_buf)
  BY <1>2, <1>3, <1>4 DEF ClientRuns
<1> QED
  BY <1>2, <1>3, <1>4, <1>6, <1>7, <1>8, ClientTicks

LEMMA OneStarts ==
  ASSUME ConnInv, ConnInv', OneInv, OneClient, ClientStarts
  PROVE  OneInv'
<1> DEFINE x == CHOOSE x \in unused : TRUE
<1>1. /\ running = {} /\ unused # {}
      /\ running' = {x} /\ unused' = unused \ {x}
      /\ tl' = list_add_tail(tl, RetransTimer(x), TimerHead(x))
      /\ cpc' = "connect" /\ UNCHANGED <<sock, hl, net, wait_connect, threadVars>>
  BY DEF ClientStarts
<1>2. PICK k \in unused : k = x
  BY <1>1
<1> HIDE DEF x
<1>3. k \in Client /\ Client = {k} /\ unused' = {} /\ running' = {k}
  BY <1>1, <1>2 DEF ConnInv, AppInv, OneClient
<1>4. Quiet
  BY <1>2 DEF OneInv
<1>5. sock[k] = NewSock /\ \A y \in Child : sock[y] = NewSock
  <2>1. sock[k] = NewSock
    BY <1>1, <1>3, ClientIs
  <2>2. \A y \in Child : sock[y] = NewSock
    BY <1>4, FreshIs DEF Quiet
  <2> QED
    BY <2>1, <2>2
<1>6. \A y \in InServer : tl'.next[y] = tl.next[y] /\ tl'.prev[y] = tl.prev[y]
  BY <1>1, <1>2, <1>3, OtherTimers
<1>7. Down' /\ UntilFin' /\ UpInOrder' /\ OneChild' /\ StillOpen'
  BY <1>1, <1>6, ServerStays DEF AtServer, AtClient, threadVars
<1>8. ClientRuns(k)'
  <2>1. /\ NewSock.state = "CLOSED" /\ NewSock.snd_nxt = 0 /\ NewSock.got = 0
        /\ DOMAIN NewSock.send_buf = {} /\ Len(NewSock.send_buf) = 0
    BY DEF NewSock
  <2>2. ~Returns(wait_connect)
    BY <1>4 DEF Quiet, wait_init, Returns
  <2>3. UNCHANGED <<accept_queue, accepted>> /\ AtServer' = AtServer /\ sock' = sock /\ wait_connect' = wait_connect
    BY <1>1 DEF threadVars, AtServer
  <2>4. cpc' = "connect" /\ "connect" \in Early /\ "connect" \in Waiting
    BY <1>1 DEF Early, Waiting
  <2>5. /\ StateIsAt("connect", "CLOSED") /\ NumberAt("connect", 0)
        /\ BuffersAt("connect", NewSock.send_buf, 0) /\ Quits(wait_connect, "connect", NewSock.send_buf)
    BY <2>1, <2>2, <2>4 DEF StateIsAt, BuffersAt, Quits, NumberAt
  <2>6. (\A i \in DOMAIN AtServer : SentAt(AtServer[i], cpc, sock[k].snd_nxt))'
    BY <1>4, <2>3 DEF Quiet
  <2>7. ReachedAt(cpc, sock[k].snd_nxt)'
    BY <1>4, <1>5, <2>1, <2>3 DEF ReachedAt, Quiet, Ended
  <2>8. /\ StateIsAt(cpc, sock[k].state)' /\ NumberAt(cpc, sock[k].snd_nxt)'
        /\ BuffersAt(cpc, sock[k].send_buf, sock[k].snd_nxt)' /\ Quits(wait_connect, cpc, sock[k].send_buf)'
    BY <1>5, <2>1, <2>3, <2>4, <2>5
  <2> QED
    BY <1>5, <2>1, <2>3, <2>4, <2>6, <2>7, <2>8 DEF ClientRuns, Early, Waiting
<1> QED
  BY <1>3, <1>7, <1>8 DEF OneInv

\* What the client does to its own socket.
LEMMA AppDoes ==
  ASSUME ConnInv, ConnInv', OneInv, OneClient, running # {}, NEW t, sock' = [sock EXCEPT ![Own] = t],
         UNCHANGED <<tl, running, unused, threadVars>>, hl'.next[Table] = hl.next[Table],
         \/ AtServer' = AtServer
         \/ \E p : Grown(AtServer', AtServer, p) /\ Says(p, cpc', t.snd_nxt),
         AtClient' = AtClient,
         cpc' \in Early \cup {"write", "close", "closing", "fin", "closed"},
         Goes(cpc, sock[Own].snd_nxt, cpc', t.snd_nxt),
         StateIsAt(cpc', t.state), t.state # "TIME_WAIT" \/ t.state = sock[Own].state,
         BuffersAt(cpc', t.send_buf, t.snd_nxt),
         Quits(wait_connect', cpc', t.send_buf), NumberAt(cpc', t.snd_nxt)
  PROVE  OneInv'
<1>1. Own \in running /\ Own \in Client /\ Own \in Sock /\ \A y \in Child : y \in Sock /\ y # Own
  BY OwnIs, Heads
<1>2. PICK k \in running : k = Own
  BY <1>1
<1>3. sock'[k] = t /\ \A y \in Child : sock'[y] = sock[y]
  BY <1>1, <1>2 DEF ConnInv, SockInv
<1>4. sock'[k].state = "TIME_WAIT" => AnyEnded
  BY <1>2, <1>3 DEF OneInv, ClientRuns
<1>5. /\ \A y \in InServer : tl'.next[y] = tl.next[y] /\ tl'.prev[y] = tl.prev[y]
      /\ \A i \in DOMAIN AtClient' : \E j \in DOMAIN AtClient : AtClient'[i] = AtClient[j]
  OBVIOUS
<1>6. /\ StateIsAt(cpc', sock'[k].state) /\ BuffersAt(cpc', sock'[k].send_buf, sock'[k].snd_nxt)
      /\ Quits(wait_connect', cpc', sock'[k].send_buf) /\ NumberAt(cpc', sock'[k].snd_nxt)
      /\ Goes(cpc, sock[k].snd_nxt, cpc', sock'[k].snd_nxt)
      /\ \/ AtServer' = AtServer
         \/ \E p : Grown(AtServer', AtServer, p) /\ Says(p, cpc', sock'[k].snd_nxt)
  BY <1>2, <1>3
<1> QED
  BY <1>2, <1>3, <1>4, <1>5, <1>6, ClientDoes DEF threadVars

LEMMA OneConnects ==
  ASSUME ConnInv, ConnInv', OneInv, OneClient, Connect
  PROVE  OneInv'
<1> DEFINE s == [sock[Own] EXCEPT !.state = "SYN_SENT", !.snd_nxt = Iss]
           e == Sent(s, "SYN")
           t == Hold(Hold(e))
           q == Packet(s, "SYN")
<1>1. /\ cpc = "connect" /\ running # {} /\ cpc' = "sleep"
      /\ sock' = [sock EXCEPT ![Own] = t] /\ net' = Transmit(net, "server", <<q>>)
      /\ hl' = Hash(Own) /\ UNCHANGED <<tl, running, unused, wait_connect, threadVars>>
  BY DEF Connect, At, ClientStep
<1>2. Own \in running /\ Own \in Client /\ Own \in Sock /\ TableOf(Own) = CTable
  BY <1>1, OwnIs, Heads
<1>3. sock[Own] = NewSock
  BY <1>1, <1>2, ClientIs
<1>4. s \in Counted /\ s.snd_nxt = 1 /\ s.state = "SYN_SENT" /\ s.send_buf = <<>> /\ ~s.freed
  <2>1. /\ NewSock \in SockType /\ NewSock.refs = 1 /\ NewSock.freed = FALSE
        /\ NewSock.send_buf = <<>>
    BY NewSockIs DEF Counted, NewSock
  <2>2. s = [[NewSock EXCEPT !.state = "SYN_SENT"] EXCEPT !.snd_nxt = Iss]
    BY <1>3 DEF s, NewSock
  <2>3. /\ s \in SockType /\ s.refs = 1 /\ s.freed = FALSE /\ s.snd_nxt = 1
        /\ s.state = "SYN_SENT" /\ s.send_buf = <<>>
    BY <2>1, <2>2 DEF SockType, States, Iss
  <2> HIDE DEF s
  <2> QED
    BY <2>3 DEF Counted
<1> HIDE DEF s
<1>5. q \in PacketType /\ q.kind = "SYN" /\ q.seq = 1 /\ "SYN" \in Kinds \ {"ACK", "RST"}
  <2>1. "SYN" \in Kinds
    BY DEF Kinds
  <2> QED
    BY <1>4, <2>1, PacketIs DEF Counted, Packet
<1>6. /\ e \in Counted /\ e.state = "SYN_SENT" /\ e.snd_nxt = 2 /\ ~e.freed /\ Len(e.send_buf) = 1
      /\ \A i \in DOMAIN e.send_buf : e.send_buf[i].pkt = q
  <2>1. e \in Counted /\ e.state = s.state /\ e.freed = s.freed
    BY <1>4, <1>5, SentIs
  <2>2. /\ e.snd_nxt = s.snd_nxt + 1 /\ Len(e.send_buf) = Len(s.send_buf) + 1
        /\ \A i \in DOMAIN e.send_buf :
             (i \in DOMAIN s.send_buf /\ e.send_buf[i] = s.send_buf[i]) \/ e.send_buf[i].pkt = q
    BY <1>4, <1>5, SentHas
  <2>3. DOMAIN s.send_buf = {} /\ Len(s.send_buf) = 0
    BY <1>4
  <2> QED
    BY <1>4, <2>1, <2>2, <2>3
<1> HIDE DEF e, q
<1>7. t.state = "SYN_SENT" /\ t.snd_nxt = 2 /\ t.send_buf = e.send_buf
  <2>1. Hold(e) \in Counted /\ Hold(e).state = "SYN_SENT" /\ Hold(e).snd_nxt = 2 /\ ~Hold(e).freed
        /\ Hold(e).send_buf = e.send_buf
    BY <1>6, HoldIs, HoldHas
  <2> QED
    BY <2>1, HoldIs, HoldHas
<1> HIDE DEF t
<1>8. hl'.next[Table] = hl.next[Table]
  BY <1>1, <1>2, HashIs DEF ConnInv, AppInv
<1>9. Grown(AtServer', AtServer, q) /\ AtClient' = AtClient
  <2>1. "server" \in Hosts /\ "client" \in Hosts
    BY DEF Hosts
  <2> QED
    BY <1>1, <1>5, <2>1, SendsIs DEF AtServer, AtClient
<1>10. GoodUp(q) /\ SeqEnd(q) = 2
  BY <1>5 DEF GoodUp, SeqEnd, HasSyn
<1>11. Says(q, cpc', t.snd_nxt)
  BY <1>5, <1>7, <1>10 DEF Says, SentAt
<1>12. /\ "sleep" \in Early /\ "sleep" \in Waiting /\ "connect" \in Early
       /\ StateIsAt("sleep", "SYN_SENT") /\ NumberAt("sleep", 2)
  BY DEF Early, Waiting, StateIsAt, NumberAt
<1>13. BuffersAt("sleep", e.send_buf, 2)
  BY <1>5, <1>6, <1>10, <1>12 DEF BuffersAt
<1>14. Quits(wait_connect, "sleep", e.send_buf) /\ sock[Own].snd_nxt = 0
  <2>1. Quits(wait_connect, "connect", sock[Own].send_buf) /\ NumberAt("connect", sock[Own].snd_nxt)
    BY <1>1, <1>2 DEF OneInv, ClientRuns
  <2> QED
    BY <1>12, <2>1 DEF Quits, NumberAt
<1>15. Goes(cpc, sock[Own].snd_nxt, cpc', t.snd_nxt)
  BY <1>1, <1>7, <1>12, <1>14 DEF Goes
<1>16. /\ cpc' \in Early \cup {"write", "close", "closing", "fin", "closed"}
       /\ StateIsAt(cpc', t.state) /\ NumberAt(cpc', t.snd_nxt) /\ BuffersAt(cpc', t.send_buf, t.snd_nxt)
       /\ Quits(wait_connect', cpc', t.send_buf) /\ t.state # "TIME_WAIT"
  BY <1>1, <1>7, <1>12, <1>13, <1>14
<1> QED
  BY <1>1, <1>8, <1>9, <1>11, <1>15, <1>16, AppDoes

\* A step that changes nothing but the place of the client and its wait.
LEMMA OneWaits ==
  ASSUME ConnInv, ConnInv', OneInv, OneClient, ConnectSleeps \/ ConnectResumes
  PROVE  OneInv'
<1>1. /\ running # {} /\ UNCHANGED <<connVars, net, running, unused, threadVars>>
      /\ cpc \in {"sleep", "asleep"}
      /\ \/ Returns(wait_connect) /\ cpc' = "woken"
         \/ /\ ~Returns(wait_connect) /\ cpc' = "asleep" /\ wait_connect' = sleep_on(wait_connect)
  BY DEF ConnectSleeps, ConnectResumes, At
<1>2. Own \in running /\ Own \in Client /\ Own \in Sock
  BY <1>1, OwnIs
<1>3. ClientRuns(Own)
  BY <1>2 DEF OneInv
<1>4. wait_connect \in Wait /\ sock[Own] \in Counted
  BY <1>2 DEF ConnInv, AppInv, SockInv
<1>5. Quits(wait_connect', cpc', sock[Own].send_buf)
  <2>1. Quits(wait_connect, cpc, sock[Own].send_buf)
    BY <1>3 DEF ClientRuns
  <2>2. CASE Returns(wait_connect) /\ cpc' = "woken"
    BY <2>1, <2>2 DEF Quits
  <2>3. CASE ~Returns(wait_connect) /\ cpc' = "asleep" /\ wait_connect' = sleep_on(wait_connect)
    <3>1. ~Returns(wait_connect')
      BY <1>4, <2>3 DEF Returns, sleep_on, Wait
    <3> QED
      BY <2>3, <3>1 DEF Quits, Waiting
  <2> QED
    BY <1>1, <2>2, <2>3
<1>6. /\ cpc' \in Early /\ cpc \in Early /\ cpc \notin {"closed", "connect"} /\ cpc' \notin {"closed", "connect"}
      /\ cpc' \in {"asleep", "woken"}
  BY <1>1 DEF Early, Waiting
<1>7. /\ StateIsAt(cpc', sock[Own].state) /\ NumberAt(cpc', sock[Own].snd_nxt)
      /\ BuffersAt(cpc', sock[Own].send_buf, sock[Own].snd_nxt)
  <2>1. StateIsAt(cpc', sock[Own].state)
    BY <1>1, <1>3, <1>6 DEF ClientRuns, StateIsAt
  <2>2. NumberAt(cpc', sock[Own].snd_nxt)
    BY <1>3, <1>6 DEF ClientRuns, NumberAt
  <2>3. BuffersAt(cpc', sock[Own].send_buf, sock[Own].snd_nxt)
    BY <1>3, <1>6 DEF ClientRuns, BuffersAt
  <2> QED
    BY <2>1, <2>2, <2>3
<1>8. Goes(cpc, sock[Own].snd_nxt, cpc', sock[Own].snd_nxt)
  BY <1>4, <1>6 DEF Goes, Counted, SockType
<1>9. sock' = [sock EXCEPT ![Own] = sock[Own]] /\ UNCHANGED <<tl, hl>> /\ AtServer' = AtServer /\ AtClient' = AtClient
  BY <1>1 DEF ConnInv, SockInv, connVars, AtServer, AtClient
<1> QED
  BY <1>1, <1>5, <1>6, <1>7, <1>8, <1>9, AppDoes

LEMMA OneReturns ==
  ASSUME ConnInv, ConnInv', OneInv, OneClient, ConnectReturns
  PROVE  OneInv'
<1> DEFINE t == [sock[Own] EXCEPT !.state = "ESTABLISHED"]
<1>1. /\ cpc = "woken" /\ running # {} /\ cpc' = "ack" /\ sock' = [sock EXCEPT ![Own] = t]
      /\ UNCHANGED <<hl, tl, net, running, unused, wait_connect, threadVars>>
  BY DEF ConnectReturns, At, ClientStep
<1>2. Own \in running /\ Own \in Sock
  BY <1>1, OwnIs
<1>3. ClientRuns(Own) /\ sock[Own] \in Counted /\ sock[Own].snd_nxt \in Nat
  BY <1>2 DEF OneInv, ConnInv, SockInv, Counted, SockType
<1>4. t.state = "ESTABLISHED" /\ t.snd_nxt = sock[Own].snd_nxt /\ t.send_buf = sock[Own].send_buf
  <2>1. "ESTABLISHED" \in States
    BY DEF States
  <2> QED
    BY <1>3, <2>1, StateIs, StateHas
<1> HIDE DEF t
<1>5. /\ "ack" \in Early /\ "woken" \in Early /\ "ack" \notin Waiting /\ "woken" \notin Waiting
  BY DEF Early, Waiting
<1>6. /\ StateIsAt("ack", "ESTABLISHED") /\ NumberAt("ack", sock[Own].snd_nxt)
      /\ BuffersAt("ack", sock[Own].send_buf, sock[Own].snd_nxt)
      /\ Quits(wait_connect, "ack", sock[Own].send_buf)
  <2>1. StateIsAt("ack", "ESTABLISHED")
    BY DEF StateIsAt
  <2>2. NumberAt("ack", sock[Own].snd_nxt)
    BY <1>1, <1>3, <1>5 DEF ClientRuns, NumberAt
  <2>3. BuffersAt("ack", sock[Own].send_buf, sock[Own].snd_nxt)
    BY <1>1, <1>3, <1>5 DEF ClientRuns, BuffersAt
  <2>4. Quits(wait_connect, "ack", sock[Own].send_buf)
    BY <1>1, <1>3, <1>5 DEF ClientRuns, Quits
  <2> QED
    BY <2>1, <2>2, <2>3, <2>4
<1>7. Goes(cpc, sock[Own].snd_nxt, cpc', t.snd_nxt)
  BY <1>1, <1>3, <1>4, <1>5 DEF Goes
<1>8. AtServer' = AtServer /\ AtClient' = AtClient /\ hl' = hl /\ cpc' \in Early
  BY <1>1, <1>5 DEF AtServer, AtClient
<1>9. /\ StateIsAt(cpc', t.state) /\ NumberAt(cpc', t.snd_nxt) /\ BuffersAt(cpc', t.send_buf, t.snd_nxt)
      /\ Quits(wait_connect', cpc', t.send_buf) /\ t.state # "TIME_WAIT"
  BY <1>1, <1>4, <1>6
<1> QED
  BY <1>1, <1>7, <1>8, <1>9, AppDoes

LEMMA OneAcks ==
  ASSUME ConnInv, ConnInv', OneInv, OneClient, AckSynAck
  PROVE  OneInv'
<1> DEFINE q == Packet(sock[Own], "ACK")
<1>1. /\ cpc = "ack" /\ running # {} /\ cpc' \in {"write", "close"}
      /\ sock' = [sock EXCEPT ![Own] = sock[Own]] /\ net' = Transmit(net, "server", <<q>>)
      /\ UNCHANGED <<hl, tl, running, unused, wait_connect, threadVars>>
  BY DEF AckSynAck, ClientSends, At, ClientStep, Sent
<1>2. Own \in running /\ Own \in Sock
  BY <1>1, OwnIs
<1>3. ClientRuns(Own) /\ sock[Own] \in Counted /\ sock[Own].snd_nxt \in Nat
  BY <1>2 DEF OneInv, ConnInv, SockInv, Counted, SockType
<1>4. q \in PacketType /\ q.kind = "ACK" /\ q.seq = sock[Own].snd_nxt
  <2>1. "ACK" \in Kinds
    BY DEF Kinds
  <2> QED
    BY <1>3, <2>1, PacketIs DEF Counted, Packet
<1> HIDE DEF q
<1>5. /\ "ack" \in Early /\ "ack" \notin Waiting
      /\ \A pc \in {"write", "close"} : pc \notin Early /\ pc \notin Waiting /\ pc \notin {"connect", "closed"}
  BY DEF Early, Waiting
<1>6. sock[Own].snd_nxt = 2
  BY <1>1, <1>3, <1>5 DEF ClientRuns, NumberAt
<1>7. Grown(AtServer', AtServer, q) /\ AtClient' = AtClient
  <2>1. "server" \in Hosts /\ "client" \in Hosts
    BY DEF Hosts
  <2> QED
    BY <1>1, <1>4, <2>1, SendsIs DEF AtServer, AtClient
<1>8. Says(q, cpc', sock[Own].snd_nxt)
  BY <1>1, <1>3, <1>4, <1>5 DEF Says, GoodUp, SentAt, SeqEnd, HasSyn, HasFin
<1>9. StateIsAt(cpc', sock[Own].state)
  BY <1>1, <1>3, <1>5 DEF ClientRuns, StateIsAt
<1>10. BuffersAt(cpc', sock[Own].send_buf, sock[Own].snd_nxt)
  BY <1>1, <1>3, <1>5 DEF ClientRuns, BuffersAt
<1>11. Quits(wait_connect', cpc', sock[Own].send_buf)
  BY <1>1, <1>3, <1>5 DEF ClientRuns, Quits
<1>12. NumberAt(cpc', sock[Own].snd_nxt)
  BY <1>1, <1>5, <1>6 DEF NumberAt
<1>13. Goes(cpc, sock[Own].snd_nxt, cpc', sock[Own].snd_nxt)
  BY <1>1, <1>3, <1>5 DEF Goes
<1>14. cpc' \in Early \cup {"write", "close", "closing", "fin", "closed"} /\ hl' = hl
  BY <1>1
<1> QED
  BY <1>1, <1>7, <1>8, <1>9, <1>10, <1>11, <1>12, <1>13, <1>14, AppDoes

\* A segment of the client that is kept: its data, or its FIN.
LEMMA OneSends ==
  ASSUME ConnInv, ConnInv', OneInv, OneClient, Write \/ SendFin
  PROVE  OneInv'
<1>1. PICK kind \in {"PSH", "FIN"} :
        /\ running # {}
        /\ kind = "PSH" => cpc = "write" /\ cpc' = "close"
        /\ kind = "FIN" => cpc = "fin" /\ cpc' = "closed"
        /\ sock' = [sock EXCEPT ![Own] = Sent(sock[Own], kind)]
        /\ net' = Transmit(net, "server", <<Packet(sock[Own], kind)>>)
        /\ UNCHANGED <<hl, tl, running, unused, wait_connect, threadVars>>
  <2>1. CASE Write
    BY <2>1 DEF Write, ClientSends, At, ClientStep
  <2>2. CASE SendFin
    BY <2>2 DEF SendFin, ClientSends, At, ClientStep
  <2> QED
    BY <2>1, <2>2
<1> DEFINE s == sock[Own]
           t == Sent(s, kind)
           q == Packet(s, kind)
<1>2. Own \in running /\ Own \in Sock
  BY <1>1, OwnIs
<1>3. ClientRuns(Own) /\ s \in Counted /\ s.snd_nxt \in Nat /\ Len(s.send_buf) \in Nat
  BY <1>2 DEF OneInv, ConnInv, SockInv, Counted, SockType
<1>4. kind \in Kinds \ {"ACK", "RST"} /\ kind \in Kinds
  BY DEF Kinds
<1>5. q \in PacketType /\ q.kind = kind /\ q.seq = s.snd_nxt
  BY <1>3, <1>4, PacketIs DEF Counted, Packet
<1>6. /\ t.state = s.state /\ t.snd_nxt = s.snd_nxt + 1
      /\ \A i \in DOMAIN t.send_buf :
           (i \in DOMAIN s.send_buf /\ t.send_buf[i] = s.send_buf[i]) \/ t.send_buf[i].pkt = q
  BY <1>3, <1>4, SentIs, SentHas
<1> HIDE DEF t, q
<1>7. /\ "write" \notin Early /\ "fin" \notin Early \cup {"write"}
      /\ \A pc \in {"close", "closed"} : pc \notin Early \cup {"write"} /\ pc # "connect"
      /\ "write" \notin Waiting /\ "fin" \notin Waiting
      /\ cpc \notin Waiting /\ cpc # "closed"
  BY <1>1 DEF Early, Waiting
<1>8. /\ kind = "PSH" => s.snd_nxt = 2
      /\ s.snd_nxt >= 2
  BY <1>1, <1>3, <1>7 DEF ClientRuns, NumberAt
<1>9. /\ GoodUp(q) /\ SeqEnd(q) = t.snd_nxt /\ t.snd_nxt \in Nat /\ t.snd_nxt >= 3
  BY <1>3, <1>5, <1>6, <1>8 DEF GoodUp, SeqEnd, HasSyn, HasFin
<1>10. Grown(AtServer', AtServer, q) /\ AtClient' = AtClient
  <2>1. "server" \in Hosts /\ "client" \in Hosts
    BY DEF Hosts
  <2>2. net' = Transmit(net, "server", <<q>>)
    BY <1>1 DEF q
  <2> QED
    BY <1>5, <2>1, <2>2, SendsIs DEF AtServer, AtClient
<1>11. cpc' \in {"close", "closed"} /\ cpc' \notin Early \cup {"write"}
  BY <1>1, <1>7
<1>12. Says(q, cpc', t.snd_nxt)
  BY <1>1, <1>5, <1>7, <1>9, <1>11 DEF Says, SentAt
<1>13. StateIsAt(cpc', t.state)
  BY <1>1, <1>3, <1>6 DEF ClientRuns, StateIsAt
<1>14. BuffersAt(cpc', t.send_buf, t.snd_nxt)
  <2>1. BuffersAt(cpc, s.send_buf, s.snd_nxt)
    BY <1>3 DEF ClientRuns
  <2>2. ASSUME NEW i \in DOMAIN t.send_buf
        PROVE  /\ t.send_buf[i].pkt.kind \in {"SYN", "PSH", "FIN"} /\ GoodUp(t.send_buf[i].pkt)
               /\ t.send_buf[i].pkt.kind = "FIN" => cpc' = "closed" /\ SeqEnd(t.send_buf[i].pkt) = t.snd_nxt
               /\ t.send_buf[i].pkt.kind = "PSH" => cpc' \notin Early \cup {"write"} /\ t.snd_nxt >= 3
    <3>1. CASE i \in DOMAIN s.send_buf /\ t.send_buf[i] = s.send_buf[i]
      BY <1>7, <1>9, <1>11, <2>1, <3>1 DEF BuffersAt
    <3>2. CASE t.send_buf[i].pkt = q
      BY <1>1, <1>5, <1>9, <1>11, <3>2
    <3> QED
      BY <1>6, <3>1, <3>2
  <2> QED
    BY <1>7, <1>11, <2>2 DEF BuffersAt
<1>15. Quits(wait_connect', cpc', t.send_buf)
  <2>1. Quits(wait_connect, cpc, s.send_buf)
    BY <1>3 DEF ClientRuns
  <2>2. \A i \in DOMAIN s.send_buf : s.send_buf[i].pkt.kind = "SYN" => s.send_buf[i].times > MaxTimes
    BY <1>7, <2>1 DEF Quits
  <2>3. \A i \in DOMAIN t.send_buf : t.send_buf[i].pkt.kind = "SYN" => t.send_buf[i].times > MaxTimes
    BY <1>5, <1>6, <2>2
  <2> QED
    BY <1>7, <1>11, <2>3 DEF Quits
<1>16. NumberAt(cpc', t.snd_nxt)
  BY <1>9, <1>11 DEF NumberAt
<1>17. Goes(cpc, s.snd_nxt, cpc', t.snd_nxt)
  BY <1>3, <1>6, <1>7, <1>11 DEF Goes
<1>18. cpc' \in Early \cup {"write", "close", "closing", "fin", "closed"} /\ hl' = hl /\ sock' = [sock EXCEPT ![Own] = t]
  BY <1>1, <1>11 DEF t
<1> QED
  BY <1>1, <1>6, <1>10, <1>12, <1>13, <1>14, <1>15, <1>16, <1>17, <1>18, AppDoes

LEMMA OneCloses ==
  ASSUME ConnInv, ConnInv', OneInv, OneClient, Close \/ CloseGoesOn
  PROVE  OneInv'
<1> DEFINE s == sock[Own]
           f == [s EXCEPT !.state = "FIN_WAIT_1"]
<1>1. /\ running # {} /\ cpc \in {"close", "closing"}
      /\ UNCHANGED <<hl, tl, net, running, unused, wait_connect, threadVars>>
      /\ \/ /\ cpc = "close" /\ sock' = sock
            /\ cpc' = IF s.state = "ESTABLISHED" THEN "closing" ELSE "closed"
         \/ cpc = "closing" /\ cpc' = "fin" /\ sock' = [sock EXCEPT ![Own] = f]
  BY DEF Close, CloseGoesOn, At, ClientStep, connVars
<1>2. Own \in running /\ Own \in Sock
  BY <1>1, OwnIs
<1>3. ClientRuns(Own) /\ s \in Counted /\ s.snd_nxt \in Nat
  BY <1>2 DEF OneInv, ConnInv, SockInv, Counted, SockType
<1>4. f.state = "FIN_WAIT_1" /\ f.snd_nxt = s.snd_nxt /\ f.send_buf = s.send_buf
  <2>1. "FIN_WAIT_1" \in States
    BY DEF States
  <2> QED
    BY <1>3, <2>1, StateIs, StateHas
<1> HIDE DEF f
<1>5. PICK t : /\ sock' = [sock EXCEPT ![Own] = t]
               /\ t.snd_nxt = s.snd_nxt /\ t.send_buf = s.send_buf
               /\ StateIsAt(cpc', t.state) /\ t.state # "TIME_WAIT"
  <2>1. CASE cpc = "close" /\ sock' = sock /\ cpc' = IF s.state = "ESTABLISHED" THEN "closing" ELSE "closed"
    <3>1. s.state \in {"CLOSED", "ESTABLISHED"}
      BY <1>3, <2>1 DEF ClientRuns, StateIsAt
    <3>2. sock' = [sock EXCEPT ![Own] = s]
      BY <2>1 DEF ConnInv, SockInv
    <3>3. StateIsAt(cpc', s.state) /\ s.state # "TIME_WAIT"
      BY <2>1, <3>1 DEF StateIsAt
    <3> QED
      BY <3>2, <3>3
  <2>2. CASE cpc = "closing" /\ cpc' = "fin" /\ sock' = [sock EXCEPT ![Own] = f]
    BY <1>4, <2>2 DEF StateIsAt
  <2> QED
    BY <1>1, <2>1, <2>2
<1>6. /\ cpc' \in {"closing", "fin", "closed"} /\ cpc' \notin Early \cup {"write"} /\ cpc' \notin Waiting
      /\ cpc' # "connect" /\ cpc \notin Early \cup {"write"} /\ cpc \notin Waiting /\ cpc # "closed"
  BY <1>1 DEF Early, Waiting
<1>8. BuffersAt(cpc', s.send_buf, s.snd_nxt)
  BY <1>3, <1>6 DEF ClientRuns, BuffersAt
<1>9. Quits(wait_connect', cpc', s.send_buf)
  BY <1>1, <1>3, <1>6 DEF ClientRuns, Quits
<1>10. NumberAt(cpc', s.snd_nxt) /\ Goes(cpc, s.snd_nxt, cpc', s.snd_nxt)
  BY <1>3, <1>6 DEF ClientRuns, NumberAt, Goes
<1>11. /\ AtServer' = AtServer /\ AtClient' = AtClient /\ hl' = hl
       /\ cpc' \in Early \cup {"write", "close", "closing", "fin", "closed"}
  BY <1>1, <1>6 DEF AtServer, AtClient
<1>12. /\ BuffersAt(cpc', t.send_buf, t.snd_nxt) /\ Quits(wait_connect', cpc', t.send_buf)
       /\ NumberAt(cpc', t.snd_nxt) /\ Goes(cpc, sock[Own].snd_nxt, cpc', t.snd_nxt)
  BY <1>5, <1>8, <1>9, <1>10
<1> QED
  BY <1>1, <1>5, <1>11, <1>12, AppDoes

LEMMA OneKilled ==
  ASSUME ConnInv, ConnInv', OneInv, OneClient, ClientKilled
  PROVE  OneInv'
<1>1. /\ running # {} /\ running' = {} /\ unused' = unused
      /\ hl' = [hl EXCEPT !.next[CTable] = CTable, !.prev[CTable] = CTable]
      /\ tl' = [tl EXCEPT !.next[CHead] = CHead, !.prev[CHead] = CHead]
      /\ sock' = [sock EXCEPT ![Own] = NewSock]
      /\ UNCHANGED <<net, queued>>
  BY DEF ClientKilled, CHead
<1>2. Own \in running /\ Own \in Client
  BY <1>1, OwnIs
<1>3. unused' = {}
  BY <1>1, <1>2, OnlyIs
<1>4. /\ hl \in Memory(HashNode) /\ tl \in Memory(TimerNode) /\ DOMAIN sock = Sock
  BY DEF ConnInv, AppInv, SockInv
<1>5. \A y \in Child : sock'[y] = sock[y]
  BY <1>1, <1>2, <1>4, Heads
<1>6. hl'.next[Table] = hl.next[Table]
  BY <1>1, <1>4, Heads DEF Memory
<1>7. \A y \in InServer : tl'.next[y] = tl.next[y] /\ tl'.prev[y] = tl.prev[y]
  <2>1. \A y \in InServer : y \in TimerNode /\ y # CHead
    BY TimerNodes
  <2> QED
    BY <1>1, <1>4, <2>1 DEF Memory
<1>8. Down' /\ UntilFin' /\ UpInOrder' /\ OneChild' /\ StillOpen'
  BY <1>1, <1>5, <1>6, <1>7, ServerStays DEF AtServer, AtClient
<1> QED
  BY <1>1, <1>3, <1>8 DEF OneInv

LEMMA OneInit ==
  ASSUME Init
  PROVE  OneInv
<1>1. /\ sock = [x \in Sock |-> NewSock] /\ tl = init_list_head(TimerNode) /\ hl = init_list_head(HashNode)
      /\ net = [h \in {"server", "client"} |-> <<>>] /\ running = {}
      /\ wait_connect = wait_init /\ accept_queue = <<>> /\ accepted = {} /\ queued = {}
  BY DEF Init
<1>2. AtServer = <<>> /\ AtClient = <<>> /\ DOMAIN AtServer = {} /\ DOMAIN AtClient = {}
  BY <1>1 DEF AtServer, AtClient
<1>3. \A x \in Child : sock[x] = NewSock
  BY <1>1, Heads
<1>4. /\ NewSock.state = "CLOSED" /\ NewSock.snd_nxt = 0 /\ NewSock.got = 0 /\ DOMAIN NewSock.send_buf = {}
  BY DEF NewSock
<1>5. \A x \in Child : Fresh(x) /\ ~Ended(x)
  BY <1>3, <1>4 DEF Fresh, Ended
<1>6. UpInOrder
  BY <1>2 DEF UpInOrder
<1>7. Down
  BY <1>2, <1>3, <1>4 DEF Down
<1>8. OneChild
  BY <1>3, <1>4, <1>5 DEF OneChild, ChildIs
<1>9. UntilFin
  <2>1. ASSUME NEW x \in Child  PROVE Unlinked(Timewait(x))
    <3>1. \A n \in InServer : n \in TimerNode
      BY TimerNodes
    <3>2. \A n \in InServer : tl.next[n] = n /\ tl.prev[n] = n
      BY <1>1, <3>1 DEF init_list_head
    <3> QED
      BY <3>2 DEF Unlinked
  <2> QED
    BY <2>1 DEF UntilFin
<1>10. Quiet
  BY <1>1, <1>2, <1>5 DEF Quiet
<1>11. StillOpen
  BY <1>1 DEF StillOpen
<1> QED
  BY <1>1, <1>6, <1>7, <1>8, <1>9, <1>10, <1>11 DEF OneInv

LEMMA OneStep ==
  ASSUME OneClient, ConnInv, ConnInv', OneInv, [Next]_vars
  PROVE  OneInv'
<1>1. CASE UNCHANGED vars
  <2>1. UNCHANGED <<connVars, clientVars, net, accept_queue, accepted, queued>>
    BY <1>1 DEF vars, threadVars
  <2> QED
    BY <2>1, OneSame DEF AtServer, AtClient
<1>2. CASE Next
  <2>1. Up /\ \A x \in Sock : x \in Child \/ x \in Client
    BY <1>2, Heads DEF Next
  <2>2. CASE Receive
    <3>1. CASE RecvNobody("client", CTable)
      BY <3>1, OneLoses DEF RecvNobody, Hosts
    <3>2. CASE RecvNobody("server", Table)
      BY <3>2, OneLoses DEF RecvNobody, Hosts
    <3>3. CASE RecvListen
      BY <3>3, OneListen
    <3>4. ASSUME NEW x \in Sock, RecvSynRecv(x)  PROVE OneInv'
      <4>1. x \in Child
        BY <2>1, <3>4 DEF RecvSynRecv, ConnInv, SockInv
      <4> QED
        BY <2>1, <3>4, <4>1, OneSynRecv
    <3>5. ASSUME NEW x \in Sock, RecvSynSent(x)  PROVE OneInv'
      BY <2>1, <3>5, OneSynSent
    <3>6. ASSUME NEW x \in Sock, RecvEstablished(x)  PROVE OneInv'
      BY <2>1, <3>6, OneChildCloses, OneEstablished
    <3>7. ASSUME NEW x \in Sock, RecvLastAck(x) \/ RecvIgnored(x)  PROVE OneInv'
      BY <2>1, <3>7, OneChildEnds, OneIgnored
    <3>8. ASSUME NEW x \in Sock, RecvFinWait1(x) \/ RecvFinWait2(x)  PROVE OneInv'
      <4>1. x \in Client
        BY <2>1, <3>8 DEF RecvFinWait1, RecvFinWait2, ConnInv, SockInv
      <4> QED
        BY <2>1, <3>8, <4>1, OneFinWait
    <3>9. CASE QueueWakes \/ QueueEstablishes
      BY <3>9, OneQueues
    <3> QED
      BY <2>2, <3>1, <3>2, <3>3, <3>4, <3>5, <3>6, <3>7, <3>8, <3>9 DEF Receive
  <2>3. CASE Timer
    <3>1. ASSUME NEW x \in Sock, NEW i \in DOMAIN sock[x].send_buf,
                 Resend(x, i) \/ GiveUp(x, i) \/ GiveUpChild(x, i)
          PROVE  OneInv'
      <4>1. GiveUp(x, i) => x \in Client
        BY DEF GiveUp
      <4>2. GiveUpChild(x, i) => x \in Child
        BY DEF GiveUpChild
      <4>3. CASE x \in Child
        BY <2>1, <3>1, <4>1, <4>3, OneChildTimer, ConnAssumption
      <4>4. CASE x \in Client
        BY <2>1, <3>1, <4>2, <4>4, OneClientTimer, ConnAssumption
      <4> QED
        BY <2>1, <4>3, <4>4
    <3>2. ASSUME NEW x \in Sock, TimewaitExpires(x)  PROVE OneInv'
      BY <2>1, <3>2, OneChildTimer, OneClientTimer
    <3>3. CASE GivenUp
      BY <3>3, OneGivenUp
    <3> QED
      BY <2>3, <3>1, <3>2, <3>3 DEF Timer
  <2>4. CASE ClientStarts
    BY <2>4, OneStarts
  <2>5. CASE ClientApp
    BY <2>5, OneConnects, OneWaits, OneReturns, OneAcks, OneSends, OneCloses DEF ClientApp
  <2>6. CASE ClientKilled
    BY <2>6, OneKilled
  <2>7. CASE ServerApp
    BY <2>1, <2>7, OneAccepts
  <2>8. ASSUME NEW h \in {"server", "client"}, Lose(h)  PROVE OneInv'
    BY <2>8, OneLoses DEF Lose, Hosts
  <2>9. CASE ListsOverlap
    <3>1. UNCHANGED <<connVars, clientVars, net, accept_queue, accepted, queued>>
      BY <2>9 DEF ListsOverlap
    <3> QED
      BY <3>1, OneSame DEF AtServer, AtClient
  <2> QED
    BY <1>2, <2>2, <2>3, <2>4, <2>5, <2>6, <2>7, <2>8, <2>9 DEF Next
<1> QED
  BY <1>1, <1>2

(* While there has been one client, the packets in flight, the buffers kept for
   retransmission and the two sockets say the same of the connection: it has one child,
   what follows a FIN on the link does not go past it, and no TIME_WAIT timer of the
   server is linked before its socket has received a FIN. *)
THEOREM OneConnection ==
  ASSUME OneClient
  PROVE  Spec => []OneInv
<1>1. Init => OneInv
  BY OneInit
<1>2. ConnInv /\ ConnInv' /\ OneInv /\ [Next]_vars => OneInv'
  BY OneStep
<1> QED
  BY <1>1, <1>2, InvariantHolds, PTL DEF Spec

(* As long as no two calls on a list overlap, tcp_sock_lookup finds a socket of the
   server that is in SYN_RECV, ESTABLISHED or LAST_ACK: what calls tcp_unhash leaves the socket CLOSED, no other socket is in its
   bucket, and tcp_sock_accept hashes again what it makes ESTABLISHED. *)
THEOREM SocketsFindable ==
  ASSUME OneClient
  PROVE  Spec => []Findable
<1>1. ConnInv /\ OneInv => Findable
  <2> SUFFICES ASSUME ConnInv, OneInv, NEW x \in Child,
                      sock[x].state \in {"SYN_RECV", "ESTABLISHED", "LAST_ACK"}
               PROVE  Hashed(x)
    BY DEF Findable
  <2>1. hl.next[Table] = x
    BY DEF OneInv, OneChild, ChildIs
  <2>2. /\ hl \in Memory(HashNode) /\ Bucket(hl, Table, Child) /\ Child \in SUBSET HashNode
        /\ Table \in HashNode /\ Table \notin Child /\ TableOf(x) = Table /\ x # Table
    BY Heads DEF ConnInv, AppInv, HashInv
  <2> QED
    BY <2>1, <2>2, BucketEnds, Finite DEF Hashed
<1> QED
  BY <1>1, OneConnection, InvariantHolds, PTL

(* accept is handed no connection whose connect has not returned: what takes a socket
   out of SYN_RECV is an acknowledgement, and no packet of the client carries one
   before its application has left tcp_sock_connect. *)
THEOREM HandshakesComplete ==
  ASSUME OneClient
  PROVE  Spec => []HandshakeComplete
<1>1. OneInv => HandshakeComplete
  <2> SUFFICES ASSUME OneInv, NEW x \in ToSet(accept_queue) \cup accepted, running # {}
               PROVE  cpc \notin {"connect", "sleep", "asleep", "woken", "ack"}
    BY DEF HandshakeComplete
  <2>1. PICK k \in running : ClientRuns(k)
    BY DEF OneInv
  <2>2. cpc \in Early => accept_queue = <<>> /\ accepted = {}
    BY <2>1 DEF ClientRuns, ReachedAt
  <2>3. cpc \notin Early
    BY <2>2 DEF ToSet
  <2> QED
    BY <2>3 DEF Early, Waiting
<1> QED
  BY <1>1, OneConnection, PTL

(* The segment that tcp_scan_timer_list sends again is put into the ring buffer once:
   what follows it sets rcv_nxt past its sequence number, and nothing sets it back. *)
THEOREM SegmentReceivedOnce ==
  ASSUME OneClient
  PROVE  Spec => []ReceivedOnce
<1>1. OneInv => ReceivedOnce
  BY DEF OneInv, OneChild, ChildIs, ReceivedOnce
<1> QED
  BY <1>1, OneConnection, PTL

(* A client in TIME_WAIT has been told of a FIN, and the server sends one only in
   answer to the client's own: some child's rcv_nxt is past the client's FIN.  It need
   not have the data before it: tcp_process assigns rcv_nxt whatever was received. *)
THEOREM FinsReceived ==
  ASSUME OneClient
  PROVE  Spec => []FinReceived
<1>1. ConnInv /\ OneInv => FinReceived
  <2> SUFFICES ASSUME ConnInv, OneInv, NEW x \in Client, sock[x].state = "TIME_WAIT"
               PROVE  \E y \in Child : sock[y].rcv_nxt = sock[x].snd_nxt
    BY DEF FinReceived
  <2>1. x \in running
    BY ClientIs, NewSockIs
  <2>2. ClientRuns(x)
    BY <2>1 DEF OneInv
  <2>3. PICK y \in Child : Ended(y)
    BY <2>2 DEF ClientRuns, AnyEnded
  <2> QED
    BY <2>2, <2>3 DEF ClientRuns, ReachedAt
<1> QED
  BY <1>1, OneConnection, InvariantHolds, PTL
=============================================================================
