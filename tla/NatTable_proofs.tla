-------------------------- MODULE NatTable_proofs --------------------------
(***************************************************************************)
(* What TLAPS proves of NatTable, for all sets of endpoints, pools and     *)
(* rules.                                                                  *)
(*                                                                         *)
(* That a packet finds its own mapping (RoundTrip) is no induction by      *)
(* itself: of the mappings of a remote endpoint, those made from outside   *)
(* follow the rules and lead to servers, those made from inside have a     *)
(* port of the pool and belong to endpoints that are no servers (Ruled);   *)
(* that keeps both kinds apart when one is added.  That a port is given    *)
(* once needs that all the mappings of all remote endpoints are told apart *)
(* by their ports of the pool (OneFlow), and that the ports in use are     *)
(* marked (Marked).                                                        *)
(***************************************************************************)
EXTENDS NatTable, Lists_proofs

\* A mapping of a rule's port leads where the rule says; one of a port of the pool
\* belongs to no server.
Ruled ==
  \A r \in Remote : \A k \in DOMAIN mappings[r] :
    LET m == mappings[r][k]
    IN  /\ m.external \in DOMAIN Rules => m.internal = Rules[m.external]
        /\ m.external \in Pool => m.internal \notin Servers

Distinct ==
  \A r \in Remote : \A k, l \in DOMAIN mappings[r] :
    \/ mappings[r][k].internal = mappings[r][l].internal
    \/ mappings[r][k].external = mappings[r][l].external
    => k = l

OneFlow ==
  \A r, q \in Remote : \A k \in DOMAIN mappings[r], l \in DOMAIN mappings[q] :
    mappings[r][k].external \in Pool /\ mappings[r][k].external = mappings[q][l].external
    => r = q

Marked ==
  \A p \in Pool : p \in assigned_ports <=>
    \E r \in Remote : \E k \in DOMAIN mappings[r] : mappings[r][k].external = p

NatInv == TypeOK /\ Ruled /\ Distinct /\ OneFlow /\ Marked

-----------------------------------------------------------------------------
LEMMA InitStep == Init => NatInv
<1> SUFFICES ASSUME Init  PROVE NatInv
  OBVIOUS
<1>1. \A r \in Remote : mappings[r] = <<>> /\ DOMAIN mappings[r] = {}
  BY DEF Init
<1>2. mappings \in [Remote -> Seq(MappingType)]
  BY DEF Init
<1> QED
  BY <1>1, <1>2 DEF Init, NatInv, TypeOK, Ruled, Distinct, OneFlow, Marked

LEMMA ListIs ==
  ASSUME NatInv, NEW r \in Remote
  PROVE  /\ mappings[r] \in Seq(MappingType)
         /\ Len(mappings[r]) \in Nat /\ DOMAIN mappings[r] = 1 .. Len(mappings[r])
         /\ \A k \in DOMAIN mappings[r] : mappings[r][k] \in MappingType
BY DEF NatInv, TypeOK

\* The mapping a packet belongs to fits, if there is one.
LEMMA OutgoingIs ==
  ASSUME NatInv, NEW r \in Remote, NEW i
  PROVE  /\ Outgoing(r, i) = 0 => \A k \in DOMAIN mappings[r] : mappings[r][k].internal # i
         /\ Outgoing(r, i) # 0 => /\ Outgoing(r, i) \in DOMAIN mappings[r]
                                  /\ mappings[r][Outgoing(r, i)].internal = i
<1> DEFINE found == {k \in DOMAIN mappings[r] : mappings[r][k].internal = i}
<1>1. Outgoing(r, i) = IF found = {} THEN 0 ELSE Min(found)
  BY DEF Outgoing, First
<1>2. found \in SUBSET Nat /\ 0 \notin found
  BY ListIs
<1>3. found # {} => Min(found) \in found
  BY <1>2, LeastIs
<1> QED
  BY <1>1, <1>2, <1>3

LEMMA IncomingIs ==
  ASSUME NatInv, NEW r \in Remote, NEW p
  PROVE  /\ Incoming(r, p) = 0 => \A k \in DOMAIN mappings[r] : mappings[r][k].external # p
         /\ Incoming(r, p) # 0 => /\ Incoming(r, p) \in DOMAIN mappings[r]
                                  /\ mappings[r][Incoming(r, p)].external = p
<1> DEFINE found == {k \in DOMAIN mappings[r] : mappings[r][k].external = p}
<1>1. Incoming(r, p) = IF found = {} THEN 0 ELSE Min(found)
  BY DEF Incoming, First
<1>2. found \in SUBSET Nat /\ 0 \notin found
  BY ListIs
<1>3. found # {} => Min(found) \in found
  BY <1>2, LeastIs
<1> QED
  BY <1>1, <1>2, <1>3

\* Flags and idle times are of no matter to the invariant.
LEMMA Unmoved ==
  ASSUME NatInv, mappings' \in [Remote -> Seq(MappingType)],
         \A r \in Remote : /\ DOMAIN mappings'[r] = DOMAIN mappings[r]
                           /\ \A k \in DOMAIN mappings[r] :
                                /\ mappings'[r][k].internal = mappings[r][k].internal
                                /\ mappings'[r][k].external = mappings[r][k].external,
         UNCHANGED assigned_ports
  PROVE  NatInv'
<1>1. TypeOK'
  BY DEF NatInv, TypeOK
<1>2. Ruled' /\ Distinct'
  BY DEF NatInv, Ruled, Distinct
<1>3. OneFlow'
  BY DEF NatInv, OneFlow
<1>4. Marked'
  BY DEF NatInv, Marked
<1> QED
  BY <1>1, <1>2, <1>3, <1>4 DEF NatInv

FinOut(m, b, n) == [m EXCEPT !.internal_fin = b, !.idle = n]
FinIn(m, b, n) == [m EXCEPT !.external_fin = b, !.idle = n]
Idle(m, n) == [m EXCEPT !.idle = n]

LEMMA TouchedIs ==
  ASSUME NEW m \in MappingType, NEW b \in BOOLEAN, NEW n \in 0 .. Timeout + 1,
         NEW t \in {FinOut(m, b, n), FinIn(m, b, n), Idle(m, n)}
  PROVE  t \in MappingType /\ t.internal = m.internal /\ t.external = m.external
<1>1. CASE t = FinOut(m, b, n)
  BY <1>1 DEF MappingType, FinOut
<1>2. CASE t = FinIn(m, b, n)
  BY <1>2 DEF MappingType, FinIn
<1>3. CASE t = Idle(m, n)
  BY <1>3 DEF MappingType, Idle
<1> QED
  BY <1>1, <1>2, <1>3

LEMMA TranslateStep ==
  ASSUME NatInv, NEW r \in Remote, NEW k \in DOMAIN mappings[r], NEW kind,
         TranslateOut(r, k, kind) \/ TranslateIn(r, k, kind)
  PROVE  NatInv'
<1> DEFINE s == mappings[r]
<1>1. /\ s \in Seq(MappingType) /\ s[k] \in MappingType /\ k \in DOMAIN s
      /\ mappings \in [Remote -> Seq(MappingType)]
  BY ListIs DEF NatInv, TypeOK
<1>0. Fin(kind) \in BOOLEAN /\ 0 \in 0 .. Timeout + 1
  BY NatAssumption DEF Fin
<1>2. PICK m \in MappingType : /\ m.internal = s[k].internal /\ m.external = s[k].external
                               /\ mappings' = [mappings EXCEPT ![r] = [s EXCEPT ![k] = m]]
  <2>1. CASE TranslateOut(r, k, kind)
    <3> DEFINE m == FinOut(s[k], Fin(kind), 0)
    <3>1. m \in MappingType /\ m.internal = s[k].internal /\ m.external = s[k].external
      BY <1>0, <1>1, TouchedIs
    <3>2. mappings' = [mappings EXCEPT ![r] = [s EXCEPT ![k] = m]]
      BY <1>1, <2>1 DEF TranslateOut, FinOut
    <3> QED
      BY <3>1, <3>2
  <2>2. CASE TranslateIn(r, k, kind)
    <3> DEFINE m == FinIn(s[k], Fin(kind), 0)
    <3>1. m \in MappingType /\ m.internal = s[k].internal /\ m.external = s[k].external
      BY <1>0, <1>1, TouchedIs
    <3>2. mappings' = [mappings EXCEPT ![r] = [s EXCEPT ![k] = m]]
      BY <1>1, <2>2 DEF TranslateIn, FinIn
    <3> QED
      BY <3>1, <3>2
  <2> QED
    BY <2>1, <2>2
<1> DEFINE t == [s EXCEPT ![k] = m]
<1>3. t \in Seq(MappingType) /\ DOMAIN t = DOMAIN s
  BY <1>1, <1>2
<1>4. \A l \in DOMAIN s : t[l].internal = s[l].internal /\ t[l].external = s[l].external
  BY <1>1, <1>2
<1>5. mappings' = [mappings EXCEPT ![r] = t]
  BY <1>2
<1> HIDE DEF t
<1>6. /\ mappings' \in [Remote -> Seq(MappingType)]
      /\ \A q \in Remote : mappings'[q] = IF q = r THEN t ELSE mappings[q]
  BY <1>1, <1>3, <1>5
<1>7. \A q \in Remote : /\ DOMAIN mappings'[q] = DOMAIN mappings[q]
                        /\ \A l \in DOMAIN mappings[q] :
                             /\ mappings'[q][l].internal = mappings[q][l].internal
                             /\ mappings'[q][l].external = mappings[q][l].external
  BY <1>3, <1>4, <1>6
<1>8. UNCHANGED assigned_ports
  BY DEF TranslateOut, TranslateIn
<1> QED
  BY <1>6, <1>7, <1>8, Unmoved

LEMMA TickStep ==
  ASSUME NatInv, Tick
  PROVE  NatInv'
<1> DEFINE older(r, k) == LET n == mappings[r][k].idle IN IF n > Timeout THEN n ELSE n + 1
           New(r, k) == Idle(mappings[r][k], older(r, k))
<1>1. \A r \in Remote : mappings'[r] = [k \in DOMAIN mappings[r] |-> New(r, k)]
  BY DEF Tick, Idle
<1>2. mappings' = [r \in Remote |-> mappings'[r]]
  BY DEF Tick
<1>3. ASSUME NEW r \in Remote, NEW k \in DOMAIN mappings[r]
      PROVE  /\ New(r, k) \in MappingType
             /\ New(r, k).internal = mappings[r][k].internal
             /\ New(r, k).external = mappings[r][k].external
  <2>1. mappings[r][k] \in MappingType
    BY <1>3, ListIs
  <2>2. mappings[r][k].idle \in 0 .. Timeout + 1
    BY <2>1 DEF MappingType
  <2>3. older(r, k) \in 0 .. Timeout + 1
    BY <2>2, NatAssumption
  <2> HIDE DEF older
  <2> QED
    BY <2>1, <2>3, TouchedIs
<1> HIDE DEF New
<1>4. ASSUME NEW r \in Remote
      PROVE  /\ mappings'[r] \in Seq(MappingType) /\ DOMAIN mappings'[r] = DOMAIN mappings[r]
             /\ \A k \in DOMAIN mappings[r] : mappings'[r][k] = New(r, k)
  <2> DEFINE n == Len(mappings[r])
             t == [k \in 1 .. n |-> New(r, k)]
  <2>1. n \in Nat /\ DOMAIN mappings[r] = 1 .. n
    BY ListIs
  <2>2. mappings'[r] = t
    BY <1>1, <2>1
  <2>3. \A k \in 1 .. n : New(r, k) \in MappingType
    BY <1>3, <2>1
  <2> HIDE DEF n
  <2>4. t \in Seq(MappingType) /\ DOMAIN t = 1 .. n /\ \A k \in 1 .. n : t[k] = New(r, k)
    BY <2>1, <2>3
  <2> QED
    BY <2>1, <2>2, <2>4
<1>5. mappings' \in [Remote -> Seq(MappingType)]
  BY <1>2, <1>4
<1>6. UNCHANGED assigned_ports
  BY DEF Tick
<1> QED
  BY <1>3, <1>4, <1>5, <1>6, Unmoved

\* A mapping is added that shares its endpoints with no other.
LEMMA AddedStep ==
  ASSUME NatInv, NEW r \in Remote, NEW m \in MappingType,
         mappings' = [mappings EXCEPT ![r] = Append(@, m)],
         \A k \in DOMAIN mappings[r] : /\ mappings[r][k].internal # m.internal
                                       /\ mappings[r][k].external # m.external,
         m.external \in DOMAIN Rules => /\ m.internal = Rules[m.external]
                                        /\ UNCHANGED assigned_ports,
         m.external \in Pool => /\ m.internal \notin Servers
                                /\ m.external \notin assigned_ports
                                /\ assigned_ports' = assigned_ports \cup {m.external}
  PROVE  NatInv'
<1> DEFINE s == mappings[r]
           n == Len(s) + 1
           t == Append(s, m)
<1>1. s \in Seq(MappingType) /\ Len(s) \in Nat /\ DOMAIN s = 1 .. Len(s)
  BY ListIs
<1>2. /\ t \in Seq(MappingType) /\ DOMAIN t = 1 .. n /\ n \in DOMAIN t /\ t[n] = m
      /\ \A k \in DOMAIN t : k # n => k \in DOMAIN s /\ t[k] = s[k]
      /\ \A k \in DOMAIN s : k \in DOMAIN t /\ k # n /\ t[k] = s[k]
  BY <1>1
<1>3. mappings' = [mappings EXCEPT ![r] = t]
  OBVIOUS
<1> HIDE DEF t, n
<1>4. /\ mappings' \in [Remote -> Seq(MappingType)]
      /\ mappings'[r] = t
      /\ \A q \in Remote : q # r => mappings'[q] = mappings[q]
  BY <1>2, <1>3 DEF NatInv, TypeOK
<1>5. m.external \in Pool \cup DOMAIN Rules /\ DOMAIN Rules \cap Pool = {}
  BY NatAssumption DEF MappingType
<1>6. TypeOK'
  <2>1. assigned_ports' \subseteq Pool
    BY <1>5 DEF NatInv, TypeOK
  <2> QED
    BY <1>4, <2>1 DEF TypeOK
<1>7. Ruled'
  BY <1>2, <1>4, <1>5 DEF NatInv, Ruled
<1>8. Distinct'
  <2> SUFFICES ASSUME NEW q \in Remote, NEW k \in DOMAIN mappings'[q], NEW l \in DOMAIN mappings'[q],
                      \/ mappings'[q][k].internal = mappings'[q][l].internal
                      \/ mappings'[q][k].external = mappings'[q][l].external
               PROVE  k = l
    BY DEF Distinct
  <2>1. CASE q # r
    BY <1>4, <2>1 DEF NatInv, Distinct
  <2>2. CASE q = r
    <3>1. CASE k = n \/ l = n
      BY <1>2, <1>4, <2>2, <3>1
    <3>2. CASE k # n /\ l # n
      BY <1>2, <1>4, <2>2, <3>2 DEF NatInv, Distinct
    <3> QED
      BY <3>1, <3>2
  <2> QED
    BY <2>1, <2>2
<1>9. m.external \in Pool =>
        \A q \in Remote : \A k \in DOMAIN mappings[q] : mappings[q][k].external # m.external
  BY DEF NatInv, Marked
<1>10. OneFlow'
  <2> SUFFICES ASSUME NEW q \in Remote, NEW o \in Remote,
                      NEW k \in DOMAIN mappings'[q], NEW l \in DOMAIN mappings'[o],
                      mappings'[q][k].external \in Pool,
                      mappings'[q][k].external = mappings'[o][l].external,
                      q # o
               PROVE  FALSE
    BY DEF OneFlow
  <2>1. CASE q = r /\ k = n
    BY <1>2, <1>4, <1>9, <2>1
  <2>2. CASE o = r /\ l = n
    BY <1>2, <1>4, <1>9, <2>2
  <2>3. CASE ~(q = r /\ k = n) /\ ~(o = r /\ l = n)
    <3>1. k \in DOMAIN mappings[q] /\ mappings[q][k] = mappings'[q][k]
      BY <1>2, <1>4, <2>3
    <3>2. l \in DOMAIN mappings[o] /\ mappings[o][l] = mappings'[o][l]
      BY <1>2, <1>4, <2>3
    <3> QED
      BY <3>1, <3>2 DEF NatInv, OneFlow
  <2> QED
    BY <2>1, <2>2, <2>3
<1>11. Marked'
  <2> DEFINE Used(p) == \E q \in Remote : \E k \in DOMAIN mappings[q] : mappings[q][k].external = p
             UsedNow(p) == \E q \in Remote : \E k \in DOMAIN mappings'[q] : mappings'[q][k].external = p
  <2>1. ASSUME NEW p \in Pool  PROVE UsedNow(p) <=> Used(p) \/ p = m.external
    <3>1. ASSUME UsedNow(p)  PROVE Used(p) \/ p = m.external
      <4>1. PICK q \in Remote : \E k \in DOMAIN mappings'[q] : mappings'[q][k].external = p
        BY <3>1
      <4>2. PICK k \in DOMAIN mappings'[q] : mappings'[q][k].external = p
        BY <4>1
      <4> QED
        BY <1>2, <1>4, <4>2
    <3>2. ASSUME Used(p)  PROVE UsedNow(p)
      <4>1. PICK q \in Remote : \E k \in DOMAIN mappings[q] : mappings[q][k].external = p
        BY <3>2
      <4>2. PICK k \in DOMAIN mappings[q] : mappings[q][k].external = p
        BY <4>1
      <4> QED
        BY <1>2, <1>4, <4>2
    <3>3. ASSUME p = m.external  PROVE UsedNow(p)
      BY <1>2, <1>4, <3>3
    <3> QED
      BY <3>1, <3>2, <3>3
  <2>2. \A p \in Pool : p \in assigned_ports' <=> p \in assigned_ports \/ p = m.external
    BY <1>5
  <2>3. \A p \in Pool : p \in assigned_ports <=> Used(p)
    BY DEF NatInv, Marked
  <2>4. \A p \in Pool : p \in assigned_ports' <=> UsedNow(p)
    BY <2>1, <2>2, <2>3
  <2> QED
    BY <2>4 DEF Marked
<1> QED
  BY <1>6, <1>7, <1>8, <1>10, <1>11 DEF NatInv

LEMMA NewMappingIs ==
  ASSUME NEW i \in Internal, NEW p \in Pool \cup DOMAIN Rules,
         NEW ifin \in BOOLEAN, NEW efin \in BOOLEAN
  PROVE  /\ Mapping(i, p, ifin, efin) \in MappingType
         /\ Mapping(i, p, ifin, efin).internal = i /\ Mapping(i, p, ifin, efin).external = p
BY NatAssumption DEF Mapping, MappingType

LEMMA NewOutStep ==
  ASSUME NatInv, NEW i \in Internal, NEW r \in Remote, i \notin Servers,
         Outgoing(r, i) = 0, NewOut(r, i)
  PROVE  NatInv'
<1> DEFINE p == Min(FreePorts)
<1>1. p \in Pool /\ p \notin assigned_ports
  <2>1. FreePorts \in SUBSET Nat /\ FreePorts # {}
    BY NatAssumption DEF NewOut, FreePorts, Pool
  <2>2. p \in FreePorts
    BY <2>1, LeastIs
  <2> QED
    BY <2>2 DEF FreePorts
<1>2. assigned_ports' = assigned_ports \cup {p}
  BY DEF NewOut
<1>3. PICK efin \in BOOLEAN :
        mappings' = [mappings EXCEPT ![r] = Append(@, Mapping(i, p, FALSE, efin))]
  BY DEF NewOut
<1> HIDE DEF p
<1> DEFINE m == Mapping(i, p, FALSE, efin)
<1>4. m \in MappingType /\ m.internal = i /\ m.external = p
  BY <1>1, NewMappingIs
<1>5. mappings' = [mappings EXCEPT ![r] = Append(@, m)]
  BY <1>3
<1> HIDE DEF m
<1>6. \A k \in DOMAIN mappings[r] : mappings[r][k].internal # i /\ mappings[r][k].external # p
  BY <1>1, OutgoingIs DEF NatInv, Marked
<1>7. p \notin DOMAIN Rules
  BY <1>1, NatAssumption
<1> QED
  BY <1>1, <1>2, <1>4, <1>5, <1>6, <1>7, AddedStep

\* No mapping has the server of a rule that has none of the rule's port.
LEMMA NewInStep ==
  ASSUME NatInv, NEW r \in Remote, NEW p \in DOMAIN Rules, Incoming(r, p) = 0, NewIn(r, p)
  PROVE  NatInv'
<1>1. UNCHANGED assigned_ports /\ Rules[p] \in Internal /\ p \notin Pool
  BY NatAssumption DEF NewIn
<1>2. PICK ifin \in BOOLEAN :
        mappings' = [mappings EXCEPT ![r] = Append(@, Mapping(Rules[p], p, ifin, FALSE))]
  BY DEF NewIn
<1> DEFINE m == Mapping(Rules[p], p, ifin, FALSE)
<1>3. m \in MappingType /\ m.internal = Rules[p] /\ m.external = p
  BY <1>1, NewMappingIs
<1>4. mappings' = [mappings EXCEPT ![r] = Append(@, m)]
  BY <1>2
<1> HIDE DEF m
<1>5. ASSUME NEW k \in DOMAIN mappings[r]
      PROVE  mappings[r][k].internal # Rules[p] /\ mappings[r][k].external # p
  <2>1. mappings[r][k].external # p
    BY IncomingIs
  <2>2. mappings[r][k].external \in Pool \cup DOMAIN Rules
    BY ListIs DEF MappingType
  <2>3. CASE mappings[r][k].external \in Pool
    BY <2>1, <2>3 DEF NatInv, Ruled, Servers
  <2>4. CASE mappings[r][k].external \in DOMAIN Rules
    BY <2>1, <2>4, NatAssumption DEF NatInv, Ruled
  <2> QED
    BY <2>2, <2>3, <2>4
<1> QED
  BY <1>1, <1>3, <1>4, <1>5, AddedStep

\* A sweep removes mappings with their ports.
LEMMA SweepStep ==
  ASSUME NatInv, Sweep
  PROVE  NatInv'
<1>1. PICK finished :
        LET goes(m) == Expired(m) \/ m \in finished
            kept(r) == {k \in DOMAIN mappings[r] : ~goes(mappings[r][k])}
            gone == UNION {{m \in ToSet(mappings[r]) : goes(m)} : r \in Remote}
        IN  /\ mappings' = [r \in Remote |-> Sublist(mappings[r], kept(r))]
            /\ assigned_ports' = assigned_ports \ Freed(gone)
  BY DEF Sweep
<1> DEFINE goes(m) == Expired(m) \/ m \in finished
           kept(r) == {k \in DOMAIN mappings[r] : ~goes(mappings[r][k])}
           gone == UNION {{m \in ToSet(mappings[r]) : goes(m)} : r \in Remote}
<1>2. /\ mappings' = [r \in Remote |-> Sublist(mappings[r], kept(r))]
      /\ assigned_ports' = assigned_ports \ Freed(gone)
  BY <1>1
<1> HIDE DEF goes
<1>3. ASSUME NEW r \in Remote
      PROVE  /\ mappings'[r] \in Seq(MappingType)
             /\ \E f : /\ \A k \in DOMAIN mappings'[r] :
                            /\ f[k] \in DOMAIN mappings[r] /\ ~goes(mappings[r][f[k]])
                            /\ mappings'[r][k] = mappings[r][f[k]]
                       /\ \A k, l \in DOMAIN mappings'[r] : f[k] = f[l] => k = l
                       /\ \A k \in DOMAIN mappings[r] : ~goes(mappings[r][k]) =>
                            \E l \in DOMAIN mappings'[r] : f[l] = k
  <2> DEFINE s == mappings[r]
             K == kept(r)
             t == Sublist(s, K)
  <2>1. s \in Seq(MappingType) /\ DOMAIN s = 1 .. Len(s) /\ K \in SUBSET DOMAIN s
    BY ListIs
  <2>2. mappings'[r] = t
    BY <1>2
  <2>3. \A k \in DOMAIN s : k \in K <=> ~goes(s[k])
    OBVIOUS
  <2> HIDE DEF K, s
  <2>4. t \in Seq(MappingType)
    BY <2>1, SublistIs
  <2>5. PICK f : /\ Orders(f, K) /\ Cardinality(K) = Len(t)
                 /\ \A j \in 1 .. Len(t) : t[j] = s[f[j]]
    BY <2>1, SublistIs
  <2> HIDE DEF t
  <2>6. DOMAIN t = 1 .. Len(t) /\ Len(t) \in Nat
    BY <2>4
  <2>7. \A k \in DOMAIN t : f[k] \in K /\ f[k] \in DOMAIN s /\ t[k] = s[f[k]]
    BY <2>1, <2>5, <2>6 DEF Orders
  <2>8. \A k, l \in DOMAIN t : f[k] = f[l] => k = l
    <3>1. \A k, l \in DOMAIN t : k < l \/ l < k \/ k = l
      BY <2>6
    <3>2. \A k, l \in DOMAIN t : k < l => f[k] < f[l]
      BY <2>5, <2>6 DEF Orders
    <3>3. \A k \in DOMAIN t : f[k] \in Int
      BY <2>1, <2>7
    <3> QED
      BY <3>1, <3>2, <3>3
  <2>9. \A k \in K : \E l \in DOMAIN t : f[l] = k
    BY <2>5, <2>6 DEF Orders
  <2>10. /\ \A k \in DOMAIN t : /\ f[k] \in DOMAIN s /\ ~goes(s[f[k]])
                                /\ t[k] = s[f[k]]
         /\ \A k \in DOMAIN s : ~goes(s[k]) => \E l \in DOMAIN t : f[l] = k
    BY <2>3, <2>7, <2>9
  <2> QED
    BY <2>2, <2>4, <2>8, <2>10 DEF s
<1> DEFINE From(r, k, l) == /\ l \in DOMAIN mappings[r] /\ ~goes(mappings[r][l])
                            /\ mappings'[r][k] = mappings[r][l]
<1>4. ASSUME NEW r \in Remote, NEW k \in DOMAIN mappings'[r]
      PROVE  \E l : From(r, k, l)
  BY <1>3
<1>5. TypeOK'
  <2>1. mappings' = [r \in Remote |-> mappings'[r]]
    BY <1>2
  <2>2. mappings' \in [Remote -> Seq(MappingType)]
    BY <1>3, <2>1
  <2> QED
    BY <1>2, <2>2 DEF NatInv, TypeOK
<1>6. Ruled'
  BY <1>4 DEF NatInv, Ruled
<1>7. Distinct'
  <2> SUFFICES ASSUME NEW r \in Remote, NEW k \in DOMAIN mappings'[r], NEW l \in DOMAIN mappings'[r],
                      \/ mappings'[r][k].internal = mappings'[r][l].internal
                      \/ mappings'[r][k].external = mappings'[r][l].external
               PROVE  k = l
    BY DEF Distinct
  <2>1. PICK f : /\ \A j \in DOMAIN mappings'[r] :
                      /\ f[j] \in DOMAIN mappings[r] /\ mappings'[r][j] = mappings[r][f[j]]
                 /\ \A i, j \in DOMAIN mappings'[r] : f[i] = f[j] => i = j
    BY <1>3
  <2>2. f[k] = f[l]
    BY <2>1 DEF NatInv, Distinct
  <2> QED
    BY <2>1, <2>2
<1>8. OneFlow'
  <2> SUFFICES ASSUME NEW r \in Remote, NEW q \in Remote,
                      NEW k \in DOMAIN mappings'[r], NEW l \in DOMAIN mappings'[q],
                      mappings'[r][k].external \in Pool,
                      mappings'[r][k].external = mappings'[q][l].external
               PROVE  r = q
    BY DEF OneFlow
  <2>1. PICK i : From(r, k, i)
    BY <1>4
  <2>2. PICK j : From(q, l, j)
    BY <1>4
  <2> QED
    BY <2>1, <2>2 DEF NatInv, OneFlow
<1>9. \A p : p \in Freed(gone) <=>
        \E r \in Remote : \E k \in DOMAIN mappings[r] : /\ goes(mappings[r][k])
                                                        /\ mappings[r][k].external = p
  BY DEF Freed, ToSet
<1>10. Marked'
  <2> SUFFICES ASSUME NEW p \in Pool
               PROVE  p \in assigned_ports' <=>
                        \E r \in Remote : \E k \in DOMAIN mappings'[r] : mappings'[r][k].external = p
    BY DEF Marked
  <2>1. ASSUME p \in assigned_ports'
        PROVE  \E r \in Remote : \E k \in DOMAIN mappings'[r] : mappings'[r][k].external = p
    <3>1. p \in assigned_ports /\ p \notin Freed(gone)
      BY <1>2, <2>1
    <3>2. PICK r \in Remote : \E k \in DOMAIN mappings[r] : mappings[r][k].external = p
      BY <3>1 DEF NatInv, Marked
    <3>3. PICK k \in DOMAIN mappings[r] : mappings[r][k].external = p
      BY <3>2
    <3>4. ~goes(mappings[r][k])
      BY <1>9, <3>1, <3>3
    <3>5. \E l \in DOMAIN mappings'[r] : mappings'[r][l] = mappings[r][k]
      BY <1>3, <3>4
    <3> QED
      BY <3>3, <3>5
  <2>2. ASSUME NEW r \in Remote, NEW k \in DOMAIN mappings'[r], mappings'[r][k].external = p
        PROVE  p \in assigned_ports'
    <3>1. PICK l : From(r, k, l)
      BY <1>4
    <3>2. p \in assigned_ports
      BY <2>2, <3>1 DEF NatInv, Marked
    <3>3. ASSUME NEW q \in Remote, NEW j \in DOMAIN mappings[q], mappings[q][j].external = p
          PROVE  ~goes(mappings[q][j])
      <4>1. q = r
        BY <2>2, <3>1, <3>3 DEF NatInv, OneFlow
      <4>2. j = l
        BY <2>2, <3>1, <3>3, <4>1 DEF NatInv, Distinct
      <4> QED
        BY <3>1, <4>1, <4>2
    <3>4. p \notin Freed(gone)
      BY <1>9, <3>3
    <3> QED
      BY <1>2, <3>2, <3>4
  <2> QED
    BY <2>1, <2>2
<1> QED
  BY <1>5, <1>6, <1>7, <1>8, <1>10 DEF NatInv

LEMMA NextStep == NatInv /\ [Next]_vars => NatInv'
<1> SUFFICES ASSUME NatInv, [Next]_vars  PROVE NatInv'
  OBVIOUS
<1>1. ASSUME NEW i \in Internal, NEW r \in Remote, NEW kind \in Kinds,
             Sent(i, kind), PacketOut(i, r, kind)
      PROVE  NatInv'
  <2>1. CASE Outgoing(r, i) # 0
    <3>1. TranslateOut(r, Outgoing(r, i), kind)
      BY <1>1, <2>1 DEF PacketOut
    <3> QED
      BY <2>1, <3>1, OutgoingIs, TranslateStep
  <2>2. CASE Outgoing(r, i) = 0
    <3>1. kind = "SYN" /\ NewOut(r, i) /\ i \notin Servers
      BY <1>1, <2>2 DEF PacketOut, Sent
    <3> QED
      BY <2>2, <3>1, NewOutStep
  <2> QED
    BY <2>1, <2>2
<1>2. ASSUME NEW r \in Remote, NEW p \in Pool \cup DOMAIN Rules, NEW kind \in Kinds,
             PacketIn(r, p, kind)
      PROVE  NatInv'
  <2>1. CASE Incoming(r, p) # 0
    <3>1. TranslateIn(r, Incoming(r, p), kind)
      BY <1>2, <2>1 DEF PacketIn
    <3> QED
      BY <2>1, <3>1, IncomingIs, TranslateStep
  <2>2. CASE Incoming(r, p) = 0
    <3>1. NewIn(r, p) /\ p \in DOMAIN Rules
      BY <1>2, <2>2 DEF PacketIn, NewIn
    <3> QED
      BY <2>2, <3>1, NewInStep
  <2> QED
    BY <2>1, <2>2
<1>3. CASE UNCHANGED vars
  BY <1>3 DEF vars, NatInv, TypeOK, Ruled, Distinct, OneFlow, Marked
<1> QED
  BY <1>1, <1>2, <1>3, SweepStep, TickStep DEF Next

-----------------------------------------------------------------------------
\* The invariant behind the results below: what packets of both sides, sweeps and
\* time leave of the table and the pool.
THEOREM InvariantHolds == Spec => []NatInv
  BY InitStep, NextStep, PTL DEF Spec

\* The table keeps its types: an external port is one of the pool or of a rule.
THEOREM TypesHold == Spec => []TypeOK
<1>1. NatInv => TypeOK
  BY DEF NatInv
<1> QED
  BY <1>1, InvariantHolds, PTL

\* do_translation finds for a packet, in either direction, the mapping of its own
\* flow: a reply goes to the host that asked.
THEOREM RoundTripHolds == Spec => []RoundTrip
<1>1. NatInv => RoundTrip
  <2> SUFFICES ASSUME NatInv, NEW r \in Remote, NEW k \in DOMAIN mappings[r]
               PROVE  /\ Outgoing(r, mappings[r][k].internal) = k
                      /\ Incoming(r, mappings[r][k].external) = k
    BY DEF RoundTrip
  <2>1. Outgoing(r, mappings[r][k].internal) = k
    BY OutgoingIs DEF NatInv, Distinct
  <2>2. Incoming(r, mappings[r][k].external) = k
    BY IncomingIs DEF NatInv, Distinct
  <2> QED
    BY <2>1, <2>2
<1> QED
  BY <1>1, InvariantHolds, PTL

\* assigned_ports marks a port of the pool while exactly one mapping uses it, under
\* whatever packets, sweeps, and flows that end and begin at the limit.
THEOREM PoolIsExact == Spec => []PoolExact
<1>1. NatInv => PoolExact
  <2> SUFFICES ASSUME NatInv, NEW p \in Pool
               PROVE  LET users == UNION {{<<r, k>> : k \in {k \in DOMAIN mappings[r] :
                                              mappings[r][k].external = p}} : r \in Remote}
                      IN  Cardinality(users) = (IF p \in assigned_ports THEN 1 ELSE 0)
    BY DEF PoolExact
  <2> DEFINE users == UNION {{<<r, k>> : k \in {k \in DOMAIN mappings[r] :
                                mappings[r][k].external = p}} : r \in Remote}
  <2>1. CASE p \in assigned_ports
    <3>1. PICK r \in Remote : \E k \in DOMAIN mappings[r] : mappings[r][k].external = p
      BY <2>1 DEF NatInv, Marked
    <3>2. PICK k \in DOMAIN mappings[r] : mappings[r][k].external = p
      BY <3>1
    <3>3. ASSUME NEW q \in Remote, NEW l \in DOMAIN mappings[q], mappings[q][l].external = p
          PROVE  q = r /\ l = k
      BY <3>2, <3>3 DEF NatInv, OneFlow, Distinct
    <3>4. users = {<<r, k>>}
      BY <3>2, <3>3
    <3>5. Cardinality({<<r, k>>}) = 1
      BY FS_Singleton
    <3> QED
      BY <2>1, <3>4, <3>5
  <2>2. CASE p \notin assigned_ports
    <3>1. users = {}
      BY <2>2 DEF NatInv, Marked
    <3> QED
      BY <2>2, <3>1, FS_EmptySet
  <2> QED
    BY <2>1, <2>2
<1> QED
  BY <1>1, InvariantHolds, PTL
=============================================================================
