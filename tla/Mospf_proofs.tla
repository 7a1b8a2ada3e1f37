---------------------------- MODULE Mospf_proofs ----------------------------
(* For all routers, networks and faults: a router's database holds one entry of
   another router at most, and none of itself, in whatever order updates come, are
   passed on, expire and are sent anew; and once no update is on its way, all whom a
   router's latest one must reach have it.

   An update is stored in the place of the entry of its router, and only if it is
   not of the router itself; an entry is removed by its place in the list. That the
   lists stay lists of updates takes the types of all that updates are made of.

   That floods reach everyone is an invariant of the floods in progress (FloodInv):
   whoever has an update of r as new as its latest has served each of his neighbours,
   unless the copy for that neighbour is still to be sent or to be received. *)
EXTENDS Mospf, Lists_proofs

Advs == [net : Nets, rid : Routers \cup {NoRouter}]

Msgs == [to : Routers, net : Nets, lsu : Lsus]

Neighbours(r) == [NetsOf(r) -> SUBSET (Routers \ {r})]

Floods == {NoLsu} \cup [rid : Routers, by : Nets, lsu : Lsus]

MospfType ==
    /\ up \in [Routers -> BOOLEAN]
    /\ cut \in [now : SUBSET Nets, count : 0 .. MaxFaults]
    /\ DOMAIN nbr = Routers /\ \A r \in Routers : nbr[r] \in Neighbours(r)
    /\ seq \in [Routers -> Nat]
    /\ db \in [Routers -> Seq(Lsus)]
    /\ flood \in [Routers -> Floods]
    /\ msgs \subseteq Msgs
    /\ life \in [Routers -> {0, 1}]
    /\ sent \in [Routers -> {NoLsu} \cup Lsus]
    /\ fresh \subseteq Routers

(* A router that is down has not restarted yet. *)
OnceDown == \A r \in Routers : ~ up[r] => life[r] = 0

(* The entries of the list s are of different routers, and none is of r. *)
OneEach(r, s) ==
    \A i, j \in DOMAIN s : s[i].rid # r /\ (s[i].rid = s[j].rid => i = j)

MospfInv == MospfType /\ OnceDown /\ OneEntryEach

-----------------------------------------------------------------------------
(* The operations on a database *)

LEMMA RemoveAtIs ==
    ASSUME NEW s \in Seq(Lsus), NEW r, OneEach(r, s), NEW i \in DOMAIN s
    PROVE  RemoveAt(s, i) \in Seq(Lsus) /\ OneEach(r, RemoveAt(s, i))
<1> DEFINE t == RemoveAt(s, i)
<1>1. i \in 1 .. Len(s) /\ Len(s) \in Nat
    OBVIOUS
<1>2. /\ t \in Seq(Lsus) /\ Len(t) = Len(s) - 1
      /\ \A j \in 1 .. Len(s) - 1 : t[j] = s[IF j < i THEN j ELSE j + 1]
    BY RemoveIs
<1> HIDE DEF t
<1>3. OneEach(r, t)
    <2>1. DOMAIN t = 1 .. Len(s) - 1 /\ DOMAIN s = 1 .. Len(s)
        BY <1>1, <1>2
    <2> SUFFICES ASSUME NEW j \in 1 .. Len(s) - 1, NEW k \in 1 .. Len(s) - 1
                 PROVE  t[j].rid # r /\ (t[j].rid = t[k].rid => j = k)
        BY <2>1 DEF OneEach
    <2> DEFINE place(n) == IF n < i THEN n ELSE n + 1
    <2>2. /\ place(j) \in DOMAIN s /\ place(k) \in DOMAIN s
          /\ t[j] = s[place(j)] /\ t[k] = s[place(k)]
          /\ place(j) = place(k) => j = k
        BY <1>1, <1>2, <2>1
    <2> QED
        BY <2>2 DEF OneEach
<1> QED
    BY <1>2, <1>3 DEF t

LEMMA StoredIs ==
    ASSUME NEW r \in Routers, db[r] \in Seq(Lsus), OneEach(r, db[r]),
           NEW lsu \in Lsus, lsu.rid # r
    PROVE  Stored(r, lsu) \in Seq(Lsus) /\ OneEach(r, Stored(r, lsu))
<1>1. CASE Indices(r, lsu.rid) = {}
    <2> DEFINE t == Append(db[r], lsu)
    <2>1. /\ t \in Seq(Lsus) /\ DOMAIN t = 1 .. Len(db[r]) + 1
          /\ DOMAIN db[r] = 1 .. Len(db[r]) /\ Len(db[r]) \in Nat
          /\ \A i \in 1 .. Len(db[r]) : t[i] = db[r][i]
          /\ t[Len(db[r]) + 1] = lsu
        OBVIOUS
    <2>2. \A i \in 1 .. Len(db[r]) : db[r][i].rid # lsu.rid
        BY <1>1, <2>1 DEF Indices
    <2> HIDE DEF t
    <2>3. OneEach(r, t)
        <3>1. ASSUME NEW i \in 1 .. Len(db[r]) + 1, NEW j \in 1 .. Len(db[r]) + 1
              PROVE  t[i].rid # r /\ (t[i].rid = t[j].rid => i = j)
            <4>1. /\ i \in 1 .. Len(db[r]) \/ i = Len(db[r]) + 1
                  /\ j \in 1 .. Len(db[r]) \/ j = Len(db[r]) + 1
                BY <2>1
            <4> QED
                BY <2>1, <2>2, <4>1 DEF OneEach
        <3> QED
            BY <2>1, <3>1 DEF OneEach
    <2> QED
        BY <1>1, <2>1, <2>3 DEF Stored, t
<1>2. CASE Indices(r, lsu.rid) # {}
    <2> DEFINE t == [i \in DOMAIN db[r] |-> IF db[r][i].rid = lsu.rid THEN lsu ELSE db[r][i]]
    <2>1. /\ t \in Seq(Lsus) /\ DOMAIN t = DOMAIN db[r]
          /\ \A i \in DOMAIN db[r] : t[i].rid = db[r][i].rid
        OBVIOUS
    <2> HIDE DEF t
    <2>2. OneEach(r, t)
        BY <2>1 DEF OneEach
    <2> QED
        BY <1>2, <2>1, <2>2 DEF Stored, t
<1> QED
    BY <1>1, <1>2

-----------------------------------------------------------------------------
(* What is sent *)

LEMMA AdvIs ==
    ASSUME MospfAssumption, NEW r \in Routers, NEW nbrs \in Neighbours(r)
    PROVE  AdvOf(r, nbrs) \in SUBSET Advs
<1> SUFFICES ASSUME NEW k \in NetsOf(r),
                    NEW a \in IF nbrs[k] = {} THEN {[net |-> k, rid |-> NoRouter]}
                              ELSE {[net |-> k, rid |-> s] : s \in nbrs[k]}
             PROVE  a \in Advs
    BY DEF AdvOf
<1>1. k \in Nets /\ nbrs[k] \in SUBSET Routers
    BY DEF NetsOf, Neighbours
<1>2. CASE nbrs[k] = {}
    BY <1>1, <1>2 DEF Advs
<1>3. CASE nbrs[k] # {}
    BY <1>1, <1>3 DEF Advs
<1> QED
    BY <1>2, <1>3

LEMMA CopiesAre ==
    ASSUME NEW r \in Routers, NEW nbrs, DOMAIN nbrs \subseteq Nets,
           \A k \in DOMAIN nbrs : nbrs[k] \subseteq Routers, NEW lsu \in Lsus
    PROVE  Copies(nbrs, lsu) \subseteq Msgs
<1> SUFFICES ASSUME NEW k \in DOMAIN nbrs \ cut.now,
                    NEW s \in {s \in nbrs[k] : up[s]}
             PROVE  [to |-> s, net |-> k, lsu |-> lsu] \in Msgs
    BY DEF Copies
<1> QED
    BY DEF Msgs

(* A router whose neighbours are nbrs from now on tells them. *)
LEMMA SendKeeps ==
    ASSUME MospfAssumption, MospfInv, NEW r \in Routers, NEW nbrs \in Neighbours(r),
           send_mospf_lsu(r, nbrs), UNCHANGED <<up, cut, db, flood, life>>,
           DOMAIN nbr' = Routers, \A s \in Routers : nbr'[s] \in Neighbours(s)
    PROVE  MospfInv'
<1> DEFINE lsu == [rid |-> r, seq |-> seq[r], life |-> life[r], adv |-> AdvOf(r, nbrs)]
<1>1. lsu \in Lsus
    <2>1. seq[r] \in Nat /\ life[r] \in {0, 1}
        BY DEF MospfInv, MospfType
    <2> QED
        BY <2>1, AdvIs DEF Lsus, Advs
<1>2. /\ msgs' = msgs \cup Copies(nbrs, lsu) /\ seq' = [seq EXCEPT ![r] = @ + 1]
      /\ sent' = [sent EXCEPT ![r] = lsu]
      /\ fresh' = IF nbrs = nbr[r] THEN fresh \cup {r} ELSE {r}
    BY DEF send_mospf_lsu
<1> HIDE DEF lsu
<1>3. Copies(nbrs, lsu) \subseteq Msgs
    <2>1. DOMAIN nbrs \subseteq Nets /\ \A k \in DOMAIN nbrs : nbrs[k] \subseteq Routers
        BY DEF Neighbours, NetsOf
    <2> QED
        BY <1>1, <2>1, CopiesAre
<1>4. seq' \in [Routers -> Nat] /\ sent' \in [Routers -> {NoLsu} \cup Lsus]
    BY <1>1, <1>2 DEF MospfInv, MospfType
<1>5. msgs' \subseteq Msgs /\ fresh' \subseteq Routers
    BY <1>2, <1>3 DEF MospfInv, MospfType
<1>6. MospfType'
    BY <1>4, <1>5 DEF MospfInv, MospfType, Neighbours
<1>7. (OnceDown /\ OneEntryEach)'
    BY DEF MospfInv, OnceDown, OneEntryEach
<1> QED
    BY <1>6, <1>7 DEF MospfInv

(* The neighbours of r on network k become these. *)
LEMMA NbrIs ==
    ASSUME MospfType, NEW r \in Routers, NEW k \in NetsOf(r),
           NEW now \in SUBSET (Routers \ {r}), nbr' = [nbr EXCEPT ![r][k] = now]
    PROVE  DOMAIN nbr' = Routers /\ \A s \in Routers : nbr'[s] \in Neighbours(s)
<1>1. DOMAIN nbr = Routers /\ \A s \in Routers : nbr[s] \in Neighbours(s)
    BY DEF MospfType
<1>2. nbr' = [nbr EXCEPT ![r] = [nbr[r] EXCEPT ![k] = now]]
    OBVIOUS
<1> DEFINE mine == [nbr[r] EXCEPT ![k] = now]
<1>3. mine \in Neighbours(r)
    BY <1>1 DEF Neighbours
<1> HIDE DEF mine
<1>4. DOMAIN nbr' = Routers /\ nbr'[r] = mine
      /\ \A s \in Routers : s # r => nbr'[s] = nbr[s]
    BY <1>1, <1>2 DEF mine
<1> QED
    BY <1>1, <1>3, <1>4

-----------------------------------------------------------------------------
(* The steps *)

LEMMA InitStep == MospfAssumption /\ Init => MospfInv
<1> SUFFICES ASSUME MospfAssumption, Init  PROVE MospfInv
    OBVIOUS
<1>1. db \in [Routers -> Seq(Lsus)] /\ OneEntryEach
    <2>1. \A r \in Routers : db[r] = <<>>
        BY DEF Init
    <2>2. <<>> \in Seq(Lsus) /\ DOMAIN <<>> = {}
        OBVIOUS
    <2>3. OneEntryEach
        BY <2>1, <2>2 DEF OneEntryEach
    <2> QED
        BY <2>2, <2>3 DEF Init
<1>2. DOMAIN nbr = Routers /\ \A r \in Routers : nbr[r] \in Neighbours(r)
    BY DEF Init, Neighbours
<1>3. cut \in [now : SUBSET Nets, count : 0 .. MaxFaults]
    BY DEF Init, MospfAssumption
<1>4. MospfType
    BY <1>1, <1>2, <1>3 DEF Init, MospfType, Floods
<1>5. OnceDown
    BY DEF Init, OnceDown
<1> QED
    BY <1>1, <1>4, <1>5 DEF MospfInv

LEMMA HelloStep ==
    ASSUME MospfAssumption, MospfInv, NEW r \in Routers, NEW s \in Routers, NEW k \in Nets,
           handle_mospf_hello(r, s, k) \/ checking_nbr_thread(r, s, k)
    PROVE  MospfInv'
<1>1. k \in NetsOf(r) /\ nbr[r][k] \in SUBSET (Routers \ {r})
    <2>1. k \in NetsOf(r)
        BY DEF handle_mospf_hello, checking_nbr_thread, NetsOf
    <2> QED
        BY <2>1 DEF MospfInv, MospfType, Neighbours
<1>2. \E now \in SUBSET (Routers \ {r}) : nbr' = [nbr EXCEPT ![r][k] = now]
    <2>1. CASE handle_mospf_hello(r, s, k)
        <3>1. nbr[r][k] \cup {s} \in SUBSET (Routers \ {r})
            BY <1>1, <2>1 DEF handle_mospf_hello
        <3> QED
            BY <2>1, <3>1 DEF handle_mospf_hello
    <2>2. CASE checking_nbr_thread(r, s, k)
        <3>1. nbr[r][k] \ {s} \in SUBSET (Routers \ {r})
            BY <1>1
        <3> QED
            BY <2>2, <3>1 DEF checking_nbr_thread
    <2> QED
        BY <2>1, <2>2
<1>3. DOMAIN nbr' = Routers /\ \A q \in Routers : nbr'[q] \in Neighbours(q)
    BY <1>1, <1>2, NbrIs DEF MospfInv
<1>4. send_mospf_lsu(r, nbr'[r]) /\ UNCHANGED <<up, cut, db, flood, life>>
    BY DEF handle_mospf_hello, checking_nbr_thread
<1> QED
    BY <1>3, <1>4, SendKeeps

LEMMA PeriodicStep ==
    ASSUME MospfAssumption, MospfInv, NEW r \in Routers, sending_mospf_lsu_thread(r)
    PROVE  MospfInv'
<1>1. DOMAIN nbr' = Routers /\ \A q \in Routers : nbr'[q] \in Neighbours(q)
    BY DEF sending_mospf_lsu_thread, MospfInv, MospfType, Neighbours
<1>2. nbr[r] \in Neighbours(r)
    BY DEF MospfInv, MospfType
<1>3. send_mospf_lsu(r, nbr[r]) /\ UNCHANGED <<up, cut, db, flood, life>>
    BY DEF sending_mospf_lsu_thread
<1> QED
    BY <1>1, <1>2, <1>3, SendKeeps

(* A database changes in one router only, and by one of the two operations. *)
LEMMA DbKeeps ==
    ASSUME MospfInv, NEW r \in Routers, NEW s \in Seq(Lsus), OneEach(r, s),
           db' = [db EXCEPT ![r] = s]
    PROVE  db' \in [Routers -> Seq(Lsus)] /\ OneEntryEach'
<1>1. db \in [Routers -> Seq(Lsus)] /\ \A q \in Routers : OneEach(q, db[q])
    BY DEF MospfInv, MospfType, OneEntryEach, OneEach
<1>2. db'[r] = s /\ \A q \in Routers : q # r => db'[q] = db[q]
    BY <1>1
<1>3. \A q \in Routers : OneEach(q, db'[q])
    BY <1>1, <1>2
<1>4. OneEntryEach'
    BY <1>3 DEF OneEntryEach, OneEach
<1> QED
    BY <1>1, <1>4

LEMMA ExpiryStep ==
    ASSUME MospfInv, NEW r \in Routers, NEW o \in Routers, checking_database_thread(r, o)
    PROVE  MospfInv'
<1>1. PICK i \in Indices(r, o) : db' = [db EXCEPT ![r] = RemoveAt(db[r], i)]
    BY DEF checking_database_thread
<1>2. db[r] \in Seq(Lsus) /\ OneEach(r, db[r]) /\ i \in DOMAIN db[r]
    BY <1>1 DEF MospfInv, MospfType, OneEntryEach, OneEach, Indices
<1>3. RemoveAt(db[r], i) \in Seq(Lsus) /\ OneEach(r, RemoveAt(db[r], i))
    BY <1>2, RemoveAtIs
<1>4. db' \in [Routers -> Seq(Lsus)] /\ OneEntryEach'
    BY <1>1, <1>3, DbKeeps
<1>5. fresh' \subseteq Routers /\ UNCHANGED <<up, cut, nbr, seq, flood, msgs, life, sent>>
    BY DEF checking_database_thread, MospfInv, MospfType
<1> QED
    BY <1>4, <1>5 DEF MospfInv, MospfType, OnceDown, Neighbours

LEMMA LsuStep ==
    ASSUME MospfInv, NEW m \in msgs, handle_mospf_lsu(m)
    PROVE  MospfInv'
<1> DEFINE r == m.to
<1>1. m \in Msgs
    BY DEF MospfInv, MospfType
<1>2. /\ r \in Routers /\ m.net \in Nets /\ m.lsu \in Lsus /\ m.lsu.rid \in Routers
    BY <1>1 DEF Msgs, Lsus
<1>3. msgs' \subseteq Msgs /\ UNCHANGED <<up, cut, nbr, seq, life, sent, fresh>>
    BY DEF handle_mospf_lsu, MospfInv, MospfType
<1>4. CASE Refused(r, m.lsu)
    <2>1. UNCHANGED <<db, flood>>
        BY <1>4 DEF handle_mospf_lsu
    <2> QED
        BY <1>3, <2>1 DEF MospfInv, MospfType, OnceDown, OneEntryEach, Neighbours
<1>5. CASE ~ Refused(r, m.lsu)
    <2>1. /\ db' = [db EXCEPT ![r] = Stored(r, m.lsu)]
          /\ flood' = [flood EXCEPT ![r] = [rid |-> m.lsu.rid, by |-> m.net, lsu |-> m.lsu]]
        BY <1>5 DEF handle_mospf_lsu
    <2>2. m.lsu.rid # r
        BY <1>5 DEF Refused
    <2>3. db[r] \in Seq(Lsus) /\ OneEach(r, db[r])
        BY <1>2 DEF MospfInv, MospfType, OneEntryEach, OneEach
    <2>4. Stored(r, m.lsu) \in Seq(Lsus) /\ OneEach(r, Stored(r, m.lsu))
        BY <1>2, <2>2, <2>3, StoredIs
    <2>5. db' \in [Routers -> Seq(Lsus)] /\ OneEntryEach'
        BY <1>2, <2>1, <2>4, DbKeeps
    <2>6. flood' \in [Routers -> Floods]
        <3>1. [rid |-> m.lsu.rid, by |-> m.net, lsu |-> m.lsu] \in Floods
            BY <1>2 DEF Floods
        <3> QED
            BY <2>1, <3>1 DEF MospfInv, MospfType
    <2> QED
        BY <1>3, <2>5, <2>6 DEF MospfInv, MospfType, OnceDown, Neighbours
<1> QED
    BY <1>4, <1>5

LEMMA PassStep ==
    ASSUME MospfInv, NEW r \in Routers, PassOn(r)
    PROVE  MospfInv'
<1> DEFINE others == [k \in NetsOf(r) \ {flood[r].by} |-> nbr[r][k]]
<1>1. /\ flood[r] # NoLsu /\ msgs' = msgs \cup Copies(others, flood[r].lsu)
      /\ flood' = [flood EXCEPT ![r] = NoLsu]
      /\ UNCHANGED <<up, cut, nbr, seq, db, life, sent, fresh>>
    BY DEF PassOn
<1>2. flood[r].lsu \in Lsus
    <2>1. flood[r] \in [rid : Routers, by : Nets, lsu : Lsus]
        BY <1>1 DEF MospfInv, MospfType, Floods
    <2> QED
        BY <2>1
<1>3. DOMAIN others \subseteq Nets /\ \A k \in DOMAIN others : others[k] \subseteq Routers
    BY DEF MospfInv, MospfType, Neighbours, NetsOf
<1> HIDE DEF others
<1>4. Copies(others, flood[r].lsu) \subseteq Msgs
    BY <1>2, <1>3, CopiesAre
<1>5. msgs' \subseteq Msgs /\ flood' \in [Routers -> Floods]
    BY <1>1, <1>4 DEF MospfInv, MospfType, Floods
<1> QED
    BY <1>1, <1>5 DEF MospfInv, MospfType, OnceDown, OneEntryEach, Neighbours

LEMMA CrashStep ==
    ASSUME MospfInv, NEW r \in Routers, Crash(r)
    PROVE  MospfInv'
<1>1. /\ life[r] = 0 /\ up' = [up EXCEPT ![r] = FALSE]
      /\ nbr' = [nbr EXCEPT ![r] = [k \in NetsOf(r) |-> {}]]
      /\ db' = [db EXCEPT ![r] = <<>>] /\ flood' = [flood EXCEPT ![r] = NoLsu]
      /\ msgs' \subseteq msgs /\ fresh' = {} /\ UNCHANGED <<cut, seq, life, sent>>
    BY DEF Crash
<1>2. db' \in [Routers -> Seq(Lsus)] /\ OneEntryEach'
    <2>1. <<>> \in Seq(Lsus) /\ DOMAIN <<>> = {}
        OBVIOUS
    <2>2. OneEach(r, <<>>)
        BY <2>1 DEF OneEach
    <2> QED
        BY <1>1, <2>1, <2>2, DbKeeps
<1>3. DOMAIN nbr' = Routers /\ \A s \in Routers : nbr'[s] \in Neighbours(s)
    <2>1. [k \in NetsOf(r) |-> {}] \in Neighbours(r)
        BY DEF Neighbours
    <2>2. DOMAIN nbr = Routers /\ \A s \in Routers : nbr[s] \in Neighbours(s)
        BY DEF MospfInv, MospfType
    <2>3. DOMAIN nbr' = Routers /\ nbr'[r] = [k \in NetsOf(r) |-> {}]
          /\ \A s \in Routers : s # r => nbr'[s] = nbr[s]
        BY <1>1, <2>2
    <2> QED
        BY <2>1, <2>2, <2>3
<1>4. flood' \in [Routers -> Floods] /\ up' \in [Routers -> BOOLEAN]
    BY <1>1 DEF MospfInv, MospfType, Floods
<1>5. msgs' \subseteq Msgs /\ fresh' \subseteq Routers
    BY <1>1 DEF MospfInv, MospfType
<1>6. OnceDown'
    BY <1>1 DEF MospfInv, MospfType, OnceDown
<1>7. MospfType'
    BY <1>1, <1>2, <1>3, <1>4, <1>5 DEF MospfInv, MospfType
<1> QED
    BY <1>2, <1>6, <1>7 DEF MospfInv

LEMMA RestartStep ==
    ASSUME MospfInv, NEW r \in Routers, mospf_init(r)
    PROVE  MospfInv'
<1>1. /\ ~ up[r] /\ up' = [up EXCEPT ![r] = TRUE] /\ seq' = [seq EXCEPT ![r] = 0]
      /\ life' = [life EXCEPT ![r] = @ + 1] /\ sent' = [sent EXCEPT ![r] = NoLsu]
      /\ fresh' = {} /\ UNCHANGED <<cut, nbr, db, flood, msgs>>
    BY DEF mospf_init
<1>2. life[r] = 0
    BY <1>1 DEF MospfInv, OnceDown
<1>3. /\ up' \in [Routers -> BOOLEAN] /\ life' \in [Routers -> {0, 1}]
      /\ seq' \in [Routers -> Nat] /\ sent' \in [Routers -> {NoLsu} \cup Lsus]
    BY <1>1, <1>2 DEF MospfInv, MospfType
<1>4. OnceDown'
    BY <1>1 DEF MospfInv, MospfType, OnceDown
<1> QED
    BY <1>1, <1>3, <1>4 DEF MospfInv, MospfType, OneEntryEach, Neighbours

LEMMA FaultsIs == MospfAssumption /\ cut.count \in Nat => Faults \in Nat /\ cut.count <= Faults
<1> DEFINE F == {r \in Routers : ~ up[r] \/ life[r] > 0}
<1> SUFFICES ASSUME MospfAssumption, cut.count \in Nat
             PROVE  Faults \in Nat /\ cut.count <= Faults
    OBVIOUS
<1>1. IsFiniteSet(F)
    BY FS_Subset DEF MospfAssumption
<1>2. Cardinality(F) \in Nat
    BY <1>1, FS_CardinalityType
<1> QED
    BY <1>2 DEF Faults

LEMMA NetStep ==
    ASSUME MospfAssumption, MospfInv, NEW k \in Nets, CutNet(k) \/ MendNet(k)
    PROVE  MospfInv'
<1> DEFINE Cuts == [now : SUBSET Nets, count : 0 .. MaxFaults]
<1>1. cut \in Cuts
    BY DEF MospfInv, MospfType
<1>2. cut' \in Cuts /\ msgs' \subseteq msgs /\ fresh' = {}
    <2>1. CASE CutNet(k)
        <3>1. cut.count \in Nat /\ cut.count < MaxFaults /\ cut.now \in SUBSET Nets
            BY <1>1, <2>1, FaultsIs DEF CutNet, MospfAssumption
        <3> QED
            BY <2>1, <3>1 DEF CutNet, MospfAssumption
    <2>2. CASE MendNet(k)
        <3>1. cut' = [cut EXCEPT !.now = @ \ {k}]
            BY <2>2 DEF MendNet
        <3>2. cut' \in Cuts
            BY <1>1, <3>1
        <3> QED
            BY <2>2, <3>2 DEF MendNet
    <2> QED
        BY <2>1, <2>2
<1>3. UNCHANGED <<up, nbr, seq, db, flood, life, sent>>
    BY DEF CutNet, MendNet
<1> QED
    BY <1>2, <1>3 DEF MospfInv, MospfType, OnceDown, OneEntryEach, Neighbours

-----------------------------------------------------------------------------
LEMMA NextStep == MospfAssumption /\ MospfInv /\ [Next]_vars => MospfInv'
<1> SUFFICES ASSUME MospfAssumption, MospfInv, [Next]_vars  PROVE MospfInv'
    OBVIOUS
<1>1. CASE \E m \in msgs : handle_mospf_lsu(m)
    BY <1>1, LsuStep
<1>2. CASE \E r, s \in Routers, k \in Nets :
               handle_mospf_hello(r, s, k) \/ checking_nbr_thread(r, s, k)
    BY <1>2, HelloStep
<1>3. CASE \E r, o \in Routers : checking_database_thread(r, o)
    BY <1>3, ExpiryStep
<1>4. CASE \E r \in Routers :
               PassOn(r) \/ sending_mospf_lsu_thread(r) \/ Crash(r) \/ mospf_init(r)
    BY <1>4, PassStep, PeriodicStep, CrashStep, RestartStep
<1>5. CASE \E k \in Nets : CutNet(k) \/ MendNet(k)
    BY <1>5, NetStep
<1>6. CASE UNCHANGED vars
    BY <1>6 DEF vars, MospfInv, MospfType, OnceDown, OneEntryEach, Neighbours
<1> QED
    BY <1>1, <1>2, <1>3, <1>4, <1>5, <1>6 DEF Next

(* The types of what the five threads of the routers keep and send. *)
LEMMA TypeIs == MospfInv => TypeOK
<1> SUFFICES ASSUME MospfInv  PROVE TypeOK
    OBVIOUS
<1>1. \A r \in Routers : \A i \in DOMAIN db[r] : db[r][i] \in Lsus
    BY DEF MospfInv, MospfType
<1>2. \A r \in Routers : flood[r] = NoLsu \/ flood[r].lsu \in Lsus
    BY DEF MospfInv, MospfType, Floods
<1>3. \A m \in msgs : m.to \in Routers /\ m.net \in Nets /\ m.lsu \in Lsus
    BY DEF MospfInv, MospfType, Msgs
<1>4. \A r \in Routers : sent[r] = NoLsu \/ sent[r] \in Lsus
    BY DEF MospfInv, MospfType
<1> QED
    BY <1>1, <1>2, <1>3, <1>4 DEF TypeOK, MospfInv, MospfType, Neighbours

-----------------------------------------------------------------------------
(* What becomes of a router's latest LSU while it is flooded *)

Held(r) == {db[r][i] : i \in DOMAIN db[r]}

(* An LSU is of an earlier life of its router, or older than its latest, or that one. *)
Genuine(l, lives, latest) ==
    \/ l.life < lives[l.rid]
    \/ /\ l.life = lives[l.rid] /\ latest[l.rid] # NoLsu
       /\ l = latest[l.rid] \/ l.seq < latest[l.rid].seq

LatestIs ==
    \A o \in Routers : sent[o] # NoLsu =>
        sent[o].rid = o /\ sent[o].life = life[o] /\ seq[o] = sent[o].seq + 1

AllGenuine ==
    /\ \A m \in msgs : Genuine(m.lsu, life, sent)
    /\ \A r \in Routers : flood[r] # NoLsu => Genuine(flood[r].lsu, life, sent)
    /\ \A r \in Routers : \A e \in Held(r) : Genuine(e, life, sent)

OnNets == \A r \in Routers : \A k \in NetsOf(r) : nbr[r][k] \subseteq Members[k]

(* Router n has the latest LSU of o; router r has no use for it. *)
Told(n, o) == n = o \/ sent[o] \in Held(n)

Served(r, o) == r = o \/ \E e \in Held(r) : e.rid = o /\ e.seq >= sent[o].seq

(* It goes from n to r by network k, or is about to. *)
OnItsWay(n, k, r, o) ==
    \/ [to |-> r, net |-> k, lsu |-> sent[o]] \in msgs
    \/ flood[n] # NoLsu /\ flood[n].lsu = sent[o] /\ flood[n].by # k

(* Who has it has sent it on to all its neighbours, or will, and an LSU has come from
   a router that has it itself. *)
Flooding(o) ==
    /\ sent[o] # NoLsu
    /\ \A n \in Routers : Told(n, o) => \A k \in NetsOf(n) \ cut.now : \A r \in nbr[n][k] :
           up[r] => Served(r, o) \/ OnItsWay(n, k, r, o)
    /\ \A m \in msgs : m.lsu = sent[o] =>
           m.to \in Members[m.net] /\ \A q \in Members[m.net] \ {m.to} : Served(q, o)
    /\ \A n \in Routers : flood[n] # NoLsu /\ flood[n].lsu = sent[o] => Served(n, o)

FloodInv == LatestIs /\ AllGenuine /\ OnNets /\ \A o \in fresh : Flooding(o)

LEMMA TwoAre ==
    ASSUME NEW S, IsFiniteSet(S), Cardinality(S) <= 2,
           NEW a \in S, NEW b \in S, NEW c \in S, a # b, c # b
    PROVE  a = c
<1> SUFFICES ASSUME a # c  PROVE FALSE
    OBVIOUS
<1>1. IsFiniteSet({a}) /\ Cardinality({a}) = 1
    BY FS_Singleton
<1>2. \A T, x : IsFiniteSet(T) /\ x \notin T =>
                  IsFiniteSet(T \cup {x}) /\ Cardinality(T \cup {x}) = Cardinality(T) + 1
    BY FS_AddElement
<1> DEFINE P == {a} \cup {b}
<1>3. IsFiniteSet(P) /\ Cardinality(P) = 2
  <2>1. b \notin {a}
    OBVIOUS
  <2>2. IsFiniteSet(P) /\ Cardinality(P) = Cardinality({a}) + 1
    BY <1>1, <1>2, <2>1
  <2> QED
    BY <1>1, <2>2
<1>4. Cardinality(P \cup {c}) = 3
  <2>1. c \notin P
    OBVIOUS
  <2> HIDE DEF P
  <2>2. Cardinality(P \cup {c}) = Cardinality(P) + 1
    BY <1>2, <1>3, <2>1
  <2> QED
    BY <1>3, <2>2
<1>5. P \cup {c} \subseteq S
    OBVIOUS
<1> HIDE DEF P
<1>6. Cardinality(P \cup {c}) <= Cardinality(S)
    BY <1>5, FS_Subset
<1>7. Cardinality(S) \in Nat
    BY FS_CardinalityType
<1> QED
    BY <1>4, <1>6, <1>7

(* Of a network with r and s on it, s is the only other. *)
LEMMA OtherIs ==
    ASSUME MospfAssumption, NEW k \in Nets, NEW r \in Members[k], NEW s \in Members[k], r # s
    PROVE  \A q \in Members[k] \ {r} : q = s
<1>1. Members[k] \subseteq Routers /\ IsFiniteSet(Routers) /\ Cardinality(Members[k]) <= 2
    BY DEF MospfAssumption
<1>2. IsFiniteSet(Members[k])
    BY <1>1, FS_Subset
<1> QED
    BY <1>1, <1>2, TwoAre

LEMMA HeldIs ==
    ASSUME MospfInv, NEW r \in Routers
    PROVE  Held(r) \subseteq Lsus
BY DEF MospfInv, MospfType, Held

(* What r has after it has stored an LSU. *)
LEMMA StoredHeld ==
    ASSUME MospfInv, NEW r \in Routers, NEW lsu \in Lsus,
           db' = [db EXCEPT ![r] = Stored(r, lsu)]
    PROVE  /\ Held(r)' = {lsu} \cup {e \in Held(r) : e.rid # lsu.rid}
           /\ \A q \in Routers : q # r => Held(q)' = Held(q)
<1>1. db \in [Routers -> Seq(Lsus)]
    BY DEF MospfInv, MospfType
<1>2. db'[r] = Stored(r, lsu) /\ \A q \in Routers : q # r => db'[q] = db[q]
    BY <1>1
<1>3. Held(r)' = {db'[r][i] : i \in DOMAIN db'[r]}
    BY DEF Held
<1>4. CASE Indices(r, lsu.rid) = {}
    <2> DEFINE t == Append(db[r], lsu)
    <2>1. /\ DOMAIN t = 1 .. Len(db[r]) + 1
          /\ DOMAIN db[r] = 1 .. Len(db[r]) /\ Len(db[r]) \in Nat
          /\ \A i \in 1 .. Len(db[r]) : t[i] = db[r][i]
          /\ t[Len(db[r]) + 1] = lsu
        BY <1>1
    <2>2. \A i \in 1 .. Len(db[r]) : db[r][i].rid # lsu.rid
        BY <1>4, <2>1 DEF Indices
    <2>3. db'[r] = t
        BY <1>2, <1>4 DEF Stored
    <2> HIDE DEF t
    <2>4. \A i \in DOMAIN t : i \in 1 .. Len(db[r]) \/ i = Len(db[r]) + 1
        BY <2>1
    <2>5. Len(db[r]) + 1 \in DOMAIN t /\ \A i \in 1 .. Len(db[r]) : i \in DOMAIN t
        BY <2>1
    <2> QED
        BY <1>2, <1>3, <2>1, <2>2, <2>3, <2>4, <2>5 DEF Held
<1>5. CASE Indices(r, lsu.rid) # {}
    <2> DEFINE t == [i \in DOMAIN db[r] |-> IF db[r][i].rid = lsu.rid THEN lsu ELSE db[r][i]]
    <2>1. db'[r] = t
        BY <1>2, <1>5 DEF Stored
    <2>2. PICK i \in DOMAIN db[r] : db[r][i].rid = lsu.rid
        BY <1>5 DEF Indices
    <2> QED
        BY <1>2, <1>3, <2>1, <2>2 DEF Held
<1> QED
    BY <1>4, <1>5

(* What r has after an entry of o is gone. *)
LEMMA ExpiredHeld ==
    ASSUME MospfInv, NEW r \in Routers, NEW o, NEW i \in Indices(r, o),
           db' = [db EXCEPT ![r] = RemoveAt(@, i)]
    PROVE  /\ Held(r)' \subseteq Held(r)
           /\ \A e \in Held(r) : e.rid # o => e \in Held(r)'
           /\ \A q \in Routers : q # r => Held(q)' = Held(q)
<1>1. db \in [Routers -> Seq(Lsus)]
    BY DEF MospfInv, MospfType
<1>2. db'[r] = RemoveAt(db[r], i) /\ \A q \in Routers : q # r => db'[q] = db[q]
    BY <1>1
<1>3. i \in DOMAIN db[r] /\ db[r][i].rid = o
    BY DEF Indices
<1> DEFINE s == db[r]  t == db'[r]
<1>4. /\ i \in 1 .. Len(s) /\ Len(s) \in Nat /\ DOMAIN s = 1 .. Len(s)
      /\ t \in Seq(Lsus) /\ Len(t) = Len(s) - 1
      /\ \A j \in 1 .. Len(s) - 1 : t[j] = s[IF j < i THEN j ELSE j + 1]
    BY <1>1, <1>2, <1>3, RemoveIs
<1>5. DOMAIN t = 1 .. Len(s) - 1
    BY <1>4
<1> HIDE DEF s, t
<1>6. \A j \in DOMAIN t : \E l \in DOMAIN s : t[j] = s[l]
    <2> SUFFICES ASSUME NEW j \in 1 .. Len(s) - 1  PROVE \E l \in DOMAIN s : t[j] = s[l]
        BY <1>5
    <2> DEFINE l == IF j < i THEN j ELSE j + 1
    <2>1. l \in DOMAIN s /\ t[j] = s[l]
        BY <1>4
    <2> QED
        BY <2>1
<1>7. \A l \in DOMAIN s : l # i => \E j \in DOMAIN t : t[j] = s[l]
    <2> SUFFICES ASSUME NEW l \in DOMAIN s, l # i  PROVE \E j \in DOMAIN t : t[j] = s[l]
        OBVIOUS
    <2> DEFINE j == IF l < i THEN l ELSE l - 1
    <2>1. j \in 1 .. Len(s) - 1 /\ l = IF j < i THEN j ELSE j + 1
        BY <1>4
    <2> QED
        BY <1>4, <1>5, <2>1
<1>8. Held(r)' = {t[j] : j \in DOMAIN t} /\ Held(r) = {s[l] : l \in DOMAIN s}
    BY DEF Held, s, t
<1> QED
    BY <1>2, <1>3, <1>6, <1>7, <1>8 DEF Held, s

(* Every LSU of r that anyone has is older than the next one that r sends. *)
LEMMA NextIsNew ==
    ASSUME MospfInv, LatestIs, NEW l \in Lsus, Genuine(l, life, sent), l.life = life[l.rid]
    PROVE  l.seq < seq[l.rid]
<1>1. l.rid \in Routers /\ l.seq \in Nat /\ life[l.rid] \in {0, 1}
    BY DEF MospfInv, MospfType, Lsus
<1>2. /\ sent[l.rid] # NoLsu /\ (l = sent[l.rid] \/ l.seq < sent[l.rid].seq)
    BY <1>1 DEF Genuine
<1>3. seq[l.rid] = sent[l.rid].seq + 1 /\ sent[l.rid].seq \in Nat
    BY <1>1, <1>2 DEF LatestIs, MospfInv, MospfType, Lsus
<1> QED
    BY <1>1, <1>2, <1>3

(* Router r sends an LSU to its neighbours nbrs, who have been its neighbours, or are
   from now on. *)
LEMMA SendFloods ==
    ASSUME MospfAssumption, MospfInv, FloodInv,
           NEW r \in Routers, NEW nbrs \in Neighbours(r),
           send_mospf_lsu(r, nbrs), UNCHANGED <<up, cut, db, flood, life>>,
           nbr'[r] = nbrs, nbr' = nbr \/ nbrs # nbr[r], OnNets'
    PROVE  FloodInv'
<1> DEFINE lsu == [rid |-> r, seq |-> seq[r], life |-> life[r], adv |-> AdvOf(r, nbrs)]
<1>1. lsu \in Lsus
    <2>1. seq[r] \in Nat /\ life[r] \in {0, 1}
        BY DEF MospfInv, MospfType
    <2> QED
        BY <2>1, AdvIs DEF Lsus, Advs
<1>2. /\ msgs' = msgs \cup Copies(nbrs, lsu) /\ seq' = [seq EXCEPT ![r] = @ + 1]
      /\ sent' = [sent EXCEPT ![r] = lsu]
      /\ fresh' = IF nbrs = nbr[r] THEN fresh \cup {r} ELSE {r}
    BY DEF send_mospf_lsu
<1>3. lsu.rid = r /\ lsu.seq = seq[r] /\ lsu.life = life[r]
    OBVIOUS
<1> HIDE DEF lsu
<1>4. /\ seq'[r] = seq[r] + 1 /\ sent'[r] = lsu
      /\ \A o \in Routers : o # r => seq'[o] = seq[o] /\ sent'[o] = sent[o]
    BY <1>2 DEF MospfInv, MospfType
<1>5. NoLsu \notin Lsus
    BY DEF NoLsu, Lsus, MospfAssumption
<1>6. LatestIs'
    BY <1>3, <1>4 DEF FloodInv, LatestIs
<1>7. ASSUME NEW l \in Lsus, Genuine(l, life, sent)
      PROVE  Genuine(l, life', sent') /\ l # lsu
    <2>1. l.rid \in Routers
        BY DEF Lsus
    <2>2. CASE l.rid # r
        BY <1>3, <1>4, <1>7, <2>1, <2>2 DEF Genuine
    <2>3. CASE l.rid = r /\ l.life < life[r]
        <3>1. l.life \in {0, 1} /\ life[r] \in {0, 1}
            BY DEF MospfInv, MospfType, Lsus
        <3> QED
            BY <1>3, <1>7, <2>3, <3>1 DEF Genuine
    <2>4. CASE l.rid = r /\ ~ (l.life < life[r])
        <3>1. l.life = life[l.rid]
            BY <1>7, <2>4 DEF Genuine
        <3>2. l.seq < seq[r]
            BY <1>7, <2>4, <3>1, NextIsNew DEF FloodInv
        <3>3. l.seq \in Nat /\ seq[r] \in Nat
            BY DEF MospfInv, MospfType, Lsus
        <3> QED
            BY <1>1, <1>3, <1>4, <1>5, <1>7, <2>4, <3>1, <3>2, <3>3 DEF Genuine
    <2> QED
        BY <2>2, <2>3, <2>4
<1>8. Genuine(lsu, life', sent')
    BY <1>1, <1>3, <1>4, <1>5 DEF Genuine
<1>9. ASSUME NEW m \in Copies(nbrs, lsu)
      PROVE  /\ m.lsu = lsu /\ m.net \in NetsOf(r) /\ m.to \in nbrs[m.net]
             /\ m.to \in Members[m.net] \ {r} /\ \A q \in Members[m.net] \ {m.to} : q = r
    <2>1. PICK k \in DOMAIN nbrs : \E s \in nbrs[k] : m = [to |-> s, net |-> k, lsu |-> lsu]
        BY DEF Copies
    <2>2. m.lsu = lsu /\ m.net = k /\ m.to \in nbrs[k] /\ DOMAIN nbrs = NetsOf(r)
        BY <2>1 DEF Neighbours
    <2>3. k \in Nets /\ r \in Members[k] /\ m.to \in Members[k] /\ m.to # r
        BY <2>2 DEF NetsOf, Neighbours, OnNets
    <2> QED
        BY <2>2, <2>3, OtherIs
<1>10. AllGenuine'
    <2>1. ASSUME NEW m \in msgs'  PROVE Genuine(m.lsu, life', sent')
        <3>1. CASE m \in msgs
            <4>1. m.lsu \in Lsus /\ Genuine(m.lsu, life, sent)
                BY <3>1 DEF MospfInv, MospfType, Msgs, FloodInv, AllGenuine
            <4> QED
                BY <1>7, <4>1
        <3>2. CASE m \in Copies(nbrs, lsu)
            BY <1>8, <1>9, <3>2
        <3> QED
            BY <1>2, <3>1, <3>2
    <2>2. ASSUME NEW q \in Routers, flood'[q] # NoLsu  PROVE Genuine(flood'[q].lsu, life', sent')
        <3>1. flood[q].lsu \in Lsus /\ Genuine(flood[q].lsu, life, sent)
            BY <2>2 DEF MospfInv, MospfType, Floods, FloodInv, AllGenuine
        <3> QED
            BY <1>7, <3>1
    <2>3. ASSUME NEW q \in Routers, NEW e \in Held(q)'  PROVE Genuine(e, life', sent')
        <3>1. e \in Held(q)
            BY DEF Held
        <3>2. e \in Lsus /\ Genuine(e, life, sent)
            BY <3>1, HeldIs DEF FloodInv, AllGenuine
        <3> QED
            BY <1>7, <3>2
    <2> QED
        BY <2>1, <2>2, <2>3 DEF AllGenuine
<1>11. \A q \in Routers : Held(q)' = Held(q) /\ lsu \notin Held(q)
    <2> SUFFICES ASSUME NEW q \in Routers  PROVE Held(q)' = Held(q) /\ lsu \notin Held(q)
        OBVIOUS
    <2>1. Held(q)' = Held(q)
        BY DEF Held
    <2>2. \A e \in Held(q) : e # lsu
        BY <1>7, HeldIs DEF FloodInv, AllGenuine
    <2> QED
        BY <2>1, <2>2
<1>12. Flooding(r)'
    <2>1. sent'[r] # NoLsu
        BY <1>1, <1>4, <1>5
    <2>2. ASSUME NEW n \in Routers, Told(n, r)', NEW k \in NetsOf(n) \ cut'.now,
                 NEW q \in nbr'[n][k], up'[q]
          PROVE  OnItsWay(n, k, q, r)'
        <3>1. n = r
            BY <1>4, <1>11, <2>2 DEF Told
        <3>2. k \in DOMAIN nbrs \ cut.now /\ q \in {s \in nbrs[k] : up[s]}
            BY <2>2, <3>1 DEF Neighbours
        <3>3. [to |-> q, net |-> k, lsu |-> lsu] \in Copies(nbrs, lsu)
            BY <3>2 DEF Copies
        <3> QED
            BY <1>2, <1>4, <3>3 DEF OnItsWay
    <2>3. ASSUME NEW m \in msgs', m.lsu = sent'[r]
          PROVE  m.to \in Members[m.net] /\ \A q \in Members[m.net] \ {m.to} : Served(q, r)'
        <3>1. m \notin msgs
            <4>1. ASSUME m \in msgs  PROVE m.lsu \in Lsus /\ Genuine(m.lsu, life, sent)
                BY <4>1 DEF MospfInv, MospfType, Msgs, FloodInv, AllGenuine
            <4> QED
                BY <1>4, <1>7, <2>3, <4>1
        <3>2. m \in Copies(nbrs, lsu)
            BY <1>2, <3>1
        <3> QED
            BY <1>9, <3>2 DEF Served
    <2>4. ASSUME NEW n \in Routers, flood'[n] # NoLsu, flood'[n].lsu = sent'[r]
          PROVE  FALSE
        <3>1. flood[n].lsu \in Lsus /\ Genuine(flood[n].lsu, life, sent)
            BY <2>4 DEF MospfInv, MospfType, Floods, FloodInv, AllGenuine
        <3> QED
            BY <1>4, <1>7, <2>4, <3>1
    <2> QED
        BY <2>1, <2>2, <2>3, <2>4 DEF Flooding
<1>13. ASSUME NEW o \in fresh', o # r
       PROVE  Flooding(o)'
    <2>1. o \in fresh /\ nbr' = nbr /\ o \in Routers /\ sent'[o] = sent[o]
        BY <1>2, <1>4, <1>13 DEF MospfInv, MospfType
    <2>2. Flooding(o)
        BY <2>1 DEF FloodInv
    <2>3. sent[o].rid = o
        BY <2>1, <2>2 DEF Flooding, FloodInv, LatestIs
    <2>4. \A q \in Routers : (Served(q, o)' <=> Served(q, o)) /\ (Told(q, o)' <=> Told(q, o))
        BY <1>11, <2>1 DEF Served, Told
    <2>5. ASSUME NEW n \in Routers, Told(n, o)', NEW k \in NetsOf(n) \ cut'.now,
                 NEW q \in nbr'[n][k], up'[q]
          PROVE  Served(q, o)' \/ OnItsWay(n, k, q, o)'
        <3>1. Served(q, o) \/ OnItsWay(n, k, q, o)
            BY <2>1, <2>2, <2>4, <2>5 DEF Flooding
        <3>2. q \in Routers
            BY <2>1, <2>5 DEF MospfInv, MospfType, Neighbours
        <3> QED
            BY <1>2, <2>1, <2>4, <3>1, <3>2 DEF OnItsWay
    <2>6. ASSUME NEW m \in msgs', m.lsu = sent'[o]
          PROVE  m.to \in Members[m.net] /\ \A q \in Members[m.net] \ {m.to} : Served(q, o)'
        <3>1. m \in msgs
            BY <1>2, <1>3, <1>9, <1>13, <2>1, <2>3, <2>6
        <3>2. m.net \in Nets /\ Members[m.net] \subseteq Routers
            BY <3>1 DEF MospfInv, MospfType, Msgs, MospfAssumption
        <3> QED
            BY <2>1, <2>2, <2>4, <2>6, <3>1, <3>2 DEF Flooding
    <2>7. ASSUME NEW n \in Routers, flood'[n] # NoLsu, flood'[n].lsu = sent'[o]
          PROVE  Served(n, o)'
        BY <2>1, <2>2, <2>4, <2>7 DEF Flooding
    <2> QED
        BY <2>1, <2>2, <2>5, <2>6, <2>7 DEF Flooding
<1> QED
    BY <1>6, <1>10, <1>12, <1>13 DEF FloodInv

LEMMA HelloFloods ==
    ASSUME MospfAssumption, MospfInv, FloodInv,
           NEW r \in Routers, NEW s \in Routers, NEW k \in Nets,
           handle_mospf_hello(r, s, k) \/ checking_nbr_thread(r, s, k)
    PROVE  FloodInv'
<1>1. k \in NetsOf(r) /\ nbr[r] \in Neighbours(r) /\ DOMAIN nbr = Routers
      /\ nbr[r][k] \subseteq Members[k] /\ nbr[r][k] \in SUBSET (Routers \ {r})
    <2>1. k \in NetsOf(r)
        BY DEF handle_mospf_hello, checking_nbr_thread, NetsOf
    <2> QED
        BY <2>1 DEF MospfInv, MospfType, Neighbours, FloodInv, OnNets
<1>2. PICK now \in SUBSET (Routers \ {r}) :
          now # nbr[r][k] /\ now \subseteq Members[k] /\ nbr' = [nbr EXCEPT ![r][k] = now]
    <2>1. CASE handle_mospf_hello(r, s, k)
        <3> DEFINE now == nbr[r][k] \cup {s}
        <3>1. now \in SUBSET (Routers \ {r}) /\ now # nbr[r][k] /\ now \subseteq Members[k]
            BY <1>1, <2>1 DEF handle_mospf_hello
        <3>2. nbr' = [nbr EXCEPT ![r][k] = now]
            BY <2>1 DEF handle_mospf_hello
        <3> QED
            BY <3>1, <3>2
    <2>2. CASE checking_nbr_thread(r, s, k)
        <3> DEFINE now == nbr[r][k] \ {s}
        <3>1. now \in SUBSET (Routers \ {r}) /\ now # nbr[r][k] /\ now \subseteq Members[k]
            BY <1>1, <2>2 DEF checking_nbr_thread
        <3>2. nbr' = [nbr EXCEPT ![r][k] = now]
            BY <2>2 DEF checking_nbr_thread
        <3> QED
            BY <3>1, <3>2
    <2> QED
        BY <2>1, <2>2
<1>3. DOMAIN nbr' = Routers /\ \A q \in Routers : nbr'[q] \in Neighbours(q)
    BY <1>1, <1>2, NbrIs DEF MospfInv
<1>4. /\ nbr'[r] = [nbr[r] EXCEPT ![k] = now]
      /\ \A q \in Routers : q # r => nbr'[q] = nbr[q]
    BY <1>1, <1>2
<1>5. nbr'[r][k] = now /\ \A j \in NetsOf(r) : j # k => nbr'[r][j] = nbr[r][j]
    BY <1>1, <1>4 DEF Neighbours
<1>6. OnNets'
    <2>1. \A j \in NetsOf(r) : nbr'[r][j] \subseteq Members[j]
        BY <1>2, <1>5 DEF FloodInv, OnNets
    <2>2. \A q \in Routers : q # r => \A j \in NetsOf(q) : nbr'[q][j] \subseteq Members[j]
        BY <1>4 DEF FloodInv, OnNets
    <2> QED
        BY <2>1, <2>2 DEF OnNets
<1>7. send_mospf_lsu(r, nbr'[r]) /\ UNCHANGED <<up, cut, db, flood, life>>
    BY DEF handle_mospf_hello, checking_nbr_thread
<1>8. nbr'[r] # nbr[r]
    BY <1>2, <1>5
<1> QED
    BY <1>3, <1>6, <1>7, <1>8, SendFloods

LEMMA PeriodicFloods ==
    ASSUME MospfAssumption, MospfInv, FloodInv,
           NEW r \in Routers, sending_mospf_lsu_thread(r)
    PROVE  FloodInv'
<1>1. nbr[r] \in Neighbours(r)
    BY DEF MospfInv, MospfType
<1>2. send_mospf_lsu(r, nbr[r]) /\ UNCHANGED <<up, cut, db, flood, life>> /\ nbr' = nbr
    BY DEF sending_mospf_lsu_thread
<1>3. OnNets'
    BY <1>2 DEF FloodInv, OnNets
<1> QED
    BY <1>1, <1>2, <1>3, SendFloods

(* As long as databases and messages change so that what was told stays told, and what
   is new is told by one who has it, the latest LSU of o goes on to all. *)
LEMMA StillFlooding ==
    ASSUME MospfAssumption, MospfInv, OnNets, NEW o \in Routers, Flooding(o),
           UNCHANGED <<up, cut, nbr, sent>>,
           \A q \in Routers : Served(q, o) => Served(q, o)',
           \A n \in Routers : Told(n, o)' => Told(n, o),
           \A n \in Routers : \A k \in NetsOf(n) \ cut.now : \A q \in nbr[n][k] :
               OnItsWay(n, k, q, o) /\ up[q] => OnItsWay(n, k, q, o)' \/ Served(q, o)',
           \A m \in msgs' : m.lsu = sent[o] =>
               m \in msgs \/ /\ m.net \in Nets /\ m.to \in Members[m.net]
                             /\ \A q \in Members[m.net] \ {m.to} : Served(q, o)',
           \A n \in Routers : flood'[n] # NoLsu /\ flood'[n].lsu = sent[o] => flood'[n] = flood[n]
    PROVE  Flooding(o)'
<1>1. ASSUME NEW n \in Routers, Told(n, o)', NEW k \in NetsOf(n) \ cut'.now,
             NEW q \in nbr'[n][k], up'[q]
      PROVE  Served(q, o)' \/ OnItsWay(n, k, q, o)'
    <2>1. Told(n, o) /\ k \in NetsOf(n) \ cut.now /\ q \in nbr[n][k] /\ up[q]
        BY <1>1 DEF NetsOf
    <2>2. q \in Routers
        BY <2>1 DEF MospfInv, MospfType, Neighbours
    <2>3. Served(q, o) \/ OnItsWay(n, k, q, o)
        BY <2>1 DEF Flooding
    <2> QED
        BY <2>1, <2>2, <2>3
<1>2. ASSUME NEW m \in msgs', m.lsu = sent'[o]
      PROVE  m.to \in Members[m.net] /\ \A q \in Members[m.net] \ {m.to} : Served(q, o)'
    <2>1. CASE m \in msgs
        <3>1. m.net \in Nets /\ Members[m.net] \subseteq Routers
            BY <2>1 DEF MospfInv, MospfType, Msgs, MospfAssumption
        <3> QED
            BY <1>2, <2>1, <3>1 DEF Flooding
    <2>2. CASE m \notin msgs
        BY <1>2, <2>2
    <2> QED
        BY <2>1, <2>2
<1>3. ASSUME NEW n \in Routers, flood'[n] # NoLsu, flood'[n].lsu = sent'[o]
      PROVE  Served(n, o)'
    <2>1. flood[n] # NoLsu /\ flood[n].lsu = sent[o]
        BY <1>3
    <2> QED
        BY <2>1 DEF Flooding
<1> QED
    BY <1>1, <1>2, <1>3 DEF Flooding

(* Of what anyone had, or has got from the network, nothing is changed. *)
LEMMA StillGenuine ==
    ASSUME AllGenuine, UNCHANGED <<life, sent>>,
           \A m \in msgs' : Genuine(m.lsu, life, sent),
           \A r \in Routers : flood'[r] # NoLsu => Genuine(flood'[r].lsu, life, sent),
           \A r \in Routers : \A e \in Held(r)' : Genuine(e, life, sent)
    PROVE  AllGenuine'
BY DEF AllGenuine

(* An entry of this life that expires is older than its router's latest LSU. *)
LEMMA ExpiredOlder ==
    ASSUME MospfInv, FloodInv, NEW r \in Routers, NEW o \in fresh, NEW i \in Indices(r, o),
           ~ (up[o] /\ IsLatest(db[r][i], o)),
           o \in IF up[o] /\ db[r][i].life = life[o] THEN fresh ELSE fresh \ {o}
    PROVE  ~ Served(r, o) \/ r = o
<1> DEFINE e == db[r][i]
<1>1. e.rid = o /\ e \in Held(r) /\ i \in DOMAIN db[r] /\ o \in Routers
    BY DEF Indices, Held, MospfInv, MospfType
<1>2. up[o] /\ e.life = life[o] /\ ~ IsLatest(e, o)
    OBVIOUS
<1>3. Genuine(e, life, sent)
    BY <1>1 DEF FloodInv, AllGenuine
<1>4. e \in Lsus /\ sent[o] \in Lsus \cup {NoLsu} /\ life[o] \in {0, 1}
    BY <1>1 DEF MospfInv, MospfType
<1>5. ~ e.life < life[e.rid]
    BY <1>1, <1>2, <1>4
<1>6. e # sent[o]
    BY <1>2 DEF IsLatest
<1>7. e.seq < sent[o].seq /\ sent[o] \in Lsus
    BY <1>1, <1>3, <1>4, <1>5, <1>6 DEF Genuine
<1>8. \A d \in Held(r) : d.rid = o => d = e
    BY <1>1 DEF MospfInv, OneEntryEach, Held
<1>9. e.seq \in Nat /\ sent[o].seq \in Nat
    BY <1>4, <1>7 DEF Lsus
<1> QED
    BY <1>7, <1>8, <1>9 DEF Served

LEMMA ExpiryFloods ==
    ASSUME MospfAssumption, MospfInv, FloodInv,
           NEW r \in Routers, NEW o \in Routers, checking_database_thread(r, o)
    PROVE  FloodInv'
<1>1. PICK i \in Indices(r, o) :
          /\ ~ (up[o] /\ IsLatest(db[r][i], o))
          /\ db' = [db EXCEPT ![r] = RemoveAt(@, i)]
          /\ fresh' = IF up[o] /\ db[r][i].life = life[o] THEN fresh ELSE fresh \ {o}
    BY DEF checking_database_thread
<1>2. /\ \A q \in Routers : Held(q)' \subseteq Held(q)
      /\ \A q \in Routers : \A e \in Held(q) : e.rid # o => e \in Held(q)'
    BY <1>1, ExpiredHeld
<1>3. fresh' \subseteq fresh /\ UNCHANGED <<up, cut, nbr, seq, flood, msgs, life, sent>>
    BY <1>1 DEF checking_database_thread
<1>4. AllGenuine'
    BY <1>2, <1>3, StillGenuine DEF FloodInv, AllGenuine
<1>5. LatestIs' /\ OnNets'
    BY <1>3 DEF FloodInv, LatestIs, OnNets
<1>6. ASSUME NEW p \in fresh'  PROVE Flooding(p)'
    <2>1. p \in fresh /\ p \in Routers
        BY <1>3 DEF MospfInv, MospfType
    <2>2. Flooding(p)
        BY <2>1 DEF FloodInv
    <2>3. sent[p] # NoLsu /\ sent[p].rid = p
        BY <2>1, <2>2 DEF Flooding, FloodInv, LatestIs
    <2>4. \A q \in Routers : Served(q, p) => Served(q, p)'
        <3>1. CASE p # o
            BY <1>2, <1>3, <3>1 DEF Served
        <3>2. CASE p = o
            <4>1. ~ Served(r, o) \/ r = o
                BY <1>1, <1>3, <2>1, <2>2, <3>2, ExpiredOlder
            <4>2. \A q \in Routers : q # r => Held(q)' = Held(q)
                BY <1>1, ExpiredHeld
            <4> QED
                BY <1>3, <3>2, <4>1, <4>2 DEF Served
        <3> QED
            BY <3>1, <3>2
    <2>5. \A n \in Routers : Told(n, p)' => Told(n, p)
        BY <1>2, <1>3 DEF Told
    <2>6. \A n \in Routers : \A k \in NetsOf(n) \ cut.now : \A q \in nbr[n][k] :
              OnItsWay(n, k, q, p) => OnItsWay(n, k, q, p)'
        BY <1>3 DEF OnItsWay
    <2> QED
        BY <1>3, <2>1, <2>2, <2>4, <2>5, <2>6, StillFlooding DEF FloodInv
<1> QED
    BY <1>4, <1>5, <1>6 DEF FloodInv

LEMMA NotRefused ==
    ASSUME MospfInv, NEW r \in Routers, NEW l \in Lsus, ~ Refused(r, l)
    PROVE  l.rid # r /\ \A e \in Held(r) : e.rid = l.rid => e.seq < l.seq
<1>1. \A i \in DOMAIN db[r] : db[r][i] \in Lsus
    BY DEF MospfInv, MospfType
<1>2. \A i \in DOMAIN db[r] : db[r][i].rid = l.rid => ~ (db[r][i].seq >= l.seq)
    BY DEF Refused, Indices
<1>3. \A e \in Lsus : ~ (e.seq >= l.seq) => e.seq < l.seq
    BY DEF Lsus
<1> QED
    BY <1>1, <1>2, <1>3 DEF Held, Refused

LEMMA LsuFloods ==
    ASSUME MospfAssumption, MospfInv, FloodInv, NEW m \in msgs, handle_mospf_lsu(m)
    PROVE  FloodInv'
<1> DEFINE r == m.to
           now == [rid |-> m.lsu.rid, by |-> m.net, lsu |-> m.lsu]
<1>1. /\ r \in Routers /\ m.net \in Nets /\ m.lsu \in Lsus /\ m.lsu.rid \in Routers
      /\ Genuine(m.lsu, life, sent) /\ m = [to |-> r, net |-> m.net, lsu |-> m.lsu]
    BY DEF MospfInv, MospfType, Msgs, Lsus, FloodInv, AllGenuine
<1>2. /\ flood[r] = NoLsu /\ msgs' = msgs \ {m}
      /\ UNCHANGED <<up, cut, nbr, seq, life, sent, fresh>>
    BY DEF handle_mospf_lsu
<1>3. LatestIs' /\ OnNets'
    BY <1>2 DEF FloodInv, LatestIs, OnNets
<1>4. ASSUME NEW o \in fresh  PROVE o \in Routers /\ Flooding(o) /\ sent[o].rid = o
    BY DEF MospfInv, MospfType, FloodInv, Flooding, LatestIs
<1>5. CASE Refused(r, m.lsu)
    <2>1. UNCHANGED <<db, flood>>
        BY <1>5 DEF handle_mospf_lsu
    <2>2. \A q \in Routers : Held(q)' = Held(q)
        BY <2>1 DEF Held
    <2>3. AllGenuine'
        BY <1>2, <2>1, <2>2, StillGenuine DEF FloodInv, AllGenuine
    <2>4. ASSUME NEW o \in fresh  PROVE Flooding(o)'
        <3>1. \A q \in Routers : (Served(q, o)' <=> Served(q, o)) /\ (Told(q, o)' <=> Told(q, o))
            BY <1>2, <2>2 DEF Served, Told
        <3>2. ASSUME m.lsu = sent[o]  PROVE Served(r, o)'
            <4>1. m.lsu.rid = o
                BY <1>4, <3>2
            <4>2. CASE r = o
                BY <4>2 DEF Served
            <4>3. CASE r # o
                <5>1. PICK i \in DOMAIN db[r] : db[r][i].rid = o /\ db[r][i].seq >= m.lsu.seq
                    BY <1>5, <4>1, <4>3 DEF Refused, Indices
                <5>2. db[r][i] \in Held(r)'
                    BY <1>1, <2>2 DEF Held
                <5> QED
                    BY <1>2, <3>2, <5>1, <5>2 DEF Served
            <4> QED
                BY <4>2, <4>3
        <3>3. ASSUME NEW n \in Routers, NEW k \in NetsOf(n) \ cut.now, NEW q \in nbr[n][k],
                     OnItsWay(n, k, q, o)
              PROVE  OnItsWay(n, k, q, o)' \/ Served(q, o)'
            <4>1. CASE m = [to |-> q, net |-> k, lsu |-> sent[o]]
                BY <3>2, <4>1
            <4>2. CASE m # [to |-> q, net |-> k, lsu |-> sent[o]]
                BY <1>2, <2>1, <3>3, <4>2 DEF OnItsWay
            <4> QED
                BY <4>1, <4>2
        <3> QED
            BY <1>2, <1>4, <2>1, <3>1, <3>3, StillFlooding DEF FloodInv
    <2> QED
        BY <1>2, <1>3, <2>3, <2>4 DEF FloodInv
<1>6. CASE ~ Refused(r, m.lsu)
    <2>1. /\ db' = [db EXCEPT ![r] = Stored(r, m.lsu)]
          /\ flood' = [flood EXCEPT ![r] = now]
        BY <1>6 DEF handle_mospf_lsu
    <2>2. /\ Held(r)' = {m.lsu} \cup {e \in Held(r) : e.rid # m.lsu.rid}
          /\ \A q \in Routers : q # r => Held(q)' = Held(q)
        BY <1>1, <2>1, StoredHeld
    <2>3. flood'[r] = now /\ \A q \in Routers : q # r => flood'[q] = flood[q]
        BY <1>1, <2>1 DEF MospfInv, MospfType
    <2>4. now.lsu = m.lsu /\ now.by = m.net
        OBVIOUS
    <2> HIDE DEF now
    <2>5. AllGenuine'
        <3>1. \A q \in Routers : flood'[q] # NoLsu => Genuine(flood'[q].lsu, life, sent)
            BY <1>1, <2>3, <2>4 DEF FloodInv, AllGenuine
        <3>2. \A q \in Routers : \A e \in Held(q)' : Genuine(e, life, sent)
            BY <1>1, <2>2 DEF FloodInv, AllGenuine
        <3> QED
            BY <1>2, <3>1, <3>2, StillGenuine DEF FloodInv, AllGenuine
    <2>6. ASSUME NEW o \in fresh, NEW q \in Routers, Served(q, o)  PROVE Served(q, o)'
        <3>1. CASE q = r /\ m.lsu.rid = o /\ r # o
            <4>1. PICK e \in Held(r) : e.rid = o /\ e.seq >= sent[o].seq
                BY <2>6, <3>1 DEF Served
            <4>2. e.seq < m.lsu.seq
                BY <1>1, <1>6, <3>1, <4>1, NotRefused
            <4>3. e.seq \in Nat /\ m.lsu.seq \in Nat /\ sent[o].seq \in Nat
                <5>1. e \in Lsus
                    BY <1>1, HeldIs
                <5>2. sent[o] \in {NoLsu} \cup Lsus
                    BY <1>4 DEF MospfInv, MospfType
                <5>3. sent[o] # NoLsu
                    BY <1>4 DEF Flooding
                <5> QED
                    BY <1>1, <5>1, <5>2, <5>3 DEF Lsus
            <4>4. m.lsu.seq >= sent[o].seq
                BY <4>1, <4>2, <4>3
            <4> QED
                BY <1>2, <2>2, <3>1, <4>4 DEF Served
        <3>2. CASE ~ (q = r /\ m.lsu.rid = o /\ r # o)
            BY <1>2, <2>2, <2>6, <3>2 DEF Served
        <3> QED
            BY <3>1, <3>2
    <2>7. ASSUME NEW o \in fresh, m.lsu # sent[o]  PROVE Flooding(o)'
        <3>1. \A n \in Routers : Told(n, o)' => Told(n, o)
            BY <1>2, <2>2, <2>7 DEF Told
        <3>2. \A n \in Routers : \A k \in NetsOf(n) \ cut.now : \A q \in nbr[n][k] :
                  OnItsWay(n, k, q, o) => OnItsWay(n, k, q, o)'
            BY <1>2, <2>3, <2>7 DEF OnItsWay
        <3>3. \A n \in Routers : flood'[n] # NoLsu /\ flood'[n].lsu = sent[o] => flood'[n] = flood[n]
            BY <2>3, <2>4, <2>7
        <3> QED
            BY <1>2, <1>4, <2>6, <3>1, <3>2, <3>3, StillFlooding DEF FloodInv
    <2>8. ASSUME NEW o \in fresh, m.lsu = sent[o]  PROVE Flooding(o)'
        <3>1. Served(r, o)'
            BY <1>1, <1>2, <1>4, <2>2, <2>8 DEF Served, Lsus
        <3>2. ASSUME NEW n \in Routers, Told(n, o)', NEW k \in NetsOf(n) \ cut'.now,
                     NEW q \in nbr'[n][k], up'[q]
              PROVE  Served(q, o)' \/ OnItsWay(n, k, q, o)'
            <4>1. k \in NetsOf(n) \ cut.now /\ k \in Nets /\ q \in nbr[n][k] /\ up[q] /\ q \in Routers
                BY <1>2, <3>2 DEF NetsOf, MospfInv, MospfType, Neighbours
            <4>2. CASE n = r /\ k # m.net
                BY <1>1, <1>2, <2>3, <2>4, <2>8, <4>2 DEF OnItsWay, NoLsu, now
            <4>3. CASE n = r /\ k = m.net
                <5>1. q \in Members[k] \ {r}
                    BY <4>1, <4>3 DEF FloodInv, OnNets, MospfInv, MospfType, Neighbours
                <5>2. Served(q, o)
                    BY <1>4, <2>8, <4>3, <5>1 DEF Flooding
                <5> QED
                    BY <2>6, <4>1, <5>2
            <4>4. CASE n # r
                <5>1. Told(n, o)
                    BY <1>2, <2>2, <3>2, <4>4 DEF Told
                <5>2. Served(q, o) \/ OnItsWay(n, k, q, o)
                    BY <1>4, <4>1, <5>1 DEF Flooding
                <5>3. CASE Served(q, o)
                    BY <2>6, <4>1, <5>3
                <5>4. CASE OnItsWay(n, k, q, o) /\ m # [to |-> q, net |-> k, lsu |-> sent[o]]
                    BY <1>2, <2>3, <4>4, <5>4 DEF OnItsWay
                <5>5. CASE m = [to |-> q, net |-> k, lsu |-> sent[o]]
                    BY <3>1, <5>5
                <5> QED
                    BY <5>2, <5>3, <5>4, <5>5
            <4> QED
                BY <4>2, <4>3, <4>4
        <3>3. ASSUME NEW l \in msgs', l.lsu = sent'[o]
              PROVE  l.to \in Members[l.net] /\ \A q \in Members[l.net] \ {l.to} : Served(q, o)'
            <4>1. l \in msgs /\ l.net \in Nets /\ Members[l.net] \subseteq Routers
                BY <1>2 DEF MospfInv, MospfType, Msgs, MospfAssumption
            <4> QED
                BY <1>2, <1>4, <2>6, <3>3, <4>1 DEF Flooding
        <3>4. ASSUME NEW n \in Routers, flood'[n] # NoLsu, flood'[n].lsu = sent'[o]
              PROVE  Served(n, o)'
            BY <1>2, <1>4, <2>3, <2>6, <3>1, <3>4 DEF Flooding
        <3> QED
            BY <1>2, <1>4, <3>2, <3>3, <3>4 DEF Flooding
    <2> QED
        BY <1>2, <1>3, <2>5, <2>7, <2>8 DEF FloodInv
<1> QED
    BY <1>5, <1>6

LEMMA PassFloods ==
    ASSUME MospfAssumption, MospfInv, FloodInv, NEW r \in Routers, PassOn(r)
    PROVE  FloodInv'
<1> DEFINE others == [k \in NetsOf(r) \ {flood[r].by} |-> nbr[r][k]]
           l == flood[r].lsu
<1>1. /\ flood[r] # NoLsu /\ msgs' = msgs \cup Copies(others, l)
      /\ flood' = [flood EXCEPT ![r] = NoLsu]
      /\ UNCHANGED <<up, cut, nbr, seq, db, life, sent, fresh>>
    BY DEF PassOn
<1>2. flood'[r] = NoLsu /\ \A q \in Routers : q # r => flood'[q] = flood[q]
    BY <1>1 DEF MospfInv, MospfType
<1>3. \A q \in Routers : Held(q)' = Held(q)
    BY <1>1 DEF Held
<1>4. LatestIs' /\ OnNets'
    BY <1>1 DEF FloodInv, LatestIs, OnNets
<1>5. ASSUME NEW m \in Copies(others, l)
      PROVE  /\ m.lsu = l /\ m.net \in Nets /\ m.to \in Members[m.net]
             /\ \A q \in Members[m.net] \ {m.to} : q = r
    <2>1. PICK k \in DOMAIN others : \E s \in others[k] : m = [to |-> s, net |-> k, lsu |-> l]
        BY DEF Copies
    <2>2. k \in NetsOf(r) /\ m.lsu = l /\ m.net = k /\ m.to \in nbr[r][k]
        BY <2>1
    <2>3. nbr[r] \in [NetsOf(r) -> SUBSET (Routers \ {r})]
        BY DEF MospfInv, MospfType, Neighbours
    <2>4. m.to # r
        BY <2>2, <2>3
    <2>5. m.to \in Members[k]
        BY <2>2 DEF FloodInv, OnNets
    <2>6. k \in Nets /\ r \in Members[k]
        BY <2>2 DEF NetsOf
    <2> QED
        BY <2>2, <2>4, <2>5, <2>6, OtherIs
<1>6. AllGenuine'
    <2>1. Genuine(l, life, sent)
        BY <1>1 DEF FloodInv, AllGenuine
    <2>2. \A m \in msgs' : Genuine(m.lsu, life, sent)
        BY <1>1, <1>5, <2>1 DEF FloodInv, AllGenuine
    <2>3. \A q \in Routers : flood'[q] # NoLsu => Genuine(flood'[q].lsu, life, sent)
        BY <1>2 DEF FloodInv, AllGenuine
    <2> QED
        BY <1>1, <1>3, <2>2, <2>3, StillGenuine DEF FloodInv, AllGenuine
<1>7. ASSUME NEW o \in fresh  PROVE Flooding(o)'
    <2>1. o \in Routers /\ Flooding(o)
        BY DEF MospfInv, MospfType, FloodInv
    <2>2. \A q \in Routers : (Served(q, o)' <=> Served(q, o)) /\ (Told(q, o)' <=> Told(q, o))
        BY <1>1, <1>3 DEF Served, Told
    <2>3. ASSUME NEW n \in Routers, NEW k \in NetsOf(n) \ cut.now, NEW q \in nbr[n][k],
                 OnItsWay(n, k, q, o), up[q]
          PROVE  OnItsWay(n, k, q, o)'
        <3>1. CASE n = r /\ l = sent[o] /\ flood[r].by # k
            <4>1. k \in DOMAIN others \ cut.now /\ q \in {s \in others[k] : up[s]}
                BY <2>3, <3>1
            <4>2. [to |-> q, net |-> k, lsu |-> l] \in Copies(others, l)
                BY <4>1 DEF Copies
            <4> QED
                BY <1>1, <3>1, <4>2 DEF OnItsWay
        <3>2. CASE ~ (n = r /\ l = sent[o] /\ flood[r].by # k)
            BY <1>1, <1>2, <2>3, <3>2 DEF OnItsWay
        <3> QED
            BY <3>1, <3>2
    <2>4. ASSUME NEW m \in msgs', m.lsu = sent[o], m \notin msgs
          PROVE  /\ m.net \in Nets /\ m.to \in Members[m.net]
                 /\ \A q \in Members[m.net] \ {m.to} : Served(q, o)'
        <3>1. m \in Copies(others, l)
            BY <1>1, <2>4
        <3>2. l = sent[o]
            BY <1>5, <2>4, <3>1
        <3>3. Served(r, o)'
            BY <1>1, <2>1, <2>2, <3>2 DEF Flooding
        <3> QED
            BY <1>5, <3>1, <3>3
    <2>5. \A n \in Routers : flood'[n] # NoLsu => flood'[n] = flood[n]
        BY <1>2
    <2> QED
        BY <1>1, <2>1, <2>2, <2>3, <2>4, <2>5, StillFlooding DEF FloodInv
<1> QED
    BY <1>1, <1>4, <1>6, <1>7 DEF FloodInv

(* A router that starts again, or crashes, and a network that is cut or mended leave
   nobody of whom is told that he has told all. *)
LEMMA FaultFloods ==
    ASSUME MospfAssumption, MospfInv, FloodInv,
           \/ \E r \in Routers : Crash(r)
           \/ \E k \in Nets : CutNet(k) \/ MendNet(k)
    PROVE  FloodInv'
<1>1. fresh' = {} /\ msgs' \subseteq msgs /\ UNCHANGED <<seq, life, sent>>
    BY DEF Crash, CutNet, MendNet
<1>2. /\ \A q \in Routers : \A k \in NetsOf(q) : nbr'[q][k] \subseteq nbr[q][k]
      /\ \A q \in Routers : flood'[q] # NoLsu => flood'[q] = flood[q]
      /\ \A q \in Routers : Held(q)' \subseteq Held(q)
    <2>1. CASE \E k \in Nets : CutNet(k) \/ MendNet(k)
        BY <2>1 DEF CutNet, MendNet, Held
    <2>2. ASSUME NEW r \in Routers, Crash(r)
          PROVE  /\ \A q \in Routers : \A k \in NetsOf(q) : nbr'[q][k] \subseteq nbr[q][k]
                 /\ \A q \in Routers : flood'[q] # NoLsu => flood'[q] = flood[q]
                 /\ \A q \in Routers : Held(q)' \subseteq Held(q)
        <3>1. /\ nbr' = [nbr EXCEPT ![r] = [k \in NetsOf(r) |-> {}]]
              /\ db' = [db EXCEPT ![r] = <<>>] /\ flood' = [flood EXCEPT ![r] = NoLsu]
            BY <2>2 DEF Crash
        <3>2. /\ nbr'[r] = [k \in NetsOf(r) |-> {}] /\ db'[r] = <<>> /\ flood'[r] = NoLsu
              /\ \A q \in Routers : q # r =>
                     nbr'[q] = nbr[q] /\ db'[q] = db[q] /\ flood'[q] = flood[q]
            BY <3>1 DEF MospfInv, MospfType
        <3>3. Held(r)' = {}
            BY <3>2 DEF Held
        <3> QED
            BY <3>2, <3>3 DEF Held
    <2> QED
        BY <2>1, <2>2
<1>3. AllGenuine'
    BY <1>1, <1>2, StillGenuine DEF FloodInv, AllGenuine
<1> QED
    BY <1>1, <1>2, <1>3 DEF FloodInv, LatestIs, OnNets

LEMMA RestartFloods ==
    ASSUME MospfAssumption, MospfInv, FloodInv, NEW r \in Routers, mospf_init(r)
    PROVE  FloodInv'
<1>1. /\ life' = [life EXCEPT ![r] = @ + 1] /\ sent' = [sent EXCEPT ![r] = NoLsu]
      /\ seq' = [seq EXCEPT ![r] = 0] /\ fresh' = {} /\ UNCHANGED <<nbr, db, flood, msgs>>
    BY DEF mospf_init
<1>2. /\ life'[r] = life[r] + 1 /\ sent'[r] = NoLsu /\ life[r] \in Nat
      /\ \A q \in Routers : q # r =>
             life'[q] = life[q] /\ sent'[q] = sent[q] /\ seq'[q] = seq[q]
    BY <1>1 DEF MospfInv, MospfType
<1>3. ASSUME NEW l \in Lsus, Genuine(l, life, sent)  PROVE Genuine(l, life', sent')
    <2>1. l.rid \in Routers /\ l.life \in Nat
        BY DEF Lsus
    <2>2. CASE l.rid = r
        BY <1>2, <1>3, <2>1, <2>2 DEF Genuine
    <2>3. CASE l.rid # r
        BY <1>2, <1>3, <2>1, <2>3 DEF Genuine
    <2> QED
        BY <2>2, <2>3
<1>4. AllGenuine'
    <2>1. \A m \in msgs' : Genuine(m.lsu, life', sent')
        BY <1>1, <1>3 DEF MospfInv, MospfType, Msgs, FloodInv, AllGenuine
    <2>2. ASSUME NEW q \in Routers, flood'[q] # NoLsu  PROVE Genuine(flood'[q].lsu, life', sent')
        <3>1. flood[q].lsu \in Lsus /\ Genuine(flood[q].lsu, life, sent)
            BY <1>1, <2>2 DEF MospfInv, MospfType, Floods, FloodInv, AllGenuine
        <3> QED
            BY <1>1, <1>3, <3>1
    <2>3. \A q \in Routers : Held(q)' = Held(q)
        BY <1>1 DEF Held
    <2>4. \A q \in Routers : \A e \in Held(q)' : Genuine(e, life', sent')
        BY <1>3, <2>3, HeldIs DEF FloodInv, AllGenuine
    <2> QED
        BY <2>1, <2>2, <2>4 DEF AllGenuine
<1>5. LatestIs'
    BY <1>2 DEF FloodInv, LatestIs
<1> QED
    BY <1>1, <1>4, <1>5 DEF FloodInv, OnNets

LEMMA InitFloods == Init => FloodInv
BY DEF Init, FloodInv, LatestIs, AllGenuine, OnNets, Held

LEMMA NextFloods ==
    MospfAssumption /\ MospfInv /\ FloodInv /\ [Next]_vars => FloodInv'
<1> SUFFICES ASSUME MospfAssumption, MospfInv, FloodInv, [Next]_vars  PROVE FloodInv'
    OBVIOUS
<1>1. CASE \E m \in msgs : handle_mospf_lsu(m)
    BY <1>1, LsuFloods
<1>2. CASE \E r, s \in Routers, k \in Nets :
               handle_mospf_hello(r, s, k) \/ checking_nbr_thread(r, s, k)
    BY <1>2, HelloFloods
<1>3. CASE \E r, o \in Routers : checking_database_thread(r, o)
    BY <1>3, ExpiryFloods
<1>4. CASE \E r \in Routers :
               PassOn(r) \/ sending_mospf_lsu_thread(r) \/ Crash(r) \/ mospf_init(r)
    BY <1>4, PassFloods, PeriodicFloods, FaultFloods, RestartFloods
<1>5. CASE \E k \in Nets : CutNet(k) \/ MendNet(k)
    BY <1>5, FaultFloods
<1>6. CASE UNCHANGED vars
    <2>1. UNCHANGED <<up, cut, nbr, seq, db, flood, msgs, life, sent, fresh>>
        BY <1>6 DEF vars
    <2>2. LatestIs' /\ AllGenuine' /\ OnNets'
        BY <2>1 DEF FloodInv, LatestIs, AllGenuine, OnNets, Held
    <2>3. \A o \in fresh' : Flooding(o)'
        BY <2>1 DEF FloodInv, Flooding, Told, Served, OnItsWay, Held
    <2> QED
        BY <2>2, <2>3 DEF FloodInv
<1> QED
    BY <1>1, <1>2, <1>3, <1>4, <1>5, <1>6 DEF Next

(* When nothing is on its way, the routers that have the latest LSU are a set that all
   who listen to one of it belong to. *)
LEMMA FloodedIs == MospfInv /\ FloodInv => Agreement
<1> SUFFICES ASSUME MospfInv, FloodInv, Quiet, NEW o \in fresh, NEW r \in Informed(o)
             PROVE  \E i \in Indices(r, o) :
                        IsLatest(db[r][i], o) /\ db[r][i].adv = sent[o].adv
    BY DEF Agreement
<1> DEFINE S == {n \in Routers : Told(n, o)}
<1>1. o \in Routers /\ Flooding(o) /\ sent[o].rid = o
    BY DEF MospfInv, MospfType, FloodInv, Flooding, LatestIs
<1>2. ASSUME NEW q \in Listening(o, S)  PROVE Told(q, o)
    <2>1. q \in Routers /\ q # o /\ up[q] /\ ~ Stale(q, o)
        BY DEF Listening
    <2>2. PICK n \in S : \E k \in NetsOf(n) \ cut.now : q \in nbr[n][k]
        BY DEF Listening
    <2>0. PICK k \in NetsOf(n) \ cut.now : q \in nbr[n][k]
        BY <2>2
    <2>3. ~ OnItsWay(n, k, q, o)
        BY DEF OnItsWay, Quiet
    <2>4. Served(q, o)
        BY <1>1, <2>0, <2>1, <2>2, <2>3 DEF Flooding
    <2>5. PICK e \in Held(q) : e.rid = o /\ e.seq >= sent[o].seq
        BY <2>1, <2>4 DEF Served
    <2>6. ~ (e.life < life[o])
        BY <2>1, <2>5 DEF Stale, Indices, Held
    <2>7. e \in Lsus /\ Genuine(e, life, sent)
        BY <2>1, <2>5, HeldIs DEF FloodInv, AllGenuine
    <2>8. e = sent[o] \/ e.seq < sent[o].seq
        BY <2>5, <2>6, <2>7 DEF Genuine
    <2>9. e.seq \in Nat /\ sent[o].seq \in Nat
        <3>1. sent[o] \in {NoLsu} \cup Lsus /\ sent[o] # NoLsu
            BY <1>1 DEF MospfInv, MospfType, Flooding
        <3> QED
            BY <2>7, <3>1 DEF Lsus
    <2> QED
        BY <2>5, <2>8, <2>9 DEF Told
<1>3. o \in S /\ Listening(o, S) \subseteq S
    BY <1>1, <1>2 DEF Told, Listening
<1>4. r \in Routers /\ r # o /\ r \in S
    <2>1. S \in SUBSET Routers
        OBVIOUS
    <2> QED
        BY <1>3, <2>1 DEF Informed
<1>5. PICK i \in DOMAIN db[r] : db[r][i] = sent[o]
    BY <1>4 DEF Told, Held
<1> QED
    BY <1>1, <1>5 DEF Indices, IsLatest

(* From the start of all routers, everything keeps its type (mospf_daemon.c). *)
THEOREM TypeCorrect == Spec => []TypeOK
<1>1. MospfInv => TypeOK
    BY TypeIs
<1>2. MospfAssumption
    BY MospfAssumption
<1> QED
    BY <1>1, <1>2, InitStep, NextStep, PTL DEF Spec

(* A router has one entry of another at most, and none of itself: what
   handle_mospf_lsu, the thread that checks the database and a restart leave. *)
THEOREM EntriesUnique == Spec => []OneEntryEach
<1>1. MospfInv => OneEntryEach
    BY DEF MospfInv
<1>2. MospfAssumption
    BY MospfAssumption
<1> QED
    BY <1>1, <1>2, InitStep, NextStep, PTL DEF Spec

(* When no LSU is on its way, all that a router's latest one must come to have it,
   however LSUs overtake one another, are refused, and are passed on after others have
   come (handle_mospf_lsu), and whoever crashes and starts again from 0. *)
THEOREM Agrees == Spec => []Agreement
<1>1. MospfInv /\ FloodInv => Agreement
    BY FloodedIs
<1>2. MospfAssumption
    BY MospfAssumption
<1> QED
    BY <1>1, <1>2, InitStep, InitFloods, NextStep, NextFloods, PTL DEF Spec

(* The same from any state in which the invariants hold, such as the one with all
   routers informed that TLC starts from. *)
THEOREM FromAnyState ==
    MospfInv /\ FloodInv /\ [][Next]_vars => [](TypeOK /\ OneEntryEach /\ Agreement)
<1>1. MospfInv /\ FloodInv => TypeOK /\ OneEntryEach /\ Agreement
    BY TypeIs, FloodedIs DEF MospfInv
<1>2. MospfAssumption
    BY MospfAssumption
<1> QED
    BY <1>1, <1>2, NextStep, NextFloods, PTL

=============================================================================
