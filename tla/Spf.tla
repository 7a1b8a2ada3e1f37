-------------------------------- MODULE Spf --------------------------------
(* The routes a router computes from its link-state database
   (mospf_database.c of lab-11).

   A database is the list of the entries [rid, adv] in the order in which their
   routers were first heard of; `adv` is the set of the advertised
   [net, rid]: a network, and a neighbour on it or NoRouter. Vertices of the
   graph are numbered from 1, the router itself is the first. *)
EXTENDS Integers, Sequences, FiniteSets, SequencesExt

NoRouter == 0

Infinity == 127   \* INT8_MAX

NoVertex == 0     \* -1 in the code

RidsOf(db) ==
    (UNION {{db[i].rid} \cup {a.rid : a \in db[i].adv} : i \in DOMAIN db}) \ {NoRouter}

(* bubble_other sorts all but the router itself. *)
find_vertices(self, db) ==
    <<self>> \o SetToSortSeq(RidsOf(db) \ {self}, LAMBDA a, b : a < b)

rid_to_index(verList, rid) ==
    LET found == {i \in DOMAIN verList : verList[i] = rid} IN
    IF found = {} THEN NoVertex ELSE Min(found)

Edges(verList, db) ==
    UNION {{<<rid_to_index(verList, db[i].rid), rid_to_index(verList, a.rid)>> :
                a \in {a \in db[i].adv : a.rid # NoRouter}} : i \in DOMAIN db}

(* The pairs of vertices with an edge; what one end advertises is entered both
   ways. Cells that the memset leaves as they were are taken to be 0. *)
create_graph(verList, db) ==
    Edges(verList, db) \cup {<<e[2], e[1]>> : e \in Edges(verList, db)}

(* The first of the nearest vertices that are not visited. *)
min_dist(dist, visited) ==
    LET open == {i \in DOMAIN dist : i \notin visited /\ dist[i] < Infinity} IN
    IF open = {} THEN NoVertex
    ELSE Min({i \in open : \A j \in open : dist[i] <= dist[j]})

Relax(graph, s, next) ==
    LET better == {j \in DOMAIN s.dist \ (s.visited \cup {next}) :
                       <<next, j>> \in graph /\ s.dist[next] + 1 < s.dist[j]} IN
    [dist |-> [j \in DOMAIN s.dist |-> IF j \in better THEN s.dist[next] + 1 ELSE s.dist[j]],
     prev |-> [j \in DOMAIN s.dist |-> IF j \in better THEN next ELSE s.prev[j]],
     visited |-> s.visited \cup {next}]

(* Without a vertex left to reach the code reads and writes before its arrays;
   here such a round does nothing. *)
dij(graph, num) ==
    FoldLeft(LAMBDA s, i : LET next == min_dist(s.dist, s.visited) IN
                           IF next = NoVertex THEN s ELSE Relax(graph, s, next),
             [dist |-> [i \in 1 .. num |-> IF i = 1 THEN 0 ELSE Infinity],
              prev |-> [i \in 1 .. num |-> NoVertex],
              visited |-> {}],
             [i \in 1 .. num |-> i])

\* Mutant: the walk back stops one vertex early.
SecondHop(s, index) ==
    FoldLeft(LAMBDA i, n : IF s.dist[i] > 2 /\ s.prev[i] # NoVertex THEN s.prev[i] ELSE i,
             index, [i \in DOMAIN s.dist |-> i])

(* From a vertex back to the neighbour of the first one on the way to it. *)
FirstHop(s, index) ==
    FoldLeft(LAMBDA i, n : IF s.dist[i] > 1 /\ s.prev[i] # NoVertex THEN s.prev[i] ELSE i,
             index, [i \in DOMAIN s.dist |-> i])

(* The vertex an advertisement leads to: the neighbour that is named, not the
   router that names it. *)
EndOf(entry, a) == IF a.rid = NoRouter THEN entry.rid ELSE a.rid

NoHop == NoRouter

(* The next hop towards net: of the first advertisement of it in the database
   whose first hop is a neighbour. *)
update_rtable_by_db(self, db, neighbours, net) ==
    LET verList == find_vertices(self, db)
        s == dij(create_graph(verList, db), Len(verList))
        Hops(i) == {verList[FirstHop(s, rid_to_index(verList, EndOf(db[i], a)))] :
                        a \in {a \in db[i].adv : a.net = net}} \cap neighbours
        usable == {i \in DOMAIN db : Hops(i) # {}} IN
    IF usable = {} THEN NoHop ELSE CHOOSE h \in Hops(Min(usable)) : TRUE
=============================================================================
