-------------------------------- MODULE DList --------------------------------
(***************************************************************************)
(* The intrusive doubly linked lists of include/list.h, pointer by         *)
(* pointer.  A memory m holds the next and prev pointers of every node; a  *)
(* list is a head node and whatever a walk from it meets.  Deleting an     *)
(* entry leaves the entry's own pointers as they were.                     *)
(***************************************************************************)
EXTENDS Naturals, FiniteSets

Memory(Node) == [next : [Node -> Node], prev : [Node -> Node]]

\* Every node of Node is an empty list of its own.
init_list_head(Node) == [next |-> [n \in Node |-> n], prev |-> [n \in Node |-> n]]

list_empty(m, n) == m.next[n] = n

list_insert(m, new, p, n) ==
  [m EXCEPT !.prev[n] = new, !.next[p] = new, !.next[new] = n, !.prev[new] = p]

list_add_head(m, new, head) == list_insert(m, new, head, m.next[head])
list_add_tail(m, new, head) == list_insert(m, new, m.prev[head], head)

\* The second assignment reads the pointers as the first one leaves them.
list_delete_entry(m, e) ==
  LET m1 == [m EXCEPT !.prev[m.next[e]] = m.prev[e]]
  IN  [m1 EXCEPT !.next[m1.prev[e]] = m1.next[e]]

\* list_for_each_entry from head, for as many nodes as there are: where it is
\* then, and the entries it has visited.
Walk(m, head) ==
  LET walk[i \in 0 .. Cardinality(DOMAIN m.next)] ==
        IF i = 0 THEN [at |-> m.next[head], met |-> {}]
        ELSE LET w == walk[i - 1]
             IN  IF w.at = head THEN w
                 ELSE [at |-> m.next[w.at], met |-> w.met \cup {w.at}]
  IN  walk[Cardinality(DOMAIN m.next)]

\* The walk gets back to the head; if it does not then it never will.
WalkEnds(m, head) == Walk(m, head).at = head
Entries(m, head) == Walk(m, head).met
=============================================================================
