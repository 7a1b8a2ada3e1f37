------------------------------- MODULE Lists -------------------------------
(***************************************************************************)
(* What the code does to a linked list while it walks it: it visits some   *)
(* of the entries, in the order of the list, or deletes the others         *)
(* (list_for_each_entry_safe of include/list.h).                           *)
(***************************************************************************)
EXTENDS Naturals, Sequences, FiniteSets, Functions

\* The numbers in S, in ascending order.
Ascending(S) ==
  CHOOSE r \in Bijection(1 .. Cardinality(S), S) :
    \A i, j \in DOMAIN r : i < j => r[i] < r[j]

\* The entries of list s at the places in K, in the order of the list.
Sublist(s, K) == LET r == Ascending(K) IN [j \in DOMAIN r |-> s[r[j]]]
=============================================================================
