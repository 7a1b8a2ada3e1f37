--------------------------- MODULE ReliableStream ---------------------------
(***************************************************************************)
(* What a connection promises its two applications: the receiver reads     *)
(* exactly what the sender wrote, in order, until the connection fails;    *)
(* nothing is promised after that.                                         *)
(***************************************************************************)
EXTENDS Naturals, Sequences

VARIABLES written,    \* segments the sender has written: 1 .. written
          read,       \* what the receiver has read
          failed

vars == <<written, read, failed>>

Init == written = 0 /\ read = <<>> /\ failed = FALSE

Write == written' = written + 1 /\ UNCHANGED <<read, failed>>

\* A read returns the segments that come next, never more than were written.
Read == /\ ~failed
        /\ \E n \in Len(read) + 1 .. written : read' = [i \in 1 .. n |-> i]
        /\ UNCHANGED <<written, failed>>

Fail == ~failed /\ failed' = TRUE /\ UNCHANGED <<written, read>>

Anything == failed /\ failed' = TRUE

Next == Write \/ Read \/ Fail \/ Anything

Spec == Init /\ [][Next]_vars
=============================================================================
