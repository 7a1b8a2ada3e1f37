------------------------------ MODULE ByteFifo ------------------------------
(***************************************************************************)
(* What the receive buffer of a socket promises: a bounded queue of bytes. *)
(* RingBuffer is shown to implement it.                                    *)
(***************************************************************************)
EXTENDS Integers, Sequences

CONSTANTS Cap,      \* bytes the queue can hold
          Chunks,   \* the sequences of bytes one call may write
          Reads     \* the numbers of bytes one call may ask for

VARIABLES q,        \* the bytes written and not yet read, oldest first
          got       \* the bytes the last read returned

vars == <<q, got>>

Init == q = <<>> /\ got = <<>>

\* A write needs room for all of its bytes.
Put(s) == /\ Len(q) + Len(s) <= Cap
          /\ q' = q \o s
          /\ UNCHANGED got

\* A read takes as many bytes as asked for, or all there are.
Take(n) == LET len == IF Len(q) < n THEN Len(q) ELSE n
           IN  /\ got' = SubSeq(q, 1, len)
               /\ q' = SubSeq(q, len + 1, Len(q))

Next == \/ \E s \in Chunks : Put(s)
        \/ \E n \in Reads : Take(n)

Spec == Init /\ [][Next]_vars
=============================================================================
