----------------------------- MODULE RingBuffer -----------------------------
(***************************************************************************)
(* The receive buffer of a socket: struct ring_buffer of                   *)
(* include/ring_buffer.h.  An array of Cap + 1 bytes, one of which always  *)
(* stays unused so that an empty buffer differs from a full one.  Every    *)
(* use in the stack holds rbuf_lock, so each operation is one action.      *)
(***************************************************************************)
EXTENDS Integers, Sequences

CONSTANTS Cap,        \* alloc_ring_buffer's argument (TCP_DEFAULT_WINDOW)
          Data,       \* the values a byte can take
          Zero,       \* the byte memset fills the array with
          MaxChunk    \* the longest chunk one call reads or writes

ASSUME CapAssumption == Cap \in Nat \ {0}
ASSUME ZeroAssumption == Zero \in Data
ASSUME ChunkAssumption == MaxChunk \in Nat

VARIABLES head,       \* index of the next byte to read
          tail,       \* index of the next byte to write
          buf,        \* the array
          got,        \* what the last read copied out
          aborted     \* the assertion of write_ring_buffer has failed

ringVars == <<head, tail, buf, got, aborted>>

-----------------------------------------------------------------------------
size == Cap + 1
Index == 0 .. size - 1
Chunk == UNION {[1 .. n -> Data] : n \in 1 .. MaxChunk}

ring_buffer_used == (tail - head + size) % size

\* Mutant: the byte kept free is not accounted for.
ring_buffer_free_all == size - ring_buffer_used

ring_buffer_free == size - ring_buffer_used - 1

\* alloc_ring_buffer zeroes the whole allocation.
RingInit == /\ head = 0
            /\ tail = 0
            /\ buf = [i \in Index |-> Zero]
            /\ got = <<>>
            /\ aborted = FALSE

\* The two memcpy of a read of len bytes, the second one from the array's start.
CopyOut(len) ==
  LET right == size - head
  IN  IF head + len > size
      THEN [i \in 1 .. len |-> IF i <= right THEN buf[head + i - 1]
                                             ELSE buf[i - right - 1]]
      ELSE [i \in 1 .. len |-> buf[head + i - 1]]

\* Mutant: the index is not brought back into the array.
AdvanceUnwrapped(i, len) == i + len

Advance(i, len) == (i + len) % size

read_ring_buffer(n) ==
  LET len == IF ring_buffer_used < n THEN ring_buffer_used ELSE n
  IN  /\ ~aborted
      /\ got' = CopyOut(len)
      /\ head' = Advance(head, len)
      /\ UNCHANGED <<tail, buf, aborted>>

\* The two memcpy of a write of the chunk s.
CopyIn(s) ==
  LET right == size - tail
      left  == Len(s) - right
  IN  IF tail + Len(s) > size
      THEN [i \in Index |-> IF i >= tail THEN s[i - tail + 1]
                            ELSE IF i < left THEN s[right + i + 1] ELSE buf[i]]
      ELSE [i \in Index |-> IF i >= tail /\ i < tail + Len(s)
                            THEN s[i - tail + 1] ELSE buf[i]]

\* A write that does not fit fails the assertion, which ends the process.
write_ring_buffer(s) ==
  /\ ~aborted
  /\ IF ring_buffer_free >= Len(s)
     THEN /\ buf' = CopyIn(s)
          /\ tail' = Advance(tail, Len(s))
          /\ UNCHANGED aborted
     ELSE aborted' = TRUE /\ UNCHANGED <<buf, tail>>
  /\ UNCHANGED <<head, got>>

RingNext == \/ \E s \in Chunk : write_ring_buffer(s)
            \/ \E n \in 0 .. MaxChunk : read_ring_buffer(n)

RingSpec == RingInit /\ [][RingNext]_ringVars

-----------------------------------------------------------------------------
(* Properties *)

\* The indices stay inside the array and every cell holds a byte.
RingTypeOK == /\ head \in Index
              /\ tail \in Index
              /\ buf \in [Index -> Data]
              /\ got \in Seq(Data)
              /\ aborted \in BOOLEAN

\* The unread bytes, oldest first, as the indices delimit them.
Unread == [i \in 1 .. ring_buffer_used |-> buf[(head + i - 1) % size]]

Fifo == INSTANCE ByteFifo WITH q <- Unread, Chunks <- Chunk, Reads <- 0 .. MaxChunk

\* The wrapped copies and the modular indices implement a bounded queue: bytes
\* come out in the order they went in, none lost, repeated or overwritten.
FifoSpec == Fifo!Spec
=============================================================================
