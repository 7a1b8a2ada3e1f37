---------------------------- MODULE MCRingBuffer ----------------------------
(* Constants of the RingBuffer run: every offset of a four-byte array, and   *)
(* chunks up to one byte more than it holds.                                 *)
EXTENDS RingBuffer

CONSTANTS a, b

MCCap == 3
MCData == {a, b}
MCZero == a
MCMaxChunk == 4
=============================================================================
