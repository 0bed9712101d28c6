------------------------------- MODULE Blocks -------------------------------
(* The block size of an image and the arithmetic every part of it shares.  *)
EXTENDS Naturals

CONSTANT BlockSize    (* bytes of a block                                  *)

\* A block holds the header, the tail and an entry of a block of extents, or a
\* group descriptor.
ASSUME BlockSizeAssumption == BlockSize \in Nat /\ BlockSize >= 32

CeilDiv(n, d) == (n + d - 1) \div d
Least(a, b) == IF a <= b THEN a ELSE b
Greatest(a, b) == IF a >= b THEN a ELSE b

\* What a disk holds after some of its blocks were written.
Over(blocks, disk) ==
  [b \in DOMAIN blocks \cup DOMAIN disk |->
     IF b \in DOMAIN blocks THEN blocks[b] ELSE disk[b]]
=============================================================================
