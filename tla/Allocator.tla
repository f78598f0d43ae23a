------------------------------ MODULE Allocator ------------------------------
(***************************************************************************)
(* What the kernel's malloc and free promise: the blocks that are          *)
(* allocated occupy separate words, and each stays where it is until it is *)
(* freed.  An allocation may fail at any time.                             *)
(***************************************************************************)
EXTENDS Integers

CONSTANTS
  Pointers,   \* words that a block may start at
  Requests,   \* lengths in bytes that are asked for
  WordsOf(_)  \* words that a block of that many bytes occupies

VARIABLE blocks   \* the allocated blocks: pointer -> length in bytes

Extent(p, bytes) == p .. p + WordsOf(bytes) - 1

AInit == blocks = [p \in {} |-> 0]

AMalloc(p, bytes) ==
  /\ \A q \in DOMAIN blocks : Extent(p, bytes) \cap Extent(q, blocks[q]) = {}
  /\ blocks' = [q \in DOMAIN blocks \cup {p} |-> IF q = p THEN bytes ELSE blocks[q]]

AFree(p) == blocks' = [q \in DOMAIN blocks \ {p} |-> blocks[q]]

ANext ==
  \/ \E p \in Pointers, bytes \in Requests : p \notin DOMAIN blocks /\ AMalloc(p, bytes)
  \/ \E p \in DOMAIN blocks : AFree(p)

ASpec == AInit /\ [][ANext]_blocks
==============================================================================
