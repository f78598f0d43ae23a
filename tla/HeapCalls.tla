------------------------------ MODULE HeapCalls ------------------------------
(***************************************************************************)
(* The callers of the kernel heap: the blocks they hold and the last call. *)
(* HeapSpec has them on the heap of chunks, HeapWords on its words.        *)
(***************************************************************************)
EXTENDS Heap

CONSTANTS
  InitPages,  \* pages of the heap that kernelMemInit asks for: 4
  MaxPages,   \* pages the heap can grow to before memory runs out
  Sizes       \* lengths in bytes that callers ask for

\* The heap fits into the address space, and so do the requests: rounding them
\* up does not overflow.
ASSUME HeapCallsAssumption ==
  /\ InitPages \in Nat \ {0}
  /\ MaxPages \in Nat
  /\ InitPages <= MaxPages
  /\ 4 * W * MaxPages < UIntSize
  /\ Sizes \subseteq 0 .. UIntSize - 4 * W

VARIABLES
  live,  \* blocks in the hands of callers: pointer -> length asked for
  call   \* the last call: its name, arguments and answer

NoBlocks == [p \in {} |-> 0]

Give(p, bytes) ==
  IF p = Null THEN live
  ELSE [q \in DOMAIN live \cup {p} |-> IF q = p THEN bytes ELSE live[q]]

TakeBack(p) == [q \in DOMAIN live \ {p} |-> live[q]]

PayloadWords(bytes) == (bytes + 3) \div 4
==============================================================================
