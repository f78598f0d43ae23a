----------------------------- MODULE MCHeapWords -----------------------------
(***************************************************************************)
(* Model checking the heap in memory on two pages of six words.  A request *)
(* of 20 bytes takes seven words: one page more is not enough for it.      *)
(***************************************************************************)
EXTENDS HeapWords

\* It looks like the first word of a heap of one page.
MCJunk == [mark |-> TRUE, n |-> 1]
==============================================================================
