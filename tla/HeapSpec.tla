------------------------------- MODULE HeapSpec ------------------------------
(***************************************************************************)
(* The kernel heap under its callers: new and delete, which are hlmalloc   *)
(* and hlfree of kernel/src/memManager/kernelMem.cpp.  Callers free what   *)
(* they have been given, once, or a null pointer.  Calls run to            *)
(* completion, one at a time.                                              *)
(***************************************************************************)
EXTENDS HeapCalls

VARIABLE h  \* the heap

vars == <<h, live, call>>

Init ==
  /\ h = NewHeap(InitPages)
  /\ live = NoBlocks
  /\ call = [op |-> "none"]

\* expandHeap may fail at any time: the pages after the heap or the physical
\* memory may be in use.
Malloc(bytes, grows) ==
  LET r == Hlmalloc(h, bytes, grows)
  IN  /\ grows => h.pages + PagesFor(bytes) <= MaxPages
      /\ h' = r.h
      /\ live' = Give(r.ret, bytes)
      /\ call' = [op |-> "malloc", bytes |-> bytes, grows |-> grows, ret |-> r.ret]

Free(p) ==
  LET r == Kfree(h, p)
  IN  /\ h' = r.h
      /\ live' = TakeBack(p)
      /\ call' = [op |-> "free", ret |-> r.ret]

Next ==
  \/ \E bytes \in Sizes, grows \in BOOLEAN : Malloc(bytes, grows)
  \/ \E p \in DOMAIN live \cup {Null} : Free(p)

Spec == Init /\ [][Next]_vars
------------------------------------------------------------------------------
\* Every variable has its type.
TypeOK ==
  /\ h.pages \in InitPages .. MaxPages
  /\ h.size \in [Starts(h) -> 1 .. W * MaxPages]
  /\ Starts(h) \subseteq Nat
  /\ h.busy \subseteq Starts(h)
  /\ live \in [DOMAIN live -> Sizes]
  /\ call.op \in {"none", "malloc", "free"}

\* The chunks tile the heap from its second word to its last but one, so that a
\* walk from either call meets each of them and stops at the end.
ChunksTile ==
  /\ 1 \in Starts(h)
  /\ \A s \in Starts(h) :
       /\ NextChunk(h, s) \in Starts(h) \cup {End(h)}
       /\ \A t \in Starts(h) : s < t => NextChunk(h, s) <= t

\* The chunks in use are those of the blocks that callers hold, each long enough
\* for its header, the bytes that were asked for and its footer.
BusyIsLive ==
  /\ h.busy = {p - 1 : p \in DOMAIN live}
  /\ \A p \in DOMAIN live : live[p] <= 4 * (h.size[p - 1] - 2)

\* Whatever the order of the calls, no two free chunks are left side by side.
NoFreeNeighbours ==
  \A s \in FreeStarts(h) : NextChunk(h, s) \notin FreeStarts(h)

\* When everything has been freed the heap is one chunk again: nothing leaks and
\* nothing stays fragmented.
NothingLeaks == live = NoBlocks => Starts(h) = {1}

\* Words of a block with its header and its footer.
Footprint(p) == p - 1 .. p - 2 + Need(live[p])

\* A request is refused only when no gap between the blocks can hold it, and when
\* the heap has grown for it, only because the pages asked for leave no room for
\* the header and the footer.
RefusalIsJustified ==
  call.op = "malloc" /\ call.ret = Null /\ call.bytes # 0 =>
    /\ \A s \in 1 .. End(h) - Need(call.bytes) :
         \E p \in DOMAIN live : Footprint(p) \cap (s .. s + Need(call.bytes) - 1) # {}
    /\ call.grows => Need(call.bytes) > W * PagesFor(call.bytes)

\* The blocks that callers hold never overlap, and none of them moves.
Alloc == INSTANCE Allocator WITH
           Pointers <- 1 .. W * MaxPages, Requests <- Sizes,
           WordsOf <- PayloadWords, blocks <- live

ImplementsAllocator == Alloc!ASpec
==============================================================================
