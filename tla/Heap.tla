-------------------------------- MODULE Heap ---------------------------------
(***************************************************************************)
(* The heap of kernel/src/memManager/memManager.cpp at the level of its    *)
(* implicit free list.  A heap of n pages is an array of n * W words.  The *)
(* first and the last word hold its size; the words between are cut into   *)
(* chunks, each of which begins and ends with a word that holds its length *)
(* and whether it is in use.  A state of the heap is a record              *)
(*     h = [pages, size, busy]                                             *)
(* where size[s] is the length in words of the chunk that starts at word s *)
(* and busy the set of the starts of the chunks in use.  Pointers are      *)
(* numbers of words from the start of the heap: the pointer to a chunk's   *)
(* payload is its start + 1.  HeapWords shows that the words in memory     *)
(* spell this state.                                                       *)
(***************************************************************************)
EXTENDS Integers, FiniteSetsExt

CONSTANTS
  W,        \* words of a page: 1024
  UIntSize  \* 2^32: the values of an unsigned int are 0 .. UIntSize - 1

ASSUME HeapAssumption ==
  /\ W \in Nat
  /\ 4 <= W
  /\ UIntSize \in Nat
  /\ UIntSize % (4 * W) = 0
  /\ 4 * W < UIntSize

Null == 0

\* The last word of the heap, where the chunks end.
End(h) == W * h.pages - 1

Starts(h) == DOMAIN h.size
FreeStarts(h) == Starts(h) \ h.busy
NextChunk(h, s) == s + h.size[s]

NewHeap(pages) ==
  [pages |-> pages, size |-> [s \in {1} |-> W * pages - 2], busy |-> {}]

(***************************************************************************)
(* coalesce walks the chunks once; as long as a free chunk is followed by  *)
(* a free chunk the walk stays and the second is added to the first.       *)
(***************************************************************************)
\* Mutant: after a merge the walk moves on, and leaves every other free chunk of
\* a run of them as it is.
Absorbed_Once(h) ==
  {s \in FreeStarts(h) :
     \E t \in FreeStarts(h) : /\ NextChunk(h, t) = s
                              /\ \A u \in FreeStarts(h) : NextChunk(h, u) # t}

Absorbed(h) == {s \in FreeStarts(h) : \E t \in FreeStarts(h) : NextChunk(h, t) = s}

Kept(h) == Starts(h) \ Absorbed(h)

After(h, s) == Min({t \in Kept(h) \cup {End(h)} : s < t})

Coalesce(h) ==
  [h EXCEPT !.size = [s \in Kept(h) |-> IF s \in h.busy THEN h.size[s]
                                        ELSE After(h, s) - s]]
------------------------------------------------------------------------------
\* Mutant: the words of a request are rounded down.
Need_RoundDown(bytes) == ((bytes % UIntSize) \div 4) + 2

\* Words that a request of some bytes takes: its words, rounded up, and two more.
Need(bytes) == (((bytes + 3) % UIntSize) \div 4) + 2

\* The first words of the free chunk at s are used, the rest is a free chunk.
Split(h, s, need) ==
  [pages |-> h.pages,
   size |-> [t \in Starts(h) \cup ({s + need} \ {NextChunk(h, s)}) |->
               IF t = s THEN need
               ELSE IF t = s + need /\ t # NextChunk(h, s) THEN h.size[s] - need
               ELSE h.size[t]],
   busy |-> h.busy \cup {s}]

\* Mutants: a chunk of just the right length is passed over; the bit that says
\* whether the chunk is in use is not looked at.
Fits_Strict(h, need) == {s \in FreeStarts(h) : need < h.size[s]}
Fits_InUse(h, need) == {s \in Starts(h) : need <= h.size[s]}

Fits(h, need) == {s \in FreeStarts(h) : need <= h.size[s]}

Kmalloc(h, bytes) ==
  LET c == Coalesce(h)
      fits == Fits(c, Need(bytes))
  IN  IF bytes = 0 THEN [h |-> h, ret |-> Null]
      ELSE IF fits = {} THEN [h |-> c, ret |-> Null]
      ELSE [h |-> Split(c, Min(fits), Need(bytes)), ret |-> Min(fits) + 1]

\* Mutant: the chunk is given back without a merge.
Kfree_NoCoalesce(h, p) ==
  IF p = Null \/ p >= End(h) THEN [h |-> h, ret |-> FALSE]
  ELSE [h |-> [h EXCEPT !.busy = @ \ {p - 1}], ret |-> TRUE]

\* kfree does not look at whether the chunk is in use.
Kfree(h, p) ==
  IF p = Null \/ p >= End(h) THEN [h |-> h, ret |-> FALSE]
  ELSE [h |-> Coalesce([h EXCEPT !.busy = @ \ {p - 1}]), ret |-> TRUE]

\* Mutant: the new chunk starts behind the old last word.
Grown_AfterTail(h, pages) ==
  [h EXCEPT !.pages = @ + pages,
            !.size = [s \in Starts(h) \cup {End(h) + 1} |->
                        IF s = End(h) + 1 THEN W * pages - 1 ELSE h.size[s]]]

\* expandHeap, when it gets the pages: the old last word becomes the header of a
\* free chunk that ends one word before the new last word.
Grown(h, pages) ==
  [pages |-> h.pages + pages,
   size |-> [s \in Starts(h) \cup {End(h)} |->
               IF s = End(h) THEN W * pages ELSE h.size[s]],
   busy |-> h.busy]

ExpandHeap(h, pages) == Coalesce(Grown(h, pages))

\* Pages asked for when a request does not fit: its bytes in pages, rounded up.
PagesFor(bytes) == ((bytes + 4 * W - 1) % UIntSize) \div (4 * W)

\* hlmalloc; `grows' says whether expandHeap gets its pages.
Hlmalloc(h, bytes, grows) ==
  LET k == Kmalloc(h, bytes)
  IN  IF k.ret # Null \/ bytes = 0 \/ ~grows THEN k
      ELSE Kmalloc(ExpandHeap(k.h, PagesFor(bytes)), bytes)
==============================================================================
