------------------------------ MODULE HeapWords ------------------------------
(***************************************************************************)
(* The kernel heap as memManager.cpp keeps it: an array of words that the  *)
(* code walks and writes, with what callers store in their blocks next to  *)
(* it.  A word is a record [mark, n]: mark says whether its upper twelve   *)
(* bits are all ones, as they are in the first and the last word of a      *)
(* heap, and n is the rest.  Memory is indexed from the start of the heap; *)
(* what lies behind the heap is what earlier owners of the frames left.    *)
(* An operator whose name begins with Mem does to the words what the one   *)
(* of Heap without Mem does to the chunks.                                 *)
(***************************************************************************)
EXTENDS HeapCalls, SequencesExt

CONSTANTS
  NPages,  \* 2^20: what the low twenty bits of a word count
  Junk     \* a word that an earlier owner of a frame has left

Words == [mark : BOOLEAN, n : Nat]

\* The first word of a heap has room for the number of its pages.
ASSUME HeapWordsAssumption == NPages \in Nat /\ MaxPages < NPages /\ Junk \in Words

VARIABLES
  mem,    \* the words of the heap and of the pages it may grow into
  stored  \* pointers of the blocks that callers have filled

memVars == <<mem, live, stored, call>>

Addresses == 0 .. W * MaxPages - 1
------------------------------------------------------------------------------
HeapMark(pages) == [mark |-> TRUE, n |-> pages % NPages]
Chunk(size, a) == [mark |-> FALSE, n |-> 4 * size + a]
SizeOf(word) == word.n \div 4
InUse(word) == word.n % 2 = 1

\* -1 when the two ends of the heap do not name the same size.
HeapSize(m) ==
  LET pages == m[0].n
      tail == m[W * pages - 1]
  IN  IF m[0].mark /\ tail = HeapMark(-pages) THEN pages ELSE -1

MemEnd(m) == W * HeapSize(m) - 1

\* Where a walk over the headers stands, one after the other.
MemStarts(m) ==
  LET Met[i \in 1 .. MemEnd(m) - 1] ==
        i = 1 \/ \E s \in 1 .. i - 1 : s + SizeOf(m[s]) = i /\ Met[s]
  IN  {i \in 1 .. MemEnd(m) - 1 : Met[i]}

\* Mutant: the footer is not written.
Framed_HeaderOnly(m, s, size, a) == [m EXCEPT ![s] = Chunk(size, a)]

\* The header and the footer of a chunk.
Framed(m, s, size, a) ==
  [m EXCEPT ![s] = Chunk(size, a), ![s + size - 1] = Chunk(size, a)]

\* allocHeap, once its pages are mapped: an empty heap from the given page on.
EmptyHeap(m, page, pages) ==
  Framed([m EXCEPT ![W * page] = HeapMark(pages),
                   ![W * (page + pages) - 1] = HeapMark(-pages)],
         W * page + 1, W * pages - 2, 0)

\* Mutant: whether the second chunk is in use is not looked at.
Mergeable_InUse(m, i, next) == ~InUse(m[i])

Mergeable(m, i, next) == ~InUse(m[i]) /\ ~InUse(m[next])

\* The walk of coalesce stands at header k.at of memory k.m and looks at word i: if the next
\* chunk begins there, it is merged, or the walk goes on to it.
Visit(k, i) ==
  LET size == SizeOf(k.m[k.at])
  IN  IF i # k.at + size THEN k
      ELSE IF Mergeable(k.m, k.at, i)
           THEN [k EXCEPT !.m = Framed(k.m, k.at, size + SizeOf(k.m[i]), 0)]
           ELSE [k EXCEPT !.at = i]

MemCoalesce(m) ==
  IF HeapSize(m) < 1 THEN m
  ELSE FoldLeft(Visit, [m |-> m, at |-> 1], [i \in 1 .. MemEnd(m) - 1 |-> i]).m

MemFits(m, need) == {s \in MemStarts(m) : ~InUse(m[s]) /\ need <= SizeOf(m[s])}

\* Mutant: the part that is used is framed only.
MemSplit_NoRest(m, s, need) == Framed(m, s, need, 1)

MemSplit(m, s, need) ==
  LET size == SizeOf(m[s])
      used == Framed(m, s, need, 1)
  IN  IF size > need THEN Framed(used, s + need, size - need, 0) ELSE used

MemKmalloc(m, bytes) ==
  LET c == MemCoalesce(m)
      fits == MemFits(c, Need(bytes))
  IN  IF bytes = 0 \/ HeapSize(m) < 1 THEN [m |-> m, ret |-> Null]
      ELSE IF fits = {} THEN [m |-> c, ret |-> Null]
      ELSE [m |-> MemSplit(c, Min(fits), Need(bytes)), ret |-> Min(fits) + 1]

MemKfree(m, p) ==
  IF p = Null \/ HeapSize(m) < 1 \/ p >= MemEnd(m) THEN [m |-> m, ret |-> FALSE]
  ELSE [m |-> MemCoalesce(Framed(m, p - 1, SizeOf(m[p - 1]), 0)), ret |-> TRUE]

\* expandHeap, when it gets the pages, up to its merge.
MemGrown(m, pages) ==
  LET old == HeapSize(m)
      joined == [EmptyHeap(m, old, pages) EXCEPT
                   ![0] = HeapMark(old + pages),
                   ![W * (old + pages) - 1] = HeapMark(-(old + pages))]
  IN  Framed(joined, W * old - 1, W * pages, 0)

MemHlmalloc(m, bytes, grows) ==
  LET k == MemKmalloc(m, bytes)
  IN  IF k.ret # Null \/ bytes = 0 \/ ~grows THEN k
      ELSE MemKmalloc(MemCoalesce(MemGrown(k.m, PagesFor(bytes))), bytes)
------------------------------------------------------------------------------
MemInit ==
  /\ mem = EmptyHeap([i \in Addresses |-> Junk], 0, InitPages)
  /\ live = NoBlocks
  /\ stored = {}
  /\ call = [op |-> "none"]

MemMalloc(bytes, grows) ==
  LET r == MemHlmalloc(mem, bytes, grows)
  IN  /\ grows => HeapSize(mem) + PagesFor(bytes) <= MaxPages
      /\ mem' = r.m
      /\ live' = Give(r.ret, bytes)
      /\ call' = [op |-> "malloc", bytes |-> bytes, grows |-> grows, ret |-> r.ret]
      /\ UNCHANGED stored

MemFree(p) ==
  LET r == MemKfree(mem, p)
  IN  /\ mem' = r.m
      /\ live' = TakeBack(p)
      /\ stored' = stored \ {p}
      /\ call' = [op |-> "free", ret |-> r.ret]

\* A caller fills its block with a value of its own, which looks like a header.
Stamp(p) == [mark |-> FALSE, n |-> 4 * p + 1]
Payload(p) == p .. p + PayloadWords(live[p]) - 1

Store(p) ==
  /\ mem' = [i \in Addresses |-> IF i \in Payload(p) THEN Stamp(p) ELSE mem[i]]
  /\ stored' = stored \cup {p}
  /\ UNCHANGED <<live, call>>

MemNext ==
  \/ \E bytes \in Sizes, grows \in BOOLEAN : MemMalloc(bytes, grows)
  \/ \E p \in DOMAIN live \cup {Null} : MemFree(p)
  \/ \E p \in DOMAIN live : Store(p)

MemSpec == MemInit /\ [][MemNext]_memVars
------------------------------------------------------------------------------
\* Every chunk ends with a copy of its header (memManager.cpp:19-32), whatever
\* callers have stored in the block before it and in the block behind it.
FootersAgree ==
  \A s \in MemStarts(mem) : mem[s + SizeOf(mem[s]) - 1] = mem[s]

\* What a caller has stored in its block is there until it frees the block.
PayloadIsKept == \A p \in stored : \A i \in Payload(p) : mem[i] = Stamp(p)

\* The chunks that the words spell.
HeapOf(m) ==
  [pages |-> HeapSize(m),
   size |-> [s \in MemStarts(m) |-> SizeOf(m[s])],
   busy |-> {s \in MemStarts(m) : InUse(m[s])}]

H == INSTANCE HeapSpec WITH h <- HeapOf(mem)

\* The words in memory implement the heap of chunks: the walks of the code over the
\* headers find, merge and cut the chunks that HeapSpec says (memManager.cpp:177-277).
ImplementsHeap == H!Spec
==============================================================================
