----------------------------- MODULE HeapProofs ------------------------------
(***************************************************************************)
(* Proofs about the heap, for every size of a page and every length that   *)
(* callers ask for.  The chunks tile the heap after every call; this rests *)
(* on what each of the four operations (merge, split, give back, grow)     *)
(* does to a tiling, whatever the heap they are applied to.  The second    *)
(* half is about the words: each operation on words that spell a heap      *)
(* leaves words that spell what the same operation makes of the heap, and  *)
(* no word of a chunk in use is written.                                   *)
(***************************************************************************)
EXTENDS HeapSpec, HeapWords, SetLemmas, TLAPS
------------------------------------------------------------------------------
(***************************************************************************)
(* Tilings.                                                                *)
(***************************************************************************)
\* g is a heap whose chunks tile it.
Tiled(g) ==
  /\ g = [pages |-> g.pages, size |-> g.size, busy |-> g.busy]
  /\ g.pages \in Nat \ {0}
  /\ Starts(g) \subseteq 1 .. End(g) - 1
  /\ g.size \in [Starts(g) -> Nat \ {0}]
  /\ g.busy \subseteq Starts(g)
  /\ 1 \in Starts(g)
  /\ \A s \in Starts(g) : NextChunk(g, s) \in Starts(g) \cup {End(g)}
  /\ \A s, t \in Starts(g) : s < t => NextChunk(g, s) <= t

NoTwoFree(g) == \A s \in FreeStarts(g) : NextChunk(g, s) \notin FreeStarts(g)

\* g and k have the same chunks in use.
SameBusy(g, k) == k.busy = g.busy /\ \A s \in g.busy : k.size[s] = g.size[s]

\* Multiplication by W respects the order.
LEMMA Times ==
  ASSUME NEW a \in Nat, NEW b \in Nat, a <= b
  PROVE  /\ W * a \in Nat /\ W * a <= W * b
         /\ W * (a + b) = W * a + W * b
         /\ a # 0 => W <= W * a
  BY HeapAssumption

LEMMA EndNat == ASSUME NEW g, g.pages \in Nat \ {0} PROVE End(g) \in Nat /\ End(g) >= 3
<1>1. W <= W * g.pages /\ W * g.pages \in Nat
  BY Times
<1>. QED  BY <1>1, HeapAssumption DEF End

\* The chunk before a chunk ends where it starts.
LEMMA Predecessor ==
  ASSUME NEW g, Tiled(g), NEW t \in Starts(g), t # 1
  PROVE  \E s \in Starts(g) : s < t /\ NextChunk(g, s) = t
<1>0. Starts(g) \subseteq Nat /\ 1 \in Starts(g) /\ t \in Nat /\ 1 < t /\ End(g) \in Nat
      /\ t < End(g)
  BY EndNat DEF Tiled
<1> DEFINE B == {s \in Starts(g) : s < t}
<1>1. B \subseteq 0 .. t /\ B # {}
  BY <1>0
<1>2. Max(B) \in B /\ \A y \in B : Max(B) >= y
  <2>. HIDE DEF B
  <2>. QED  BY <1>0, <1>1, MaxOfNaturals
<1>3. PICK s \in Starts(g) : s < t /\ \A y \in Starts(g) : y < t => y <= s
  BY <1>2
<1>4. NextChunk(g, s) \in Nat /\ s < NextChunk(g, s) /\ NextChunk(g, s) <= t
      /\ NextChunk(g, s) \in Starts(g) \cup {End(g)}
  BY <1>0, <1>3 DEF Tiled, NextChunk
<1>. QED  BY <1>0, <1>3, <1>4
------------------------------------------------------------------------------
(***************************************************************************)
(* Merging.                                                                *)
(***************************************************************************)
LEMMA NewHeapTiled ==
  ASSUME NEW n \in Nat \ {0}
  PROVE  Tiled(NewHeap(n)) /\ NoTwoFree(NewHeap(n)) /\ NewHeap(n).busy = {}
<1>1. W <= W * n /\ W * n \in Nat
  BY Times
<1>. QED  BY <1>1, HeapAssumption
          DEF NewHeap, Tiled, NoTwoFree, Starts, FreeStarts, NextChunk, End

\* After(g, s) is the first chunk behind s that is kept, or the end.
LEMMA AfterIsNext ==
  ASSUME NEW g, Tiled(g), NEW s \in Starts(g)
  PROVE  /\ After(g, s) \in Kept(g) \cup {End(g)} /\ s < After(g, s)
         /\ \A t \in Kept(g) : s < t => After(g, s) <= t
         /\ After(g, s) <= End(g)
<1> DEFINE C == {t \in Kept(g) \cup {End(g)} : s < t}
<1>1. Kept(g) \subseteq Nat /\ End(g) \in Nat /\ s < End(g)
  BY EndNat DEF Tiled, Kept
<1>2. C \subseteq Nat /\ End(g) \in C
  BY <1>1
<1>3. Min(C) \in C /\ \A y \in C : Min(C) <= y
  <2>. HIDE DEF C
  <2>. QED  BY <1>2, MinOfNaturals
<1>. QED  BY <1>2, <1>3 DEF After

\* coalesce keeps the tiling and the chunks in use, and leaves no two free chunks
\* side by side.
LEMMA CoalesceTiled ==
  ASSUME NEW g, Tiled(g)
  PROVE  /\ Tiled(Coalesce(g)) /\ NoTwoFree(Coalesce(g))
         /\ SameBusy(g, Coalesce(g)) /\ Coalesce(g).pages = g.pages
<1> DEFINE c == Coalesce(g)
<1>0. /\ Starts(g) \subseteq Nat \ {0} /\ End(g) \in Nat /\ 1 \in Starts(g)
      /\ \A s \in Starts(g) : g.size[s] \in Nat \ {0} /\ s < End(g)
  BY EndNat DEF Tiled
<1>1. c = [pages |-> g.pages, busy |-> g.busy,
           size |-> [s \in Kept(g) |-> IF s \in g.busy THEN g.size[s] ELSE After(g, s) - s]]
  BY DEF Coalesce, Tiled
<1>2. /\ c.pages = g.pages /\ c.busy = g.busy /\ Starts(c) = Kept(g) /\ End(c) = End(g)
      /\ \A s \in Kept(g) : c.size[s] = IF s \in g.busy THEN g.size[s] ELSE After(g, s) - s
      /\ c = [pages |-> c.pages, size |-> c.size, busy |-> c.busy]
      /\ c.size = [s \in Kept(g) |-> c.size[s]]
  BY <1>1 DEF Starts, End
<1>. HIDE DEF c
<1>3. g.busy \subseteq Kept(g) /\ Kept(g) \subseteq Starts(g) /\ 1 \in Kept(g)
  BY <1>0 DEF Kept, Absorbed, FreeStarts, Tiled, NextChunk
<1>4. ASSUME NEW s \in g.busy
      PROVE  NextChunk(g, s) \in Kept(g) \cup {End(g)}
  <2>1. NextChunk(g, s) \in Starts(g) \cup {End(g)} /\ s \in Starts(g)
    BY DEF Tiled
  <2>2. NextChunk(g, s) \notin Absorbed(g)
    <3>. SUFFICES ASSUME NEW t \in FreeStarts(g), NextChunk(g, t) = NextChunk(g, s)
                  PROVE  FALSE
      BY DEF Absorbed
    <3>1. t \in Starts(g) /\ t # s
      BY DEF FreeStarts
    <3>2. t < s \/ s < t
      BY <1>0, <2>1, <3>1
    <3>. QED  BY <1>0, <2>1, <3>1, <3>2 DEF Tiled, NextChunk
  <2>. QED  BY <2>1, <2>2 DEF Kept
<1>5. ASSUME NEW s \in Kept(g)
      PROVE  /\ c.size[s] \in Nat \ {0}
             /\ NextChunk(c, s) \in Kept(g) \cup {End(g)}
             /\ \A t \in Kept(g) : s < t => NextChunk(c, s) <= t
  <2>1. CASE s \in g.busy
    BY <1>0, <1>2, <1>3, <1>4, <2>1 DEF Tiled, NextChunk
  <2>2. CASE s \notin g.busy
    <3>1. After(g, s) \in Nat /\ s < After(g, s) /\ After(g, s) \in Kept(g) \cup {End(g)}
          /\ \A t \in Kept(g) : s < t => After(g, s) <= t
      BY <1>0, <1>3, AfterIsNext
    <3>2. s \in Nat /\ NextChunk(c, s) = After(g, s)
      BY <1>0, <1>2, <1>3, <2>2, <3>1 DEF NextChunk
    <3>. QED  BY <1>2, <2>2, <3>1, <3>2
  <2>. QED  BY <2>1, <2>2
<1>6. Tiled(c)
  <2>1. c.pages \in Nat \ {0} /\ c.busy \subseteq Starts(c)
        /\ Starts(c) \subseteq 1 .. End(c) - 1 /\ 1 \in Starts(c)
    BY <1>2, <1>3 DEF Tiled
  <2>2. c.size \in [Starts(c) -> Nat \ {0}]
    BY <1>2, <1>5
  <2>. QED  BY <1>2, <1>5, <2>1, <2>2 DEF Tiled
<1>7. NoTwoFree(c)
  <2>. SUFFICES ASSUME NEW s \in Kept(g) \ g.busy, NEW t \in Kept(g) \ g.busy,
                       NextChunk(c, s) = t
                PROVE  FALSE
    BY <1>2 DEF NoTwoFree, FreeStarts
  <2>1. s \in Nat /\ t \in Nat /\ s < t /\ t # 1 /\ t \in Starts(g)
    BY <1>0, <1>3, <1>5 DEF NextChunk
  <2>2. PICK u \in Starts(g) : u < t /\ NextChunk(g, u) = t
    BY <2>1, Predecessor
  <2>3. u \in g.busy
    BY <2>1, <2>2 DEF Kept, Absorbed, FreeStarts
  <2>4. s < u
    <3>1. u \in Nat /\ u # s
      BY <1>0, <2>3
    <3>2. ~(u < s)
      BY <1>3, <2>1, <2>2 DEF Tiled
    <3>. QED  BY <2>1, <3>1, <3>2
  <2>. QED  BY <1>0, <1>3, <1>5, <2>1, <2>2, <2>3, <2>4
<1>. QED  BY <1>2, <1>3, <1>6, <1>7 DEF SameBusy, c
------------------------------------------------------------------------------
(***************************************************************************)
(* The other operations.                                                   *)
(***************************************************************************)
\* The words of a chunk after it has been given back are a free chunk.
LEMMA GiveBackTiled ==
  ASSUME NEW g, Tiled(g), NEW s
  PROVE  LET c == [g EXCEPT !.busy = @ \ {s}]
         IN  /\ Tiled(c) /\ c.busy = g.busy \ {s} /\ c.size = g.size
             /\ c.pages = g.pages
<1> DEFINE c == [g EXCEPT !.busy = @ \ {s}]
<1>1. c = [pages |-> g.pages, size |-> g.size, busy |-> g.busy \ {s}]
  BY DEF Tiled
<1>. QED  BY <1>1 DEF Tiled, Starts, NextChunk, End

\* Cutting a free chunk in two keeps the tiling and adds one chunk in use.
LEMMA SplitTiled ==
  ASSUME NEW g, Tiled(g), NoTwoFree(g), NEW s \in FreeStarts(g),
         NEW need \in Nat \ {0}, need <= g.size[s]
  PROVE  LET c == Split(g, s, need)
         IN  /\ Tiled(c) /\ NoTwoFree(c) /\ c.pages = g.pages
             /\ c.busy = g.busy \cup {s} /\ c.size[s] = need
             /\ \A t \in g.busy : c.size[t] = g.size[t]
<1> DEFINE c == Split(g, s, need)
           r == s + need
           D == Starts(g) \cup ({r} \ {NextChunk(g, s)})
           Size(t) == IF t = s THEN need
                      ELSE IF t = s + need /\ t # NextChunk(g, s) THEN g.size[s] - need
                      ELSE g.size[t]
<1>0. /\ Starts(g) \subseteq Nat \ {0} /\ End(g) \in Nat
      /\ \A t \in Starts(g) : g.size[t] \in Nat \ {0} /\ t < End(g)
      /\ s \in Starts(g) /\ s \notin g.busy
  BY EndNat DEF Tiled, FreeStarts
<1>1. c = [pages |-> g.pages, size |-> [t \in D |-> Size(t)], busy |-> g.busy \cup {s}]
  BY DEF Split
<1>2. /\ c.pages = g.pages /\ c.busy = g.busy \cup {s} /\ Starts(c) = D /\ End(c) = End(g)
      /\ \A t \in D : c.size[t] = Size(t)
  BY <1>1 DEF Starts, End
<1>shape. c = [pages |-> c.pages, size |-> c.size, busy |-> c.busy]
      /\ c.size = [t \in D |-> c.size[t]]
  BY <1>1
<1>. HIDE DEF c
<1>3. s < r /\ r <= NextChunk(g, s) /\ r \in Nat /\ NextChunk(g, s) \in Nat
      /\ NextChunk(g, s) = s + g.size[s]
  BY <1>0 DEF NextChunk
\* r is the start of a chunk only if the free chunk has just the right length.
<1>4. \A t \in Starts(g) : t <= s \/ NextChunk(g, s) <= t
  BY <1>0 DEF Tiled
<1>5. NextChunk(g, s) \in Starts(g) \cup {End(g)} /\ NextChunk(g, s) <= End(g)
  BY <1>0, <1>3 DEF Tiled
<1>6. \A t \in Starts(g) : t # s => Size(t) = g.size[t]
  BY <1>0, <1>3, <1>4
<1>7. r # NextChunk(g, s) => /\ r \in D /\ r # s /\ Size(r) = NextChunk(g, s) - r
                             /\ NextChunk(g, s) - r \in Nat \ {0} /\ r < End(g)
  BY <1>0, <1>3, <1>5
<1>8. ASSUME NEW t \in D
      PROVE  /\ t \in Nat \ {0} /\ t < End(g)
             /\ c.size[t] \in Nat \ {0}
             /\ NextChunk(c, t) \in D \cup {End(g)}
             /\ \A u \in D : t < u => NextChunk(c, t) <= u
             /\ t \notin c.busy => NextChunk(c, t) \in c.busy \cup {End(g)}
  <2>1. CASE t = s
    <3>1. NextChunk(c, t) = r
      BY <1>0, <1>2, <2>1 DEF NextChunk
    <3>2. r \in D \cup {End(g)}
      BY <1>5
    <3>3. \A u \in D : s < u => r <= u
      BY <1>0, <1>3, <1>4
    <3>. QED  BY <1>0, <1>2, <2>1, <3>1, <3>2, <3>3
  <2>2. CASE t = r /\ t # NextChunk(g, s)
    <3>1. NextChunk(c, t) = NextChunk(g, s) /\ c.size[t] \in Nat \ {0}
      BY <1>0, <1>2, <1>3, <1>7, <2>2 DEF NextChunk
    <3>2. \A u \in D : r < u => NextChunk(g, s) <= u
      BY <1>0, <1>3, <1>4
    <3>3. NextChunk(g, s) \in g.busy \cup {End(g)}
      BY <1>0, <1>5 DEF NoTwoFree, FreeStarts
    <3>. QED  BY <1>0, <1>2, <1>3, <1>5, <1>7, <2>2, <3>1, <3>2, <3>3
  <2>3. CASE t \in Starts(g) /\ t # s
    <3>1. c.size[t] = g.size[t] /\ NextChunk(c, t) = NextChunk(g, t)
      BY <1>2, <1>6, <2>3 DEF NextChunk
    <3>2. NextChunk(g, t) \in Starts(g) \cup {End(g)}
      BY <2>3 DEF Tiled
    <3>3. \A u \in D : t < u => NextChunk(g, t) <= u
      <4>1. t < s => NextChunk(g, t) <= s
        BY <1>0, <2>3 DEF Tiled
      <4>2. t > s => ~(t < r)
        BY <1>0, <1>3, <1>4, <2>3
      <4>3. NextChunk(g, t) \in Nat
        BY <1>0, <3>2
      <4>. QED  BY <1>0, <1>3, <2>3, <4>1, <4>2, <4>3 DEF Tiled
    <3>4. t \notin g.busy => NextChunk(g, t) \in g.busy \cup {End(g)}
      BY <2>3, <3>2 DEF NoTwoFree, FreeStarts
    <3>. QED  BY <1>0, <1>2, <2>3, <3>1, <3>2, <3>3, <3>4
  <2>. QED  BY <1>0, <2>1, <2>2, <2>3
<1>9. Tiled(c)
  <2>1. Starts(c) \subseteq 1 .. End(c) - 1
    BY <1>0, <1>2, <1>8
  <2>2. c.size \in [Starts(c) -> Nat \ {0}]
    BY <1>2, <1>shape, <1>8
  <2>. QED  BY <1>0, <1>2, <1>shape, <1>8, <2>1, <2>2 DEF Tiled
<1>10. NoTwoFree(c)
  BY <1>0, <1>2, <1>8 DEF NoTwoFree, FreeStarts
<1>11. c.size[s] = need /\ \A t \in g.busy : c.size[t] = g.size[t]
  BY <1>0, <1>2, <1>6 DEF Tiled
<1>. QED  BY <1>2, <1>9, <1>10, <1>11 DEF c

\* Growing keeps the tiling and the chunks in use.
LEMMA GrownTiled ==
  ASSUME NEW g, Tiled(g), NEW n \in Nat \ {0}
  PROVE  /\ Tiled(Grown(g, n)) /\ SameBusy(g, Grown(g, n))
         /\ Grown(g, n).pages = g.pages + n
<1> DEFINE c == Grown(g, n)
           D == Starts(g) \cup {End(g)}
<1>0. /\ Starts(g) \subseteq Nat \ {0} /\ End(g) \in Nat \ {0}
      /\ \A t \in Starts(g) : g.size[t] \in Nat \ {0} /\ t < End(g)
  BY EndNat DEF Tiled
<1>1. c = [pages |-> g.pages + n, busy |-> g.busy,
           size |-> [s \in D |-> IF s = End(g) THEN W * n ELSE g.size[s]]]
  BY DEF Grown
<1>2. /\ c.pages = g.pages + n /\ c.busy = g.busy /\ Starts(c) = D
      /\ \A t \in D : c.size[t] = IF t = End(g) THEN W * n ELSE g.size[t]
  BY <1>1 DEF Starts
<1>shape. c = [pages |-> c.pages, size |-> c.size, busy |-> c.busy]
      /\ c.size = [t \in D |-> c.size[t]]
  BY <1>1
<1>. HIDE DEF c
<1>3. W * n \in Nat \ {0} /\ End(c) = End(g) + W * n
  <2>1. g.pages \in Nat /\ n \in Nat /\ W \in Nat
    BY HeapAssumption DEF Tiled
  <2>2. W * (g.pages + n) = W * g.pages + W * n
    BY <2>1
  <2>3. W * n \in Nat /\ W <= W * n
    BY Times
  <2>4. W * g.pages \in Nat
    BY <2>1
  <2>. QED  BY <1>2, <2>2, <2>3, <2>4, HeapAssumption DEF End
<1>4. ASSUME NEW t \in D
      PROVE  /\ c.size[t] \in Nat \ {0} /\ NextChunk(c, t) \in D \cup {End(c)}
             /\ \A u \in D : t < u => NextChunk(c, t) <= u
  <2>1. CASE t = End(g)
    BY <1>0, <1>2, <1>3, <2>1 DEF NextChunk
  <2>2. CASE t \in Starts(g)
    <3>1. c.size[t] = g.size[t] /\ NextChunk(c, t) = NextChunk(g, t)
      BY <1>0, <1>2, <2>2 DEF NextChunk
    <3>2. NextChunk(g, t) \in D
      BY <2>2 DEF Tiled
    <3>3. \A u \in D : t < u => NextChunk(g, t) <= u
      BY <1>0, <2>2, <3>2 DEF Tiled
    <3>. QED  BY <1>0, <2>2, <3>1, <3>2, <3>3
  <2>. QED  BY <2>1, <2>2
<1>5. Starts(c) \subseteq 1 .. End(c) - 1
  BY <1>0, <1>2, <1>3
<1>6. c.size \in [Starts(c) -> Nat \ {0}]
  BY <1>2, <1>shape, <1>4
<1>7. c.pages \in Nat \ {0} /\ c.busy \subseteq Starts(c) /\ 1 \in Starts(c)
  BY <1>2 DEF Tiled
<1>8. \A t \in g.busy : c.size[t] = g.size[t]
  BY <1>0, <1>2 DEF Tiled
<1>. QED  BY <1>2, <1>shape, <1>4, <1>5, <1>6, <1>7, <1>8 DEF Tiled, SameBusy, c
------------------------------------------------------------------------------
(***************************************************************************)
(* Requests.                                                               *)
(***************************************************************************)
\* Requests that round up without overflow take a header, a footer and at least
\* one word, and ask for at least one page.
LEMMA Rounding ==
  ASSUME NEW bytes \in Nat \ {0}, bytes <= UIntSize - 4 * W
  PROVE  /\ Need(bytes) = PayloadWords(bytes) + 2 /\ PayloadWords(bytes) \in Nat \ {0}
         /\ bytes <= 4 * PayloadWords(bytes)
         /\ PagesFor(bytes) \in Nat \ {0}
<1> DEFINE a == bytes + 3
           b == bytes + 4 * W - 1
           w == 4 * W
<1>1. w \in Nat /\ 16 <= w /\ UIntSize \in Nat /\ a \in Nat /\ b \in Nat
      /\ a < UIntSize /\ b < UIntSize /\ w <= b
  BY HeapAssumption
<1>2. a % UIntSize = a /\ b % UIntSize = b
  <2>. HIDE DEF a, b, w
  <2>. QED  BY <1>1
<1>3. PayloadWords(bytes) = a \div 4 /\ Need(bytes) = (a \div 4) + 2
  BY <1>2 DEF PayloadWords, Need
<1>4. b \div w \in Nat \ {0}
  <2>. HIDE DEF b, w
  <2>. QED  BY <1>1
<1>5. PagesFor(bytes) = b \div w
  BY <1>2 DEF PagesFor
<1>6. a \div 4 \in Nat \ {0} /\ bytes <= 4 * (a \div 4)
  OBVIOUS
<1>. QED  BY <1>3, <1>4, <1>5, <1>6

\* k is g with one more chunk in use, that of pointer p, of the given length.
Gave(g, k, p, need) ==
  /\ p \in Nat \ {0} /\ p - 1 \notin g.busy
  /\ k.busy = g.busy \cup {p - 1} /\ k.size[p - 1] = need
  /\ \A s \in g.busy : k.size[s] = g.size[s]

LEMMA KmallocStep ==
  ASSUME NEW g, Tiled(g), NEW bytes, bytes # 0, Need(bytes) \in Nat \ {0}
  PROVE  LET k == Kmalloc(g, bytes)
         IN  /\ Tiled(k.h) /\ NoTwoFree(k.h) /\ k.h.pages = g.pages
             /\ IF k.ret = Null THEN SameBusy(g, k.h)
                ELSE Gave(g, k.h, k.ret, Need(bytes))
<1> DEFINE c == Coalesce(g)
           F == Fits(c, Need(bytes))
           s == Min(F)
<1>1. Tiled(c) /\ NoTwoFree(c) /\ SameBusy(g, c) /\ c.pages = g.pages
  BY CoalesceTiled
<1>. HIDE DEF c
<1>2. CASE F = {}
  <2>1. Kmalloc(g, bytes) = [h |-> c, ret |-> Null]
    BY <1>2 DEF Kmalloc, c
  <2>. QED  BY <1>1, <2>1
<1>3. CASE F # {}
  <2>1. F \subseteq Nat /\ F \subseteq FreeStarts(c)
    BY <1>1 DEF Fits, FreeStarts, Tiled
  <2>2. s \in F
    <3>. HIDE DEF F
    <3>. QED  BY <1>3, <2>1, MinOfNaturals
  <2>3. s \in Nat /\ s \in FreeStarts(c) /\ Need(bytes) <= c.size[s]
    BY <2>1, <2>2 DEF Fits
  <2>4. Kmalloc(g, bytes) = [h |-> Split(c, s, Need(bytes)), ret |-> s + 1]
    BY <1>3 DEF Kmalloc, c
  <2>. HIDE DEF F, s
  <2> DEFINE k == Split(c, s, Need(bytes))
  <2>5. /\ Tiled(k) /\ NoTwoFree(k) /\ k.pages = c.pages
        /\ k.busy = c.busy \cup {s} /\ k.size[s] = Need(bytes)
        /\ \A t \in c.busy : k.size[t] = c.size[t]
    BY <1>1, <2>3, SplitTiled
  <2>. HIDE DEF k
  <2>6. s + 1 # Null /\ s + 1 \in Nat \ {0} /\ (s + 1) - 1 = s /\ s \notin g.busy
    BY <1>1, <2>3 DEF Null, FreeStarts, SameBusy
  <2>7. Gave(g, k, s + 1, Need(bytes))
    BY <1>1, <2>5, <2>6 DEF Gave, SameBusy
  <2>. QED  BY <1>1, <2>4, <2>5, <2>6, <2>7 DEF k
<1>. QED  BY <1>2, <1>3

\* A heap grown by some pages, whole again.
LEMMA ExpandStep ==
  ASSUME NEW g, Tiled(g), NEW n \in Nat \ {0}
  PROVE  LET c == ExpandHeap(g, n)
         IN  Tiled(c) /\ SameBusy(g, c) /\ c.pages = g.pages + n
<1> DEFINE k == Grown(g, n)
<1>1. Tiled(k) /\ SameBusy(g, k) /\ k.pages = g.pages + n
  BY GrownTiled
<1>. HIDE DEF k
<1>2. Tiled(Coalesce(k)) /\ SameBusy(k, Coalesce(k)) /\ Coalesce(k).pages = k.pages
  BY <1>1, CoalesceTiled
<1>3. ExpandHeap(g, n) = Coalesce(k)
  BY DEF ExpandHeap, k
<1>. QED  BY <1>1, <1>2, <1>3 DEF SameBusy

LEMMA HlmallocStep ==
  ASSUME NEW g, Tiled(g), NoTwoFree(g), NEW bytes \in Sizes, NEW grows \in BOOLEAN,
         NEW r, r = Hlmalloc(g, bytes, grows)
  PROVE  /\ Tiled(r.h) /\ NoTwoFree(r.h)
         /\ r.h.pages \in {g.pages, g.pages + IF grows THEN PagesFor(bytes) ELSE 0}
         /\ r.h.pages >= g.pages
         /\ IF r.ret = Null THEN SameBusy(g, r.h)
            ELSE bytes # 0 /\ Gave(g, r.h, r.ret, Need(bytes))
<1>0. g.pages \in Nat
  BY DEF Tiled
<1>1. CASE bytes = 0
  <2>1. Hlmalloc(g, bytes, grows) = [h |-> g, ret |-> Null]
    BY <1>1 DEF Hlmalloc, Kmalloc
  <2>2. r.h = g /\ r.ret = Null
    BY <2>1
  <2>. QED  BY <1>0, <2>2 DEF SameBusy
<1>2. CASE bytes # 0
  <2> DEFINE k == Kmalloc(g, bytes)
             n == PagesFor(bytes)
             e == ExpandHeap(k.h, n)
             z == Kmalloc(e, bytes)
  <2>0. bytes \in Nat \ {0} /\ bytes <= UIntSize - 4 * W
    BY <1>2, HeapCallsAssumption, HeapAssumption
  <2>1. n \in Nat \ {0} /\ Need(bytes) \in Nat \ {0}
    BY <2>0, Rounding
  <2>2. /\ Tiled(k.h) /\ NoTwoFree(k.h) /\ k.h.pages = g.pages
        /\ IF k.ret = Null THEN SameBusy(g, k.h) ELSE Gave(g, k.h, k.ret, Need(bytes))
    BY <1>2, <2>1, KmallocStep
  <2>3. Hlmalloc(g, bytes, grows) = IF k.ret # Null \/ ~grows THEN k ELSE z
    BY <1>2 DEF Hlmalloc
  <2>4. CASE k.ret # Null \/ ~grows
    <3>. HIDE DEF k, z
    <3>1. r = k
      BY <2>3, <2>4
    <3>. QED  BY <1>0, <1>2, <2>2, <3>1
  <2>5. CASE k.ret = Null /\ grows
    <3>1. r = z
      BY <2>3, <2>5
    <3>. HIDE DEF k, n
    <3>2. Tiled(e) /\ SameBusy(k.h, e) /\ e.pages = k.h.pages + n
      BY <2>1, <2>2, ExpandStep
    <3>. HIDE DEF e
    <3>3. /\ Tiled(z.h) /\ NoTwoFree(z.h) /\ z.h.pages = e.pages
          /\ IF z.ret = Null THEN SameBusy(e, z.h) ELSE Gave(e, z.h, z.ret, Need(bytes))
      BY <1>2, <2>1, <3>2, KmallocStep
    <3>. HIDE DEF z
    <3>4. z.h.pages = g.pages + n /\ z.h.pages >= g.pages
      BY <1>0, <2>1, <2>2, <3>2, <3>3
    <3>5. SameBusy(g, e)
      BY <2>2, <2>5, <3>2 DEF SameBusy
    <3>6. IF z.ret = Null THEN SameBusy(g, z.h) ELSE Gave(g, z.h, z.ret, Need(bytes))
      BY <3>3, <3>5 DEF SameBusy, Gave
    <3>. QED  BY <1>2, <2>5, <3>1, <3>3, <3>4, <3>6 DEF n
  <2>. QED  BY <2>4, <2>5
<1>. QED  BY <1>1, <1>2
------------------------------------------------------------------------------
(***************************************************************************)
(* The inductive invariant: the chunks tile the heap, no two free chunks   *)
(* are neighbours, and the chunks in use are those of the blocks l, each   *)
(* of exactly the length its request takes.                                *)
(***************************************************************************)
Blocks(g, l) ==
  /\ g.busy = {p - 1 : p \in DOMAIN l}
  /\ \A p \in DOMAIN l : /\ p \in Nat \ {0} /\ l[p] \in Sizes \ {0}
                         /\ g.size[p - 1] = Need(l[p])

Whole(g, l) ==
  /\ Tiled(g) /\ NoTwoFree(g) /\ Blocks(g, l)
  /\ g.pages \in InitPages .. MaxPages
  /\ l = [p \in DOMAIN l |-> l[p]]

IInv == Whole(h, live) /\ call.op \in {"none", "malloc", "free"}

LEMMA SizeFacts ==
  ASSUME NEW b \in Sizes \ {0}
  PROVE  /\ b \in Nat \ {0}
         /\ Need(b) = PayloadWords(b) + 2 /\ PayloadWords(b) \in Nat \ {0}
         /\ b <= 4 * PayloadWords(b)
<1>1. b \in Nat \ {0} /\ b <= UIntSize - 4 * W
  BY HeapCallsAssumption, HeapAssumption
<1>. QED  BY <1>1, Rounding

LEMMA InvInit == Init => IInv
<1>. SUFFICES ASSUME Init PROVE IInv
  OBVIOUS
<1>1. h = NewHeap(InitPages) /\ live = [p \in {} |-> 0] /\ call.op = "none"
  BY DEF Init, NoBlocks
<1>2. DOMAIN live = {} /\ live = [p \in DOMAIN live |-> live[p]]
  BY <1>1
<1>3. Tiled(h) /\ NoTwoFree(h) /\ h.busy = {} /\ h.pages = InitPages
  BY <1>1, HeapCallsAssumption, NewHeapTiled DEF NewHeap
<1>. QED  BY <1>1, <1>2, <1>3, HeapCallsAssumption DEF IInv, Whole, Blocks

\* The blocks l and one more, unless p is null.
Given(l, p, bytes) ==
  IF p = Null THEN l
  ELSE [q \in DOMAIN l \cup {p} |-> IF q = p THEN bytes ELSE l[q]]

\* After a request the callers have one more block, or as many as before.
LEMMA RequestKeeps ==
  ASSUME NEW g, NEW l, Whole(g, l), NEW bytes \in Sizes, NEW grows \in BOOLEAN,
         grows => g.pages + PagesFor(bytes) <= MaxPages
  PROVE  LET r == Hlmalloc(g, bytes, grows)
         IN  /\ Whole(r.h, Given(l, r.ret, bytes))
             /\ r.ret # Null => r.ret \in Nat \ {0} /\ r.ret \notin DOMAIN l /\ bytes # 0
<1> DEFINE r == Hlmalloc(g, bytes, grows)
           k == Given(l, r.ret, bytes)
<1>r. r = Hlmalloc(g, bytes, grows)
  OBVIOUS
<1>. HIDE DEF r
<1>k. k = IF r.ret = Null THEN l
          ELSE [q \in DOMAIN l \cup {r.ret} |-> IF q = r.ret THEN bytes ELSE l[q]]
  BY DEF Given
<1>. HIDE DEF k
<1>1. /\ Tiled(r.h) /\ NoTwoFree(r.h)
      /\ r.h.pages \in {g.pages, g.pages + IF grows THEN PagesFor(bytes) ELSE 0}
      /\ r.h.pages >= g.pages
      /\ IF r.ret = Null THEN SameBusy(g, r.h)
         ELSE bytes # 0 /\ Gave(g, r.h, r.ret, Need(bytes))
  BY <1>r, HlmallocStep DEF Whole
<1>2. r.h.pages \in InitPages .. MaxPages
  <2>1. g.pages \in InitPages .. MaxPages /\ InitPages \in Nat /\ MaxPages \in Nat
    BY HeapCallsAssumption DEF Whole
  <2>2. r.h.pages \in Nat
    BY <1>1 DEF Tiled
  <2>. QED  BY <1>1, <2>1, <2>2
<1>3. CASE r.ret = Null
  <2>1. \A p \in DOMAIN l : p - 1 \in g.busy
    BY DEF Whole, Blocks
  <2>2. Blocks(r.h, k)
    BY <1>1, <1>3, <1>k, <2>1 DEF Whole, Blocks, SameBusy
  <2>. QED  BY <1>1, <1>2, <1>3, <1>k, <2>2 DEF Whole, k, r
<1>4. CASE r.ret # Null
  <2> DEFINE p == r.ret
             f == r.h
  <2>1. bytes # 0 /\ Gave(g, f, p, Need(bytes))
    BY <1>1, <1>4
  <2>2. k = [q \in DOMAIN l \cup {p} |-> IF q = p THEN bytes ELSE l[q]]
    BY <1>4, <1>k
  <2>. HIDE DEF p, f
  <2>3. p \in Nat \ {0} /\ p \notin DOMAIN l
    BY <2>1 DEF Whole, Blocks, Gave
  <2>4. DOMAIN k = DOMAIN l \cup {p} /\ k = [q \in DOMAIN k |-> k[q]]
    BY <2>2
  <2>5. k[p] = bytes /\ \A q \in DOMAIN l : k[q] = l[q] /\ q - 1 \in g.busy
    BY <2>2, <2>3 DEF Whole, Blocks
  <2>6. f.busy = {q - 1 : q \in DOMAIN k}
    BY <2>1, <2>4 DEF Whole, Blocks, Gave
  <2>7. Blocks(f, k)
    BY <2>1, <2>3, <2>4, <2>5, <2>6 DEF Whole, Blocks, Gave
  <2>. QED  BY <1>1, <1>2, <2>1, <2>3, <2>4, <2>7 DEF Whole, p, f, k, r
<1>. QED  BY <1>3, <1>4

\* What giving a block back does to the heap.
LEMMA ReturnKeeps ==
  ASSUME NEW g, NEW l, Whole(g, l), NEW p \in DOMAIN l \cup {Null},
         NEW k, k = [q \in DOMAIN l \ {p} |-> l[q]]
  PROVE  /\ Whole(Kfree(g, p).h, k)
         /\ p = Null => k = l
<1>1. \A q \in DOMAIN l : q \in Nat \ {0}
  BY DEF Whole, Blocks
<1>2. CASE p = Null
  <2>1. DOMAIN l \ {p} = DOMAIN l
    BY <1>1, <1>2 DEF Null
  <2>2. k = l
    BY <2>1 DEF Whole
  <2>3. Kfree(g, p).h = g
    BY <1>2 DEF Kfree
  <2>. QED  BY <2>2, <2>3
<1>3. CASE p # Null
  <2> DEFINE c == [g EXCEPT !.busy = @ \ {p - 1}]
             f == Kfree(g, p).h
  <2>1. p \in DOMAIN l /\ p \in Nat \ {0} /\ l[p] \in Sizes \ {0}
        /\ p - 1 \in g.busy /\ g.size[p - 1] = Need(l[p])
    BY <1>1, <1>3 DEF Whole, Blocks
  <2>2. p < End(g)
    <3>1. p - 1 \in Starts(g) /\ NextChunk(g, p - 1) \in Starts(g) \cup {End(g)}
      BY <2>1 DEF Whole, Tiled
    <3>2. NextChunk(g, p - 1) \in Nat /\ NextChunk(g, p - 1) > p
      BY <2>1, SizeFacts DEF NextChunk
    <3>3. End(g) \in Nat /\ \A s \in Starts(g) : s < End(g)
      BY EndNat DEF Whole, Tiled
    <3>. QED  BY <2>1, <3>1, <3>2, <3>3
  <2>3. f = Coalesce(c)
    <3>1. End(g) \in Nat
      BY EndNat DEF Whole, Tiled
    <3>. QED  BY <1>3, <2>1, <2>2, <3>1 DEF Kfree
  <2>4. Tiled(c) /\ c.busy = g.busy \ {p - 1} /\ c.size = g.size /\ c.pages = g.pages
    BY GiveBackTiled DEF Whole
  <2>. HIDE DEF c, f
  <2>5. /\ Tiled(f) /\ NoTwoFree(f) /\ SameBusy(c, f) /\ f.pages = c.pages
    BY <2>3, <2>4, CoalesceTiled
  <2>6. DOMAIN k = DOMAIN l \ {p} /\ k = [q \in DOMAIN k |-> k[q]]
        /\ \A q \in DOMAIN k : k[q] = l[q]
    OBVIOUS
  <2>7. f.busy = {q - 1 : q \in DOMAIN k}
    BY <1>1, <2>1, <2>4, <2>5, <2>6 DEF Whole, Blocks, SameBusy
  <2>8. ASSUME NEW q \in DOMAIN k
        PROVE  /\ q \in Nat \ {0} /\ k[q] \in Sizes \ {0}
               /\ f.size[q - 1] = Need(k[q])
    <3>1. /\ q \in DOMAIN l /\ k[q] = l[q] /\ q - 1 \in f.busy
          /\ q \in Nat \ {0} /\ l[q] \in Sizes \ {0}
          /\ g.size[q - 1] = Need(l[q])
      BY <2>6, <2>7 DEF Whole, Blocks
    <3>2. f.size[q - 1] = g.size[q - 1]
      BY <2>4, <2>5, <3>1 DEF SameBusy
    <3>. QED  BY <3>1, <3>2
  <2>9. Blocks(f, k)
    BY <2>7, <2>8 DEF Blocks
  <2>. QED  BY <1>3, <2>4, <2>5, <2>6, <2>9 DEF Whole, f
<1>. QED  BY <1>2, <1>3

\* What a request does to the heap and to the blocks.
LEMMA MallocStep ==
  ASSUME IInv, NEW bytes \in Sizes, NEW grows \in BOOLEAN, Malloc(bytes, grows)
  PROVE  /\ IInv'
         /\ \/ live' = live
            \/ \E p \in Nat \ {0} :
                 /\ p \notin DOMAIN live /\ bytes # 0
                 /\ live' = [q \in DOMAIN live \cup {p} |-> IF q = p THEN bytes ELSE live[q]]
<1> DEFINE r == Hlmalloc(h, bytes, grows)
<1>1. /\ grows => h.pages + PagesFor(bytes) <= MaxPages
      /\ h' = r.h /\ call'.op = "malloc"
      /\ live' = Given(live, r.ret, bytes)
  BY DEF Malloc, Give, Given
<1>2. /\ Whole(r.h, live')
      /\ r.ret # Null => r.ret \in Nat \ {0} /\ r.ret \notin DOMAIN live /\ bytes # 0
  BY <1>1, RequestKeeps DEF IInv
<1>. HIDE DEF r
<1>. QED  BY <1>1, <1>2 DEF IInv, Given

\* What giving a block back does.
LEMMA FreeStep ==
  ASSUME IInv, NEW p \in DOMAIN live \cup {Null}, Free(p)
  PROVE  /\ IInv' /\ live' = [q \in DOMAIN live \ {p} |-> live[q]]
         /\ p = Null => live' = live
<1>1. /\ h' = Kfree(h, p).h /\ live' = [q \in DOMAIN live \ {p} |-> live[q]]
      /\ call'.op = "free"
  BY DEF Free, TakeBack
<1>2. Whole(h', live') /\ (p = Null => live' = live)
  BY <1>1, ReturnKeeps DEF IInv
<1>. QED  BY <1>1, <1>2 DEF IInv

LEMMA InvNext == IInv /\ [Next]_vars => IInv'
<1>. SUFFICES ASSUME IInv, [Next]_vars PROVE IInv'
  OBVIOUS
<1>1. ASSUME NEW bytes \in Sizes, NEW grows \in BOOLEAN, Malloc(bytes, grows)
      PROVE  IInv'
  BY <1>1, MallocStep
<1>2. ASSUME NEW p \in DOMAIN live \cup {Null}, Free(p) PROVE IInv'
  BY <1>2, FreeStep
<1>3. CASE UNCHANGED vars
  BY <1>3 DEF vars, IInv, Whole
<1>. QED  BY <1>1, <1>2, <1>3 DEF Next
------------------------------------------------------------------------------
\* The variables have their types; in particular the heap never outgrows the
\* pages it may have.
THEOREM TypeCorrect == Spec => []TypeOK
<1>1. IInv => TypeOK
  <2>. SUFFICES ASSUME IInv PROVE TypeOK
    OBVIOUS
  <2>1. Starts(h) \subseteq Nat \ {0} /\ h.size \in [Starts(h) -> Nat \ {0}]
        /\ End(h) \in Nat /\ h.pages \in Nat
    BY EndNat DEF IInv, Whole, Tiled
  <2>2. End(h) <= W * MaxPages /\ W * MaxPages \in Nat
    <3>1. W * h.pages <= W * MaxPages /\ W * h.pages \in Nat /\ W * MaxPages \in Nat
      BY <2>1, Times, HeapAssumption, HeapCallsAssumption DEF IInv, Whole
    <3>. QED  BY <3>1 DEF End
  <2>3. \A s \in Starts(h) : h.size[s] <= End(h)
    <3>. SUFFICES ASSUME NEW s \in Starts(h) PROVE h.size[s] <= End(h)
      OBVIOUS
    <3>1. s + h.size[s] \in Starts(h) \cup {End(h)}
      BY DEF IInv, Whole, Tiled, NextChunk
    <3>2. \A t \in Starts(h) : t <= End(h)
      BY <2>1 DEF IInv, Whole, Tiled
    <3>. QED  BY <2>1, <3>1, <3>2
  <2>4. h.size \in [Starts(h) -> 1 .. W * MaxPages]
    BY <2>1, <2>2, <2>3
  <2>5. live \in [DOMAIN live -> Sizes]
    BY DEF IInv, Whole, Blocks
  <2>. QED  BY <2>1, <2>4, <2>5 DEF IInv, Whole, Tiled, TypeOK
<1>. QED  BY InvInit, InvNext, <1>1, PTL DEF Spec

\* Every walk over the heap meets chunk after chunk and stops at the end.
THEOREM ChunksAlwaysTile == Spec => []ChunksTile
<1>1. IInv => ChunksTile
  BY DEF IInv, Whole, Tiled, ChunksTile
<1>. QED  BY InvInit, InvNext, <1>1, PTL DEF Spec

\* The chunks in use are those of the blocks that callers hold, and hold them.
THEOREM BusyIsAlwaysLive == Spec => []BusyIsLive
<1>1. IInv => BusyIsLive
  <2>. SUFFICES ASSUME IInv PROVE BusyIsLive
    OBVIOUS
  <2>1. ASSUME NEW p \in DOMAIN live PROVE live[p] <= 4 * (h.size[p - 1] - 2)
    <3>1. live[p] \in Sizes \ {0} /\ h.size[p - 1] = Need(live[p])
      BY DEF IInv, Whole, Blocks
    <3>2. live[p] \in Nat /\ h.size[p - 1] - 2 = PayloadWords(live[p])
          /\ live[p] <= 4 * PayloadWords(live[p])
      BY <3>1, SizeFacts
    <3>. QED  BY <3>2
  <2>. QED  BY <2>1 DEF IInv, Whole, Blocks, BusyIsLive
<1>. QED  BY InvInit, InvNext, <1>1, PTL DEF Spec

\* After every call the free chunks are as large as they can be.
THEOREM FreeChunksAreMerged == Spec => []NoFreeNeighbours
<1>1. IInv => NoFreeNeighbours
  BY DEF IInv, Whole, NoTwoFree, NoFreeNeighbours
<1>. QED  BY InvInit, InvNext, <1>1, PTL DEF Spec

\* A heap whose blocks have all been freed is one free chunk, whatever has
\* happened to it.
THEOREM NothingEverLeaks == Spec => []NothingLeaks
<1>1. IInv => NothingLeaks
  <2>. SUFFICES ASSUME IInv, live = [p \in {} |-> 0] PROVE Starts(h) = {1}
    BY DEF NothingLeaks, NoBlocks
  <2>1. h.busy = {} /\ FreeStarts(h) = Starts(h)
    BY DEF IInv, Whole, Blocks, FreeStarts
  <2>2. ASSUME NEW t \in Starts(h), t # 1 PROVE FALSE
    <3>1. PICK s \in Starts(h) : NextChunk(h, s) = t
      BY <2>2, Predecessor DEF IInv, Whole
    <3>. QED  BY <2>1, <3>1 DEF IInv, Whole, NoTwoFree
  <2>. QED  BY <2>2 DEF IInv, Whole, Tiled
<1>. QED  BY InvInit, InvNext, <1>1, PTL DEF Spec

\* The words of a block that callers may use lie inside its chunk, so that those
\* of two blocks are apart.
LEMMA BlocksApart ==
  ASSUME NEW g, NEW l, Tiled(g), Blocks(g, l), NEW p \in DOMAIN l, NEW q \in DOMAIN l
  PROVE  /\ PayloadWords(l[p]) \in Nat /\ p + PayloadWords(l[p]) <= End(g)
         /\ p < q => p + PayloadWords(l[p]) < q
<1>1. /\ p \in Nat \ {0} /\ p - 1 \in Starts(g) /\ q \in Nat \ {0} /\ q - 1 \in Starts(g)
      /\ l[p] \in Sizes \ {0} /\ g.size[p - 1] = Need(l[p])
  BY DEF Blocks, Tiled
<1>2. /\ PayloadWords(l[p]) \in Nat /\ NextChunk(g, p - 1) \in Nat
      /\ p + PayloadWords(l[p]) < NextChunk(g, p - 1)
  BY <1>1, SizeFacts DEF NextChunk
<1>3. NextChunk(g, p - 1) <= End(g)
  <2>1. End(g) \in Nat
    BY EndNat DEF Tiled
  <2>. QED  BY <1>1, <2>1 DEF Tiled
<1>4. p < q => NextChunk(g, p - 1) <= q - 1
  BY <1>1 DEF Tiled
<1>5. End(g) \in Nat
  BY EndNat DEF Tiled
<1>. QED  BY <1>1, <1>2, <1>3, <1>4, <1>5

\* The blocks that callers hold never overlap, and a block is where it is until
\* it is freed: the heap implements the allocator.
THEOREM ImplementsAlloc == Spec => ImplementsAllocator
<1>1. Init => Alloc!AInit
  BY DEF Init, NoBlocks, Alloc!AInit
<1>2. IInv /\ IInv' /\ [Next]_vars => [Alloc!ANext]_live
  <2>. SUFFICES ASSUME IInv, IInv', Next, live' # live PROVE Alloc!ANext
    BY DEF vars
  <2>1. ASSUME NEW bytes \in Sizes, NEW grows \in BOOLEAN, Malloc(bytes, grows)
        PROVE  Alloc!ANext
    <3>1. PICK p \in Nat \ {0} :
            /\ p \notin DOMAIN live /\ bytes # 0
            /\ live' = [q \in DOMAIN live \cup {p} |-> IF q = p THEN bytes ELSE live[q]]
      BY <2>1, MallocStep
    <3>2. DOMAIN live' = DOMAIN live \cup {p} /\ live'[p] = bytes
          /\ \A q \in DOMAIN live : live'[q] = live[q]
      BY <3>1
    <3>3. Tiled(h') /\ Blocks(h', live')
      BY DEF IInv, Whole
    <3>4. p \in 1 .. W * MaxPages
      <4>1. PayloadWords(bytes) \in Nat /\ p + PayloadWords(bytes) <= End(h')
        BY <3>2, <3>3, BlocksApart
      <4>2. h'.pages \in Nat /\ MaxPages \in Nat /\ h'.pages <= MaxPages
        BY HeapCallsAssumption DEF IInv, Whole, Tiled
      <4>3. W * h'.pages <= W * MaxPages /\ W * h'.pages \in Nat /\ W * MaxPages \in Nat
        BY <4>2, Times, HeapAssumption
      <4>. QED  BY <3>1, <4>1, <4>3 DEF End
    <3>5. ASSUME NEW q \in DOMAIN live
          PROVE  Alloc!Extent(p, bytes) \cap Alloc!Extent(q, live[q]) = {}
      <4>1. /\ PayloadWords(bytes) \in Nat /\ PayloadWords(live[q]) \in Nat
            /\ p < q => p + PayloadWords(bytes) < q
            /\ q < p => q + PayloadWords(live[q]) < p
        BY <3>2, <3>3, <3>5, BlocksApart
      <4>2. q \in Nat /\ q # p
        BY <3>1, <3>5 DEF IInv, Whole, Blocks
      <4>. QED  BY <3>1, <4>1, <4>2 DEF Alloc!Extent
    <3>. QED  BY <3>1, <3>4, <3>5 DEF Alloc!ANext, Alloc!AMalloc
  <2>2. ASSUME NEW p \in DOMAIN live \cup {Null}, Free(p)
        PROVE  Alloc!ANext
    BY <2>2, FreeStep DEF Alloc!ANext, Alloc!AFree
  <2>. QED  BY <2>1, <2>2 DEF Next
<1>. QED  BY InvInit, InvNext, <1>1, <1>2, PTL DEF Spec, ImplementsAllocator, Alloc!ASpec
------------------------------------------------------------------------------
(***************************************************************************)
(* Refusals.  No free chunk is long enough, and since no two free chunks   *)
(* are neighbours every stretch of words that is as long as the request    *)
(* meets a chunk in use.                                                   *)
(***************************************************************************)
Refuses(g, bytes) == \A s \in FreeStarts(g) : g.size[s] < Need(bytes)
HasRoom(g, words) == \E s \in FreeStarts(g) : words <= g.size[s]

LEMMA KmallocRefusal ==
  ASSUME NEW g, Tiled(g), NEW bytes, bytes # 0, Need(bytes) \in Nat \ {0},
         Kmalloc(g, bytes).ret = Null
  PROVE  Kmalloc(g, bytes).h = Coalesce(g) /\ Refuses(Coalesce(g), bytes)
<1> DEFINE c == Coalesce(g)
           F == Fits(c, Need(bytes))
<1>1. Tiled(c)
  BY CoalesceTiled
<1>. HIDE DEF c
<1>2. F \subseteq Nat
  BY <1>1 DEF Fits, FreeStarts, Tiled
<1>3. F = {}
  <2>. SUFFICES ASSUME F # {} PROVE FALSE
    OBVIOUS
  <2>1. Min(F) \in Nat
    <3>. HIDE DEF F
    <3>. QED  BY <1>2, MinOfNaturals
  <2>2. Kmalloc(g, bytes).ret = Min(F) + 1
    BY DEF Kmalloc, c
  <2>. HIDE DEF F
  <2>. QED  BY <2>1, <2>2 DEF Null
<1>4. Kmalloc(g, bytes) = [h |-> c, ret |-> Null]
  BY <1>3 DEF Kmalloc, c
<1>5. \A s \in FreeStarts(c) : c.size[s] \in Nat
  BY <1>1 DEF FreeStarts, Tiled
<1>. QED  BY <1>3, <1>4, <1>5 DEF Refuses, Fits, c

\* A free chunk that is kept is at least as long after a merge as before.
LEMMA KeptIsLonger ==
  ASSUME NEW g, Tiled(g), NEW s \in Kept(g) \ g.busy
  PROVE  /\ s \in FreeStarts(Coalesce(g)) /\ Coalesce(g).size[s] = After(g, s) - s
         /\ After(g, s) \in Nat /\ NextChunk(g, s) <= After(g, s)
<1>1. Coalesce(g) = [pages |-> g.pages, busy |-> g.busy,
           size |-> [t \in Kept(g) |-> IF t \in g.busy THEN g.size[t] ELSE After(g, t) - t]]
  BY DEF Coalesce, Tiled
<1>2. s \in Starts(g) /\ Kept(g) \subseteq Starts(g) /\ Starts(g) \subseteq Nat /\ End(g) \in Nat
  BY EndNat DEF Kept, Tiled
<1>3. After(g, s) \in Starts(g) \cup {End(g)} /\ s < After(g, s)
  BY <1>2, AfterIsNext
<1>4. NextChunk(g, s) \in Starts(g) \cup {End(g)} /\ \A t \in Starts(g) : t < End(g)
  BY <1>2 DEF Tiled
<1>5. NextChunk(g, s) <= After(g, s)
  BY <1>2, <1>3, <1>4 DEF Tiled
<1>. QED  BY <1>1, <1>2, <1>3, <1>5 DEF FreeStarts, Starts

LEMMA MergedKeepsRoom ==
  ASSUME NEW g, Tiled(g), NoTwoFree(g), NEW words \in Nat, HasRoom(g, words)
  PROVE  HasRoom(Coalesce(g), words)
<1>1. PICK s \in FreeStarts(g) : words <= g.size[s]
  BY DEF HasRoom
<1>2. s \in Kept(g) \ g.busy /\ s \in Nat /\ g.size[s] \in Nat
  BY DEF FreeStarts, Kept, Absorbed, NoTwoFree, Tiled
<1>3. s \in FreeStarts(Coalesce(g)) /\ Coalesce(g).size[s] = After(g, s) - s
      /\ After(g, s) \in Nat /\ s + g.size[s] <= After(g, s)
  BY <1>2, KeptIsLonger DEF NextChunk
<1>. QED  BY <1>1, <1>2, <1>3 DEF HasRoom

\* A heap that has grown has a free chunk as long as what it has grown by.
LEMMA GrownHasRoom ==
  ASSUME NEW g, Tiled(g), NoTwoFree(g), NEW n \in Nat \ {0}
  PROVE  HasRoom(ExpandHeap(g, n), W * n)
<1> DEFINE k == Grown(g, n)
           e == End(g)
<1>1. Tiled(k) /\ Tiled(Coalesce(k))
  BY GrownTiled, CoalesceTiled
<1>2. e \in Nat /\ \A s \in Starts(g) : s \in Nat /\ s < e /\ g.size[s] \in Nat
  BY EndNat DEF Tiled
<1>3. /\ k.busy = g.busy /\ Starts(k) = Starts(g) \cup {e} /\ k.size[e] = W * n
      /\ \A s \in Starts(g) : k.size[s] = g.size[s]
  BY <1>2 DEF Grown, Starts
<1>4. W * n \in Nat
  BY Times
<1>5. e \in Starts(k) \ k.busy /\ NextChunk(k, e) = e + W * n
  BY <1>2, <1>3 DEF Tiled, NextChunk
<1>6. ExpandHeap(g, n) = Coalesce(k)
  BY DEF ExpandHeap
<1>. HIDE DEF k
<1>7. CASE e \in Kept(k)
  <2>1. e \in FreeStarts(Coalesce(k)) /\ Coalesce(k).size[e] = After(k, e) - e
        /\ After(k, e) \in Nat /\ e + W * n <= After(k, e)
    BY <1>1, <1>5, <1>7, KeptIsLonger
  <2>. QED  BY <1>2, <1>4, <1>6, <2>1 DEF HasRoom
<1>8. CASE e \notin Kept(k)
  <2>1. PICK t \in FreeStarts(k) : NextChunk(k, t) = e
    BY <1>5, <1>8 DEF Kept, Absorbed, FreeStarts
  <2>2. t \in FreeStarts(g) /\ t < e /\ t \in Nat
    <3>1. t # e
      <4>1. W * n # 0
        BY HeapAssumption, Times
      <4>. QED  BY <1>2, <1>4, <1>5, <2>1, <4>1
    <3>. QED  BY <1>2, <1>3, <2>1, <3>1 DEF FreeStarts
  <2>3. t \in Kept(k) \ k.busy
    <3>1. \A u \in FreeStarts(k) : NextChunk(k, u) # t
      <4>. SUFFICES ASSUME NEW u \in FreeStarts(k), NextChunk(k, u) = t PROVE FALSE
        OBVIOUS
      <4>1. u # e
        BY <1>2, <1>4, <1>5, <2>2
      <4>2. u \in FreeStarts(g) /\ NextChunk(g, u) = t
        BY <1>3, <4>1 DEF FreeStarts, NextChunk
      <4>. QED  BY <2>2, <4>2 DEF NoTwoFree
    <3>. QED  BY <2>1, <3>1 DEF Kept, Absorbed, FreeStarts
  <2>4. t \in FreeStarts(Coalesce(k)) /\ Coalesce(k).size[t] = After(k, t) - t
        /\ After(k, t) \in Nat /\ e <= After(k, t)
    BY <1>1, <2>1, <2>3, KeptIsLonger
  <2>5. After(k, t) \in Kept(k) \cup {End(k)}
    BY <1>1, <2>3, AfterIsNext DEF Kept
  <2>6. After(k, t) # e /\ End(k) \in Nat /\ \A s \in Starts(k) : s < End(k)
    BY <1>1, <1>5, <1>8, <2>5, EndNat DEF Tiled
  <2>7. e + W * n <= After(k, t)
    <3>1. e + W * n \in Starts(k) \cup {End(k)}
      BY <1>1, <1>5 DEF Tiled
    <3>2. \A s \in Starts(k) : e < s => e + W * n <= s
      BY <1>1, <1>5 DEF Tiled
    <3>3. After(k, t) \in Starts(k) \/ After(k, t) = End(k)
      BY <2>5 DEF Kept
    <3>. QED  BY <1>2, <1>4, <2>4, <2>6, <3>1, <3>2, <3>3
  <2>. QED  BY <1>2, <1>4, <1>6, <2>2, <2>4, <2>7 DEF HasRoom
<1>. QED  BY <1>7, <1>8

\* What is true of a heap when hlmalloc has refused a request.
LEMMA HlmallocRefusal ==
  ASSUME NEW g, Tiled(g), NoTwoFree(g), NEW bytes \in Sizes, bytes # 0, NEW grows \in BOOLEAN,
         NEW r, r = Hlmalloc(g, bytes, grows), r.ret = Null
  PROVE  Refuses(r.h, bytes) /\ (grows => HasRoom(r.h, W * PagesFor(bytes)))
<1> DEFINE k == Kmalloc(g, bytes)
           n == PagesFor(bytes)
           e == ExpandHeap(k.h, n)
           z == Kmalloc(e, bytes)
<1>1. n \in Nat \ {0} /\ Need(bytes) \in Nat \ {0}
  <2>1. bytes \in Nat \ {0} /\ bytes <= UIntSize - 4 * W
    BY HeapCallsAssumption, HeapAssumption
  <2>. QED  BY <2>1, Rounding
<1>2. Tiled(k.h) /\ NoTwoFree(k.h)
  BY <1>1, KmallocStep
<1>3. r = IF k.ret # Null \/ ~grows THEN k ELSE z
  BY DEF Hlmalloc
<1>4. CASE ~grows
  <2>1. r = k
    BY <1>3, <1>4
  <2>. QED  BY <1>1, <1>4, <2>1, KmallocRefusal
<1>5. CASE grows
  <2>1. k.ret = Null /\ r = z
    <3>. HIDE DEF k, z
    <3>. QED  BY <1>3, <1>5
  <2>. HIDE DEF k, n
  <2>2. Tiled(e)
    BY <1>1, <1>2, ExpandStep
  <2>3. NoTwoFree(e)
    <3>1. Tiled(Grown(k.h, n))
      BY <1>1, <1>2, GrownTiled
    <3>. QED  BY <3>1, CoalesceTiled DEF ExpandHeap
  <2>4. HasRoom(e, W * n) /\ W * n \in Nat
    <3>1. W * n \in Nat
      <4>1. n \in Nat /\ n <= n
        BY <1>1
      <4>. QED  BY <4>1, Times
    <3>2. HasRoom(e, W * n)
      BY <1>1, <1>2, GrownHasRoom
    <3>. QED  BY <3>1, <3>2
  <2>. HIDE DEF e
  <2>5. z.ret = Null
    BY <2>1
  <2>6. z.h = Coalesce(e) /\ Refuses(Coalesce(e), bytes)
    BY <1>1, <2>2, <2>5, KmallocRefusal
  <2>7. HasRoom(Coalesce(e), W * n)
    BY <2>2, <2>3, <2>4, MergedKeepsRoom
  <2>. HIDE DEF z
  <2>. QED  BY <2>1, <2>6, <2>7 DEF n
<1>. QED  BY <1>4, <1>5

\* A stretch of as many words as are needed meets a block.
LEMMA NoGap ==
  ASSUME NEW g, NEW l, Tiled(g), NoTwoFree(g), Blocks(g, l),
         NEW bytes, Need(bytes) \in Nat \ {0}, Refuses(g, bytes),
         NEW s \in 1 .. End(g) - Need(bytes)
  PROVE  \E p \in DOMAIN l : \E w \in s .. s + Need(bytes) - 1 :
           w \in p - 1 .. p - 2 + Need(l[p])
<1> DEFINE need == Need(bytes)
           B == {t \in Starts(g) : t <= s}
<1>1. /\ End(g) \in Nat /\ Starts(g) \subseteq Nat /\ 1 \in Starts(g) /\ s \in Nat
      /\ \A t \in Starts(g) : g.size[t] \in Nat \ {0} /\ t < End(g)
      /\ s + need <= End(g) /\ 1 <= s
  BY EndNat DEF Tiled
<1>. HIDE DEF need
<1>2. B \subseteq 0 .. s /\ B # {}
  BY <1>1
<1>3. Max(B) \in B /\ \A y \in B : Max(B) >= y
  <2>. HIDE DEF B
  <2>. QED  BY <1>1, <1>2, MaxOfNaturals
<1>4. PICK t \in Starts(g) : t <= s /\ \A y \in Starts(g) : y <= s => y <= t
  BY <1>3
<1>5. /\ t \in Nat /\ NextChunk(g, t) = t + g.size[t] /\ NextChunk(g, t) \in Nat
      /\ NextChunk(g, t) \in Starts(g) \cup {End(g)}
  BY <1>1 DEF NextChunk, Tiled
<1>6. s < NextChunk(g, t)
  BY <1>1, <1>4, <1>5
\* A chunk in use is a block with its header and its footer.
<1>7. ASSUME NEW u \in g.busy
      PROVE  \E p \in DOMAIN l : u = p - 1 /\ p \in Nat /\ NextChunk(g, u) = p - 1 + Need(l[p])
                                 /\ Need(l[p]) \in Nat \ {0}
  <2>1. PICK p \in DOMAIN l : u = p - 1
    BY DEF Blocks
  <2>. QED  BY <1>1, <2>1 DEF Blocks, NextChunk, Tiled
<1>8. CASE t \in g.busy
  <2>1. PICK p \in DOMAIN l : t = p - 1 /\ p \in Nat /\ NextChunk(g, t) = p - 1 + Need(l[p])
                              /\ Need(l[p]) \in Nat \ {0}
    BY <1>7, <1>8
  <2>2. s \in p - 1 .. p - 2 + Need(l[p])
    BY <1>1, <1>4, <1>6, <2>1
  <2>3. s \in s .. s + need - 1
    BY <1>1 DEF need
  <2>. QED  BY <2>2, <2>3 DEF need
<1>9. CASE t \notin g.busy
  <2> DEFINE u == NextChunk(g, t)
  <2>1. g.size[t] < need /\ t \in FreeStarts(g)
    BY <1>9 DEF Refuses, FreeStarts, need
  <2>2. u < s + need /\ u \in Starts(g)
    BY <1>1, <1>4, <1>5, <2>1 DEF need
  <2>3. u \in g.busy
    BY <2>1, <2>2 DEF NoTwoFree, FreeStarts
  <2>. HIDE DEF u
  <2>4. PICK p \in DOMAIN l : u = p - 1 /\ p \in Nat /\ NextChunk(g, u) = p - 1 + Need(l[p])
                              /\ Need(l[p]) \in Nat \ {0}
    BY <1>7, <2>3
  <2>5. u \in p - 1 .. p - 2 + Need(l[p])
    BY <2>4
  <2>6. u \in s .. s + need - 1
    BY <1>1, <1>5, <1>6, <2>2 DEF u, need
  <2>. QED  BY <2>4, <2>5, <2>6 DEF need
<1>. QED  BY <1>8, <1>9

RefusalInv ==
  call.op = "malloc" /\ call.ret = Null /\ call.bytes # 0 =>
    /\ call.bytes \in Sizes /\ Refuses(h, call.bytes)
    /\ call.grows => HasRoom(h, W * PagesFor(call.bytes))

\* A request is refused only when it fits into no gap between the blocks, and after the
\* heap has grown for it only when header and footer do not fit into the new pages
\* (memManager.cpp:103-140, kernelMem.cpp:50-60).
THEOREM RefusalsAreJustified == Spec => []RefusalIsJustified
<1>1. Init => RefusalInv
  BY DEF Init, RefusalInv
<1>2. IInv /\ RefusalInv /\ [Next]_vars => RefusalInv'
  <2>. SUFFICES ASSUME IInv, RefusalInv, [Next]_vars PROVE RefusalInv'
    OBVIOUS
  <2>1. ASSUME NEW bytes \in Sizes, NEW grows \in BOOLEAN, Malloc(bytes, grows)
        PROVE  RefusalInv'
    <3> DEFINE r == Hlmalloc(h, bytes, grows)
    <3>1. /\ h' = r.h
          /\ call' = [op |-> "malloc", bytes |-> bytes, grows |-> grows, ret |-> r.ret]
      BY <2>1 DEF Malloc
    <3>2. r.ret = Null /\ bytes # 0 =>
            Refuses(r.h, bytes) /\ (grows => HasRoom(r.h, W * PagesFor(bytes)))
      BY HlmallocRefusal DEF IInv, Whole
    <3>. HIDE DEF r
    <3>. QED  BY <3>1, <3>2 DEF RefusalInv
  <2>2. ASSUME NEW p \in DOMAIN live \cup {Null}, Free(p) PROVE RefusalInv'
    BY <2>2 DEF Free, RefusalInv
  <2>3. CASE UNCHANGED vars
    BY <2>3 DEF vars, RefusalInv
  <2>. QED  BY <2>1, <2>2, <2>3 DEF Next
<1>3. IInv /\ RefusalInv => RefusalIsJustified
  <2>. SUFFICES ASSUME IInv, RefusalInv, call.op = "malloc", call.ret = Null, call.bytes # 0
                PROVE  /\ \A s \in 1 .. End(h) - Need(call.bytes) :
                            \E p \in DOMAIN live :
                              Footprint(p) \cap (s .. s + Need(call.bytes) - 1) # {}
                       /\ call.grows => Need(call.bytes) > W * PagesFor(call.bytes)
    BY DEF RefusalIsJustified
  <2>1. /\ call.bytes \in Sizes /\ Refuses(h, call.bytes)
        /\ call.grows => HasRoom(h, W * PagesFor(call.bytes))
        /\ Tiled(h) /\ NoTwoFree(h) /\ Blocks(h, live)
    BY DEF IInv, Whole, RefusalInv
  <2>2. Need(call.bytes) \in Nat \ {0} /\ PagesFor(call.bytes) \in Nat \ {0}
    <3>1. call.bytes \in Nat \ {0} /\ call.bytes <= UIntSize - 4 * W
      <4>1. call.bytes \in 0 .. UIntSize - 4 * W
        BY <2>1, HeapCallsAssumption
      <4>. QED  BY <4>1, HeapAssumption
    <3>. QED  BY <3>1, Rounding
  <2>3. \A s \in 1 .. End(h) - Need(call.bytes) :
          \E p \in DOMAIN live : Footprint(p) \cap (s .. s + Need(call.bytes) - 1) # {}
    BY <2>1, <2>2, NoGap DEF Footprint
  <2>4. call.grows => Need(call.bytes) > W * PagesFor(call.bytes)
    <3>. SUFFICES ASSUME call.grows PROVE Need(call.bytes) > W * PagesFor(call.bytes)
      OBVIOUS
    <3>1. PICK s \in FreeStarts(h) : W * PagesFor(call.bytes) <= h.size[s]
      BY <2>1 DEF HasRoom
    <3>2. h.size[s] < Need(call.bytes) /\ h.size[s] \in Nat
      BY <2>1 DEF Refuses, FreeStarts, Tiled
    <3>3. W * PagesFor(call.bytes) \in Nat
      BY <2>2, Times
    <3>. QED  BY <2>2, <3>1, <3>2, <3>3
  <2>. QED  BY <2>3, <2>4
<1>. QED  BY InvInit, InvNext, <1>1, <1>2, <1>3, PTL DEF Spec
------------------------------------------------------------------------------
(***************************************************************************)
(* The words.  m spells g if every chunk of g has its header and its       *)
(* footer in m.                                                            *)
(***************************************************************************)
\* The word at either end of the chunk at s.
HeaderOf(g, s) == Chunk(g.size[s], IF s \in g.busy THEN 1 ELSE 0)

\* The ends of the heap and of its chunks are written in m.
Spells(m, g) ==
  /\ m \in [Addresses -> Words]
  /\ g.pages <= MaxPages
  /\ m[0] = HeapMark(g.pages) /\ m[End(g)] = HeapMark(-g.pages)
  /\ \A s \in Starts(g) : m[s] = HeaderOf(g, s) /\ m[NextChunk(g, s) - 1] = HeaderOf(g, s)

\* A word says the length and the use that it was made from.
LEMMA ChunkIs ==
  ASSUME NEW n \in Nat, NEW a \in {0, 1}
  PROVE  SizeOf(Chunk(n, a)) = n /\ (InUse(Chunk(n, a)) <=> a = 1)
<1>1. Chunk(n, a).n = 4 * n + a
  BY DEF Chunk
<1>2. (4 * n + a) \div 4 = n
  OBVIOUS
<1>3. (4 * n + a) % 2 = a
  OBVIOUS
<1>. QED  BY <1>1, <1>2, <1>3 DEF SizeOf, InUse

\* The words of a heap are words of memory.
LEMMA WordsOfHeap ==
  ASSUME NEW g, Tiled(g), g.pages <= MaxPages
  PROVE  /\ End(g) \in Nat /\ End(g) >= 3 /\ 0 .. End(g) \subseteq Addresses
         /\ \A s \in Starts(g) : /\ s \in 1 .. End(g) - 1 /\ g.size[s] \in Nat \ {0}
                                 /\ NextChunk(g, s) = s + g.size[s]
                                 /\ NextChunk(g, s) \in 2 .. End(g)
<1>1. End(g) \in Nat /\ End(g) >= 3
  BY EndNat DEF Tiled
<1>2. g.pages \in Nat /\ MaxPages \in Nat
  BY HeapCallsAssumption DEF Tiled
<1>3. W * g.pages \in Nat /\ W * MaxPages \in Nat /\ W * g.pages <= W * MaxPages
  BY <1>2, Times, HeapAssumption
<1>4. 0 .. End(g) \subseteq Addresses
  BY <1>1, <1>3 DEF Addresses, End
<1>5. ASSUME NEW s \in Starts(g)
      PROVE  /\ s \in 1 .. End(g) - 1 /\ g.size[s] \in Nat \ {0}
             /\ NextChunk(g, s) = s + g.size[s] /\ NextChunk(g, s) \in 2 .. End(g)
  <2>1. s \in 1 .. End(g) - 1 /\ g.size[s] \in Nat \ {0} /\ NextChunk(g, s) = s + g.size[s]
    BY DEF Tiled, NextChunk
  <2>2. NextChunk(g, s) \in Starts(g) \cup {End(g)} /\ \A t \in Starts(g) : t \in 1 .. End(g) - 1
    BY DEF Tiled
  <2>. QED  BY <1>1, <2>1, <2>2
<1>. QED  BY <1>1, <1>4, <1>5

\* The two ends of a memory that spells a heap name its number of pages.
LEMMA SpellsSize ==
  ASSUME NEW g, NEW m, Tiled(g), Spells(m, g)
  PROVE  HeapSize(m) = g.pages /\ MemEnd(m) = End(g)
<1>1. g.pages \in Nat /\ g.pages < NPages /\ NPages \in Nat
  BY HeapCallsAssumption, HeapWordsAssumption DEF Tiled, Spells
<1>2. g.pages % NPages = g.pages
  BY <1>1
<1>3. m[0].n = g.pages /\ m[0].mark
  BY <1>2 DEF Spells, HeapMark
<1>4. m[W * m[0].n - 1] = HeapMark(-m[0].n)
  BY <1>3 DEF Spells, End
<1>. QED  BY <1>3, <1>4 DEF HeapSize, MemEnd, End

\* What a header says of its chunk.
LEMMA HeaderSays ==
  ASSUME NEW g, Tiled(g), NEW s \in Starts(g)
  PROVE  SizeOf(HeaderOf(g, s)) = g.size[s] /\ (InUse(HeaderOf(g, s)) <=> s \in g.busy)
<1>1. g.size[s] \in Nat
  BY DEF Tiled
<1>. QED  BY <1>1, ChunkIs DEF HeaderOf

\* Walks meet the chunks.
LEMMA StartsAreMet ==
  ASSUME NEW g, NEW m, Tiled(g), Spells(m, g)
  PROVE  MemStarts(m) = Starts(g)
<1> DEFINE n == End(g) - 1
           IsMet(f) == f = [i \in 1 .. n |->
                              i = 1 \/ \E s \in 1 .. i - 1 : s + SizeOf(m[s]) = i /\ f[s]]
           Met == CHOOSE f : IsMet(f)
<1>1. MemStarts(m) = {i \in 1 .. n : Met[i]}
  BY SpellsSize DEF MemStarts
<1>2. /\ n \in Nat /\ n >= 2 /\ Starts(g) \subseteq 1 .. n
      /\ \A s \in Starts(g) : s + SizeOf(m[s]) = NextChunk(g, s)
  BY WordsOfHeap, HeaderSays DEF Spells
<1>3. ASSUME NEW i \in 1 .. n
      PROVE  i \in Starts(g) <=>
               i = 1 \/ \E s \in 1 .. i - 1 : s + SizeOf(m[s]) = i /\ s \in Starts(g)
  <2>1. ASSUME i \in Starts(g), i # 1
        PROVE  \E s \in 1 .. i - 1 : s + SizeOf(m[s]) = i /\ s \in Starts(g)
    <3>1. PICK s \in Starts(g) : s < i /\ NextChunk(g, s) = i
      BY <2>1, Predecessor
    <3>. QED  BY <1>2, <3>1
  <2>2. ASSUME NEW s \in 1 .. i - 1, s + SizeOf(m[s]) = i, s \in Starts(g)
        PROVE  i \in Starts(g)
    <3>1. NextChunk(g, s) = i
      BY <1>2, <2>2
    <3>2. i # End(g)
      BY <1>2, WordsOfHeap DEF Spells
    <3>. QED  BY <2>2, <3>1, <3>2 DEF Tiled
  <2>. QED  BY <2>1, <2>2 DEF Tiled
<1>4. IsMet([i \in 1 .. n |-> i \in Starts(g)])
  <2> DEFINE f == [i \in 1 .. n |-> i \in Starts(g)]
  <2>1. \A i \in 1 .. n : \A s \in 1 .. i - 1 : f[s] = (s \in Starts(g))
    BY <1>2
  <2>2. ASSUME NEW i \in 1 .. n
        PROVE  f[i] = (i = 1 \/ \E s \in 1 .. i - 1 : s + SizeOf(m[s]) = i /\ f[s])
    <3>1. f[i] = (i \in Starts(g))
      OBVIOUS
    <3>. HIDE DEF f
    <3>2. (\E s \in 1 .. i - 1 : s + SizeOf(m[s]) = i /\ f[s])
            <=> (\E s \in 1 .. i - 1 : s + SizeOf(m[s]) = i /\ s \in Starts(g))
      BY <2>1, Zenon
    <3>3. (i \in Starts(g)) = (i = 1 \/ \E s \in 1 .. i - 1 : s + SizeOf(m[s]) = i /\ f[s])
      BY <1>3, <3>2
    <3>. QED  BY <3>1, <3>3
  <2>. QED  BY <2>2
<1>5. IsMet(Met)
  <2>. HIDE DEF IsMet
  <2>. QED  BY <1>4
<1>6. \A i \in 1 .. n : Met[i] = (i = 1 \/ \E s \in 1 .. i - 1 : s + SizeOf(m[s]) = i /\ Met[s])
  <2>. HIDE DEF Met
  <2>. QED  BY <1>5
<1>. HIDE DEF Met, IsMet, n
<1> DEFINE T == {i \in 0 .. n : \A j \in 1 .. i : Met[j] <=> j \in Starts(g)}
<1>7. 0 \in T
  BY <1>2
<1>8. ASSUME NEW i \in 0 .. n - 1, i \in T PROVE i + 1 \in T
  <2>1. i + 1 \in 1 .. n /\ \A s \in 1 .. (i + 1) - 1 : Met[s] <=> s \in Starts(g)
    BY <1>2, <1>8
  <2>2. Met[i + 1] <=> i + 1 \in Starts(g)
    <3> DEFINE j == i + 1
    <3>. HIDE DEF j
    <3>1. j \in 1 .. n /\ \A s \in 1 .. j - 1 : Met[s] <=> s \in Starts(g)
      BY <2>1 DEF j
    <3>2. Met[j] = (j = 1 \/ \E s \in 1 .. j - 1 : s + SizeOf(m[s]) = j /\ Met[s])
      BY <1>6, <3>1, Zenon
    <3>3. (\E s \in 1 .. j - 1 : s + SizeOf(m[s]) = j /\ Met[s])
            <=> (\E s \in 1 .. j - 1 : s + SizeOf(m[s]) = j /\ s \in Starts(g))
      BY <3>1, Zenon
    <3>4. j \in Starts(g)
            <=> (j = 1 \/ \E s \in 1 .. j - 1 : s + SizeOf(m[s]) = j /\ s \in Starts(g))
      BY <1>3, <3>1, Zenon
    <3>5. Met[j] <=> j \in Starts(g)
      BY <3>2, <3>3, <3>4, Zenon
    <3>. QED  BY <3>5 DEF j
  <2>. QED  BY <1>2, <2>1, <2>2
<1>9. 0 .. n \subseteq T
  <2>. HIDE DEF T
  <2>. QED  BY <1>2, <1>7, <1>8, IntervalInduction
<1>10. \A i \in 1 .. n : Met[i] <=> i \in Starts(g)
  BY <1>2, <1>9
<1>. QED  BY <1>1, <1>2, <1>10
------------------------------------------------------------------------------
(***************************************************************************)
(* coalesce: what the walk has done when it has looked at words 1 to i.    *)
(***************************************************************************)
\* What holds of a walk before each visit and is carried on by it holds of the whole walk.
LEMMA VisitFold ==
  ASSUME NEW X, NEW b \in X, NEW n \in Nat, NEW q, DOMAIN q = 1 .. n,
         \A x \in X, i \in 1 .. n : Visit(x, q[i]) \in X,
         NEW J, b \in J[0],
         \A i \in 1 .. n : \A x \in X : x \in J[i - 1] => Visit(x, q[i]) \in J[i]
  PROVE  FoldLeft(Visit, b, q) \in X \cap J[n]
<1> DEFINE Is(f) == f = [s \in SUBSET DOMAIN q |->
                           IF s = {} THEN b ELSE Visit(f[s \ {Max(s)}], q[Max(s)])]
           iter == CHOOSE f : Is(f)
           F == [i \in 1 .. n |-> [x \in X |-> Visit(x, q[i])]]
           K == [i \in 0 .. n |-> X \cap J[i]]
<1>1. FoldLeft(Visit, b, q) = iter[1 .. n]
  BY DEF FoldLeft, MapThenFoldSet
<1>2. \A i \in 1 .. n, x \in X : F[i][x] = Visit(x, q[i]) /\ F[i][x] \in X
  OBVIOUS
<1>3. PICK f : FoldsOver(n, X, b, F, f)
  <2>. HIDE DEF F
  <2>. QED  BY <1>2, FoldExists
<1>4. Is(f)
  <2>1. ASSUME NEW s \in SUBSET (1 .. n), s # {}
        PROVE  Max(s) \in 1 .. n /\ f[s \ {Max(s)}] \in X
    <3>1. s \subseteq 0 .. n
      OBVIOUS
    <3>. QED  BY <1>3, <2>1, <3>1, MaxOfNaturals DEF FoldsOver
  <2>. QED  BY <1>2, <1>3, <2>1 DEF FoldsOver
<1>5. Is(iter)
  <2>. HIDE DEF Is
  <2>. QED  BY <1>4
<1>. HIDE DEF iter, F
<1>6. ASSUME NEW i \in 1 .. n PROVE iter[1 .. i] = Visit(iter[1 .. (i - 1)], q[i])
  <2> DEFINE s == 1 .. i
  <2>1. s \in SUBSET DOMAIN q /\ s # {} /\ Max(s) = i /\ s \ {i} = 1 .. (i - 1)
    BY LastOfPrefix
  <2>. HIDE DEF s
  <2>2. iter[s] = Visit(iter[s \ {Max(s)}], q[Max(s)])
    BY <1>5, <2>1
  <2>. QED  BY <2>1, <2>2 DEF s
<1>7. iter[1 .. 0] \in K[0]
  BY <1>5
<1>8. ASSUME NEW i \in 1 .. n, iter[1 .. (i - 1)] \in K[i - 1] PROVE iter[1 .. i] \in K[i]
  BY <1>6, <1>8
<1>9. iter[1 .. n] \in K[n]
  <2>. HIDE DEF K
  <2>. QED  BY <1>7, <1>8, FoldReaches
<1>. QED  BY <1>1, <1>9

\* The parts of a merged heap.
LEMMA CoalesceIs ==
  ASSUME NEW g, Tiled(g)
  PROVE  LET c == Coalesce(g)
         IN  /\ c.pages = g.pages /\ c.busy = g.busy /\ Starts(c) = Kept(g) /\ End(c) = End(g)
             /\ \A s \in Kept(g) : c.size[s] = IF s \in g.busy THEN g.size[s] ELSE After(g, s) - s
<1>1. Coalesce(g) = [pages |-> g.pages, busy |-> g.busy,
           size |-> [s \in Kept(g) |-> IF s \in g.busy THEN g.size[s] ELSE After(g, s) - s]]
  BY DEF Coalesce, Tiled
<1>. QED  BY <1>1 DEF Starts, End

\* A free chunk is merged if the chunk before it is free.
LEMMA AbsorbedIs ==
  ASSUME NEW g, Tiled(g), NEW p \in Starts(g), NextChunk(g, p) \in Starts(g)
  PROVE  NextChunk(g, p) \in Absorbed(g) <=> p \notin g.busy /\ NextChunk(g, p) \notin g.busy
<1>1. \A t \in Starts(g) : t \in Nat /\ g.size[t] \in Nat \ {0}
  BY DEF Tiled
<1>2. ASSUME NEW t \in Starts(g), NextChunk(g, t) = NextChunk(g, p)
      PROVE  t = p
  <2>1. ~(t < p) /\ ~(p < t)
    BY <1>1, <1>2 DEF Tiled, NextChunk
  <2>. QED  BY <1>1, <2>1
<1>. QED  BY <1>2 DEF Absorbed, FreeStarts

\* The chunks from a up to e are one: what is kept of them is a.
LEMMA MergedUpTo ==
  ASSUME NEW g, Tiled(g), NEW a \in Kept(g), NEW e \in Kept(g) \cup {End(g)}, a < e,
         NEW p \in Starts(g), a <= p, NextChunk(g, p) = e, p \in g.busy <=> a \in g.busy,
         \A t \in Starts(g) : a < t /\ t < e => t \in Absorbed(g)
  PROVE  Coalesce(g).size[a] = e - a
<1>1. /\ Kept(g) \subseteq Starts(g) /\ Absorbed(g) \cap g.busy = {} /\ Starts(g) \subseteq Nat
      /\ \A t \in Starts(g) : t < End(g) /\ g.size[t] \in Nat \ {0} /\ NextChunk(g, t) = t + g.size[t]
      /\ End(g) \in Nat
  BY EndNat DEF Kept, Absorbed, FreeStarts, Tiled, NextChunk
<1>2. CASE a \in g.busy
  <2>1. p = a
    <3>1. p # a => p \in Absorbed(g)
      BY <1>1
    <3>. QED  BY <1>1, <1>2, <3>1
  <2>2. e = a + g.size[a]
    BY <1>1, <2>1
  <2>. QED  BY <1>1, <1>2, <2>2, CoalesceIs
<1>3. CASE a \notin g.busy
  <2>1. /\ After(g, a) \in Kept(g) \cup {End(g)} /\ a < After(g, a) /\ After(g, a) <= End(g)
        /\ \A t \in Kept(g) : a < t => After(g, a) <= t
    BY <1>1, AfterIsNext
  <2>2. After(g, a) <= e
    BY <1>1, <2>1
  <2>3. ~(After(g, a) < e)
    <3>1. \A t \in Kept(g) : t \notin Absorbed(g)
      BY DEF Kept
    <3>. QED  BY <1>1, <2>1, <3>1
  <2>4. After(g, a) = e
    BY <1>1, <2>1, <2>2, <2>3
  <2>. QED  BY <1>3, <2>4, CoalesceIs
<1>. QED  BY <1>2, <1>3

\* The words of chunks in use are in k as they are in m.
KeepsBusy(g, m, k) == \A s \in g.busy : \A i \in s .. NextChunk(g, s) - 1 : k[i] = m[i]

\* The walk stands at the chunk up to word e, which it may have merged.
Stood(g, m, k, e) ==
  /\ k.at \in Kept(g) /\ k.at < e /\ e \in Starts(g) \cup {End(g)}
  /\ \A t \in Starts(g) : k.at < t /\ t < e => t \in Absorbed(g)
  /\ \E p \in Starts(g) : k.at <= p /\ NextChunk(g, p) = e /\ (p \in g.busy <=> k.at \in g.busy)
  /\ k.m[k.at] = Chunk(e - k.at, IF k.at \in g.busy THEN 1 ELSE 0)
  /\ k.m[e - 1] = k.m[k.at]
  /\ \A j \in Addresses : j = 0 \/ e <= j => k.m[j] = m[j]
  /\ \A s \in Kept(g) : s < k.at =>
       /\ k.m[s] = HeaderOf(Coalesce(g), s)
       /\ k.m[NextChunk(Coalesce(g), s) - 1] = HeaderOf(Coalesce(g), s)
  /\ KeepsBusy(g, m, k.m)

\* Memories with a word of the heap to stand at.
Walks(g) == [m : [Addresses -> Words], at : 1 .. End(g) - 1]

\* A visit leaves a memory and a word of the heap to stand at.
LEMMA VisitIsWalk ==
  ASSUME NEW g, Tiled(g), g.pages <= MaxPages, NEW k \in Walks(g), NEW i \in 1 .. End(g) - 1
  PROVE  Visit(k, i) \in Walks(g)
<1>1. \A w \in Words : SizeOf(w) \in Nat
  BY DEF Words, SizeOf
<1>2. \A n \in Nat : Chunk(n, 0) \in Words
  BY DEF Words, Chunk
<1>3. k.at \in Addresses /\ i \in Addresses /\ k.m \in [Addresses -> Words] /\ k.at \in 1 .. End(g) - 1
  BY WordsOfHeap DEF Walks
<1> DEFINE size == SizeOf(k.m[k.at])
           c == Chunk(size + SizeOf(k.m[i]), 0)
           m == Framed(k.m, k.at, size + SizeOf(k.m[i]), 0)
<1>4. c \in Words
  BY <1>1, <1>2, <1>3
<1>5. m \in [Addresses -> Words]
  BY <1>3, <1>4 DEF Framed
<1>6. Visit(k, i) \in {k, [k EXCEPT !.m = m], [k EXCEPT !.at = i]}
  BY DEF Visit
<1>. HIDE DEF m
<1>. QED  BY <1>3, <1>5, <1>6 DEF Walks

\* The next chunk is merged.
LEMMA VisitMerges ==
  ASSUME NEW g, NEW m, Tiled(g), Spells(m, g), NEW k \in Walks(g), NEW e \in Starts(g),
         Stood(g, m, k, e), e \in Absorbed(g)
  PROVE  Visit(k, e) \in Walks(g) /\ Stood(g, m, Visit(k, e), NextChunk(g, e))
<1> DEFINE a == k.at
           f == NextChunk(g, e)
           c == Coalesce(g)
           w == Chunk(f - a, 0)
<1>1. /\ a \in Kept(g) /\ a \in Starts(g) /\ a \in 1 .. End(g) - 1 /\ a < e
      /\ e \in 1 .. End(g) - 1 /\ f = e + g.size[e] /\ f \in 2 .. End(g) /\ g.size[e] \in Nat \ {0}
      /\ f \in Starts(g) \cup {End(g)} /\ e \notin g.busy /\ End(g) \in Nat
  BY WordsOfHeap DEF Stood, Spells, Kept, Absorbed, FreeStarts, Tiled
<1>2. a \notin g.busy
  BY <1>1, AbsorbedIs DEF Stood
<1>3. SizeOf(k.m[a]) = e - a /\ ~InUse(k.m[a])
  BY <1>1, <1>2, ChunkIs DEF Stood
<1>4. k.m[e] = m[e] /\ m[e] = HeaderOf(g, e)
  BY <1>1, WordsOfHeap DEF Stood, Spells
<1>5. SizeOf(k.m[e]) = g.size[e] /\ ~InUse(k.m[e])
  BY <1>1, <1>4, HeaderSays
<1>6. k.m \in [Addresses -> Words] /\ 0 .. End(g) \subseteq Addresses
  BY WordsOfHeap DEF Walks, Spells
<1> DEFINE new == [k.m EXCEPT ![a] = w, ![f - 1] = w]
<1>7. Visit(k, e) = [k EXCEPT !.m = new]
  <2>1. (e - a) + g.size[e] = f - a /\ a + (f - a) - 1 = f - 1 /\ a + (e - a) = e
    BY <1>1
  <2>. QED  BY <1>3, <1>5, <2>1 DEF Visit, Mergeable, Framed
<1>. DEFINE v == Visit(k, e)
<1>8. v.m = new /\ v.at = a /\ v \in Walks(g)
  BY <1>1, <1>7, VisitIsWalk DEF Walks, Spells
<1>9. /\ new[a] = w /\ new[f - 1] = w /\ a < f - 1 + 1 /\ a \in Nat /\ f \in Nat /\ e < f
      /\ \A j \in Addresses : j # a /\ j # f - 1 => new[j] = k.m[j]
  BY <1>1, <1>6
<1>. HIDE DEF new, w, v
<1>10. \A t \in Starts(g) : a < t /\ t < f => t \in Absorbed(g)
  <2>1. \A t \in Starts(g) : e < t => f <= t
    BY DEF Tiled
  <2>. QED  BY <1>1, <2>1, WordsOfHeap DEF Stood, Spells
<1>11. \A j \in Addresses : j = 0 \/ f <= j => new[j] = m[j]
  BY <1>1, <1>9 DEF Stood, Addresses
<1>12. ASSUME NEW s \in Kept(g), s < a
       PROVE  new[s] = HeaderOf(c, s) /\ new[NextChunk(c, s) - 1] = HeaderOf(c, s)
  <2>1. s \in Starts(c) /\ a \in Starts(c) /\ Tiled(c) /\ c.pages = g.pages
    BY <1>1, CoalesceIs, CoalesceTiled
  <2>2. NextChunk(c, s) <= a /\ NextChunk(c, s) - 1 \in Addresses /\ s \in Addresses
        /\ NextChunk(c, s) \in Nat
    BY <1>12, <2>1, WordsOfHeap DEF Tiled, Spells
  <2>3. s # a /\ s # f - 1 /\ NextChunk(c, s) - 1 # a /\ NextChunk(c, s) - 1 # f - 1
    BY <1>1, <1>9, <1>12, <2>2 DEF Addresses
  <2>. QED  BY <1>9, <1>12, <2>2, <2>3 DEF Stood
<1>13. KeepsBusy(g, m, new)
  <2>. SUFFICES ASSUME NEW s \in g.busy, NEW i \in s .. NextChunk(g, s) - 1
                PROVE  new[i] = m[i]
    BY DEF KeepsBusy
  <2>1. s \in Starts(g) /\ s # a /\ s # e /\ s \in 1 .. End(g) - 1 /\ NextChunk(g, s) \in 2 .. End(g)
    BY <1>1, <1>2, WordsOfHeap DEF Tiled, Spells
  <2>2. (s < a => NextChunk(g, s) <= a) /\ (s < e => NextChunk(g, s) <= e) /\ (e < s => f <= s)
    BY <1>1, <2>1 DEF Tiled
  <2>3. i \in Addresses /\ i # a /\ i # f - 1
    BY <1>1, <1>6, <2>1, <2>2
  <2>. QED  BY <1>9, <2>3 DEF Stood, KeepsBusy
<1>14. \E p \in Starts(g) : a <= p /\ NextChunk(g, p) = f /\ (p \in g.busy <=> a \in g.busy)
  BY <1>1, <1>2
<1>. QED  BY <1>1, <1>2, <1>8, <1>9, <1>10, <1>11, <1>12, <1>13, <1>14 DEF Stood, w, v

\* The walk goes on to the next chunk.
LEMMA VisitGoes ==
  ASSUME NEW g, NEW m, Tiled(g), Spells(m, g), NEW k \in Walks(g), NEW e \in Starts(g),
         Stood(g, m, k, e), e \notin Absorbed(g)
  PROVE  Visit(k, e) \in Walks(g) /\ Stood(g, m, Visit(k, e), NextChunk(g, e))
<1> DEFINE a == k.at
           f == NextChunk(g, e)
           c == Coalesce(g)
<1>1. /\ a \in Kept(g) /\ a \in Starts(g) /\ a \in 1 .. End(g) - 1 /\ a < e
      /\ e \in 1 .. End(g) - 1 /\ f = e + g.size[e] /\ f \in 2 .. End(g) /\ g.size[e] \in Nat \ {0}
      /\ f \in Starts(g) \cup {End(g)} /\ e \in Kept(g) /\ End(g) \in Nat
  BY WordsOfHeap DEF Stood, Spells, Kept, Tiled
<1>2. a \notin g.busy => e \in g.busy
  BY <1>1, AbsorbedIs DEF Stood
<1>3. SizeOf(k.m[a]) = e - a /\ (InUse(k.m[a]) <=> a \in g.busy)
  BY <1>1, ChunkIs DEF Stood
<1>4. k.m[e] = m[e] /\ m[e] = HeaderOf(g, e) /\ k.m[f - 1] = m[f - 1] /\ m[f - 1] = HeaderOf(g, e)
  BY <1>1, WordsOfHeap DEF Stood, Spells
<1>5. InUse(k.m[e]) <=> e \in g.busy
  BY <1>1, <1>4, HeaderSays
<1>6. Visit(k, e) = [k EXCEPT !.at = e]
  <2>1. a + (e - a) = e
    BY <1>1
  <2>. QED  BY <1>2, <1>3, <1>5, <2>1 DEF Visit, Mergeable
<1>. DEFINE v == Visit(k, e)
<1>7. v.m = k.m /\ v.at = e /\ v \in Walks(g)
  BY <1>1, <1>6, VisitIsWalk DEF Walks, Spells
<1>. HIDE DEF v
<1>8. \A t \in Starts(g) : ~(e < t /\ t < f)
  BY <1>1, WordsOfHeap DEF Tiled, Spells
<1>9. k.m[e] = Chunk(f - e, IF e \in g.busy THEN 1 ELSE 0) /\ k.m[f - 1] = k.m[e]
  BY <1>1, <1>4 DEF HeaderOf
<1>10. ASSUME NEW s \in Kept(g), s < e
       PROVE  k.m[s] = HeaderOf(c, s) /\ k.m[NextChunk(c, s) - 1] = HeaderOf(c, s)
  <2>1. CASE s < a
    BY <2>1 DEF Stood
  <2>2. CASE s = a
    <3>1. c.size[a] = e - a
      BY <1>1, MergedUpTo DEF Stood
    <3>2. HeaderOf(c, a) = k.m[a] /\ NextChunk(c, a) = e
      BY <1>1, <3>1, CoalesceIs DEF Stood, HeaderOf, NextChunk
    <3>. QED  BY <2>2, <3>2 DEF Stood
  <2>3. CASE a < s
    BY <1>10, <2>3 DEF Stood, Kept
  <2>. QED  BY <1>1, <2>1, <2>2, <2>3 DEF Kept, Tiled
<1>11. \A j \in Addresses : j = 0 \/ f <= j => k.m[j] = m[j]
  BY <1>1 DEF Stood, Addresses
<1>. QED  BY <1>1, <1>7, <1>8, <1>9, <1>10, <1>11 DEF Stood, v

\* coalesce does to the words what Coalesce does to the chunks, and no chunk in use moves.
LEMMA MemCoalesceSpells ==
  ASSUME NEW g, NEW m, Tiled(g), Spells(m, g)
  PROVE  Spells(MemCoalesce(m), Coalesce(g)) /\ KeepsBusy(g, m, MemCoalesce(m))
<1> DEFINE n == End(g) - 1
           q == [i \in 1 .. n |-> i]
           b == [m |-> m, at |-> 1]
           X == Walks(g)
           J == [i \in 0 .. n |-> {k \in X : \E e \in i + 1 .. End(g) : Stood(g, m, k, e)}]
           c == Coalesce(g)
<1>1. /\ n \in Nat /\ n >= 2 /\ End(g) = n + 1
      /\ \A s \in Starts(g) : s \in 1 .. n /\ NextChunk(g, s) \in 2 .. n + 1 /\ s < NextChunk(g, s)
                              /\ NextChunk(g, s) = s + g.size[s] /\ g.size[s] \in Nat \ {0}
      /\ 1 \in Starts(g)
  BY WordsOfHeap DEF Spells, Tiled
<1>2. MemCoalesce(m) = FoldLeft(Visit, b, q).m
  <2>1. HeapSize(m) = g.pages /\ MemEnd(m) = End(g) /\ ~(g.pages < 1)
    BY SpellsSize DEF Tiled
  <2>. QED  BY <2>1 DEF MemCoalesce
<1>3. DOMAIN q = 1 .. n /\ \A i \in 1 .. n : q[i] = i
  OBVIOUS
<1>4. b \in X
  BY <1>1 DEF Spells, Walks
<1>5. b \in J[0]
  <2> DEFINE e == NextChunk(g, 1)
  <2>1. 1 \in Kept(g) /\ e \in Starts(g) \cup {End(g)} /\ e \in 0 + 1 .. End(g) /\ 1 < e
    BY <1>1 DEF Kept, Absorbed, FreeStarts, Tiled
  <2>2. \A t \in Starts(g) : ~(1 < t /\ t < e) /\ ~(t < 1)
    BY <1>1 DEF Tiled
  <2>3. m[1] = Chunk(e - 1, IF 1 \in g.busy THEN 1 ELSE 0) /\ m[e - 1] = m[1]
    <3>1. e - 1 = g.size[1]
      BY <1>1
    <3>. QED  BY <1>1, <3>1 DEF Spells, HeaderOf
  <2>4. \A t \in Kept(g) : ~(t < 1)
    BY <2>2 DEF Kept
  <2>5. b.m = m /\ b.at = 1
    OBVIOUS
  <2>6. \E p \in Starts(g) : 1 <= p /\ NextChunk(g, p) = e /\ (p \in g.busy <=> 1 \in g.busy)
    BY <1>1
  <2>. HIDE DEF b, e
  <2>7. Stood(g, m, b, e)
    BY <2>1, <2>2, <2>3, <2>4, <2>5, <2>6 DEF Stood, KeepsBusy
  <2>. HIDE DEF X
  <2>. QED  BY <1>1, <1>4, <2>1, <2>7
<1>6. ASSUME NEW k \in X, NEW i \in 1 .. n
      PROVE  Visit(k, q[i]) \in X
  BY <1>1, <1>3, VisitIsWalk DEF Spells
<1>7. ASSUME NEW i \in 1 .. n, NEW k \in X, k \in J[i - 1]
      PROVE  Visit(k, q[i]) \in J[i]
  <2>1. PICK e \in i .. End(g) : Stood(g, m, k, e)
    <3>1. i - 1 \in 0 .. n /\ (i - 1) + 1 = i
      BY <1>1
    <3>. HIDE DEF X
    <3>. QED  BY <1>7, <3>1
  <2>2. CASE i # e
    <3>1. Visit(k, i) = k
      <4>1. k.at + SizeOf(k.m[k.at]) = e
        <5>1. k.at \in 1 .. n /\ e - k.at \in Nat
          BY <1>1, <2>1 DEF Stood, Kept
        <5>. QED  BY <1>1, <2>1, <5>1, ChunkIs DEF Stood
      <4>. QED  BY <2>2, <4>1 DEF Visit
    <3>2. e \in i + 1 .. End(g)
      BY <1>1, <2>1, <2>2
    <3>. HIDE DEF X
    <3>. QED  BY <1>1, <1>3, <2>1, <3>1, <3>2
  <2>3. CASE i = e
    <3>1. e \in Starts(g)
      BY <1>1, <2>1, <2>3 DEF Stood
    <3>2. Visit(k, e) \in X /\ Stood(g, m, Visit(k, e), NextChunk(g, e))
      BY <2>1, <3>1, VisitMerges, VisitGoes
    <3>3. NextChunk(g, e) \in i + 1 .. End(g)
      BY <1>1, <2>3, <3>1
    <3>. HIDE DEF X
    <3>. QED  BY <1>1, <1>3, <2>3, <3>2, <3>3
  <2>. QED  BY <2>2, <2>3
<1>8. FoldLeft(Visit, b, q) \in X \cap J[n]
  <2>. HIDE DEF X, J, b, q
  <2>. QED  BY <1>1, <1>3, <1>4, <1>5, <1>6, <1>7, VisitFold
<1>9. PICK k \in X : k = FoldLeft(Visit, b, q) /\ Stood(g, m, k, End(g))
  <2>. HIDE DEF X, b, q
  <2>1. PICK k \in X : k = FoldLeft(Visit, b, q) /\ k \in J[n]
    BY <1>8
  <2>2. \E e \in n + 1 .. End(g) : Stood(g, m, k, e)
    BY <1>1, <2>1
  <2>. QED  BY <1>1, <2>1, <2>2
<1>10. MemCoalesce(m) = k.m /\ k.m \in [Addresses -> Words]
  BY <1>2, <1>9 DEF Walks
<1>. HIDE DEF X, b, q, J, c
<1>11. c.pages = g.pages /\ c.busy = g.busy /\ Starts(c) = Kept(g) /\ End(c) = End(g) /\ Tiled(c)
  BY CoalesceIs, CoalesceTiled DEF c
<1>12. k.m[0] = HeapMark(c.pages) /\ k.m[End(c)] = HeapMark(-c.pages)
  <2>1. 0 \in Addresses /\ End(g) \in Addresses /\ End(g) <= End(g)
    BY <1>1, WordsOfHeap DEF Spells
  <2>. QED  BY <1>9, <1>11, <2>1 DEF Stood, Spells
<1>13. ASSUME NEW s \in Kept(g)
       PROVE  k.m[s] = HeaderOf(c, s) /\ k.m[NextChunk(c, s) - 1] = HeaderOf(c, s)
  <2>1. CASE s < k.at
    BY <1>9, <2>1 DEF Stood, c
  <2>2. CASE s = k.at
    <3>1. c.size[s] = End(g) - s
      BY <1>9, <2>2, MergedUpTo DEF Stood, c
    <3>2. HeaderOf(c, s) = k.m[s]
      BY <1>9, <1>11, <2>2, <3>1 DEF Stood, HeaderOf
    <3>3. NextChunk(c, s) = End(g)
      BY <1>1, <3>1 DEF NextChunk, Kept
    <3>. QED  BY <1>9, <2>2, <3>2, <3>3 DEF Stood
  <2>3. CASE k.at < s
    BY <1>1, <1>9, <2>3 DEF Stood, Kept
  <2>4. s \in Nat /\ k.at \in Nat
    BY <1>1, <1>9 DEF Stood, Kept
  <2>. QED  BY <2>1, <2>2, <2>3, <2>4
<1>14. Spells(k.m, c)
  BY <1>10, <1>11, <1>12, <1>13 DEF Spells
<1>. QED  BY <1>9, <1>10, <1>14 DEF Stood, c
------------------------------------------------------------------------------
(***************************************************************************)
(* The other operations on words.                                          *)
(***************************************************************************)
\* Framing a chunk writes its first and its last word.
LEMMA FramedIs ==
  ASSUME NEW m \in [Addresses -> Words], NEW s \in Addresses, NEW len \in Nat, NEW a \in {0, 1},
         s + len - 1 \in Addresses
  PROVE  /\ Framed(m, s, len, a)
              = [i \in Addresses |-> IF i = s \/ i = s + len - 1 THEN Chunk(len, a) ELSE m[i]]
         /\ Framed(m, s, len, a) \in [Addresses -> Words]
<1> DEFINE w == Chunk(len, a)
           e == s + len - 1
<1>1. w \in Words
  BY DEF Chunk, Words
<1>2. Framed(m, s, len, a) = [m EXCEPT ![s] = w, ![e] = w]
  BY DEF Framed
<1>. HIDE DEF w, e
<1>3. [m EXCEPT ![s] = w, ![e] = w] = [i \in Addresses |-> IF i = s \/ i = e THEN w ELSE m[i]]
  OBVIOUS
<1>4. [i \in Addresses |-> IF i = s \/ i = e THEN w ELSE m[i]] \in [Addresses -> Words]
  BY <1>1
<1>. QED  BY <1>2, <1>3, <1>4 DEF w, e

\* Chunks do not share words.
LEMMA ChunksApart ==
  ASSUME NEW g, Tiled(g), NEW s \in Starts(g), NEW t \in Starts(g), s # t,
         NEW i \in s .. NextChunk(g, s) - 1
  PROVE  i \notin t .. NextChunk(g, t) - 1
<1>1. /\ s \in Nat /\ t \in Nat /\ NextChunk(g, s) \in Nat /\ NextChunk(g, t) \in Nat
      /\ (s < t => NextChunk(g, s) <= t) /\ (t < s => NextChunk(g, t) <= s)
  BY DEF Tiled, NextChunk
<1>. QED  BY <1>1

\* When k keeps what m has in the chunks in use of g, and n what k has in those of c, n
\* keeps what m has in those of g that c has too.
LEMMA KeepsOn ==
  ASSUME NEW g, NEW c, NEW m, NEW k, NEW n, KeepsBusy(g, m, k), KeepsBusy(c, k, n),
         g.busy \subseteq c.busy, \A s \in g.busy : c.size[s] = g.size[s]
  PROVE  KeepsBusy(g, m, n)
BY DEF KeepsBusy, NextChunk

\* The parts of a heap of which a free chunk has been cut.
LEMMA SplitIs ==
  ASSUME NEW g, Tiled(g), NEW s \in FreeStarts(g), NEW need \in Nat \ {0}, need <= g.size[s]
  PROVE  LET c == Split(g, s, need)
             r == s + need
         IN  /\ c.pages = g.pages /\ End(c) = End(g) /\ c.busy = g.busy \cup {s}
             /\ Starts(c) = Starts(g) \cup ({r} \ {NextChunk(g, s)}) /\ r \notin Starts(g) \ {NextChunk(g, s)}
             /\ c.size[s] = need
             /\ r # NextChunk(g, s) => c.size[r] = g.size[s] - need
             /\ \A t \in Starts(g) \ {s} : c.size[t] = g.size[t]
<1> DEFINE r == s + need
           D == Starts(g) \cup ({r} \ {NextChunk(g, s)})
<1>1. Split(g, s, need) =
        [pages |-> g.pages, busy |-> g.busy \cup {s},
         size |-> [t \in D |-> IF t = s THEN need
                               ELSE IF t = r /\ t # NextChunk(g, s) THEN g.size[s] - need
                               ELSE g.size[t]]]
  BY DEF Split
<1>2. s \in Starts(g) /\ s \in Nat /\ r \in Nat /\ s < r /\ r <= NextChunk(g, s) /\ NextChunk(g, s) \in Nat
  BY DEF FreeStarts, Tiled, NextChunk
<1>3. \A t \in Starts(g) : s < t => NextChunk(g, s) <= t
  BY <1>2 DEF Tiled
<1>4. \A t \in Starts(g) : t = r => t = NextChunk(g, s)
  BY <1>2, <1>3 DEF Tiled
<1>. HIDE DEF r
<1>. QED  BY <1>1, <1>2, <1>4 DEF Starts, End, r

\* A cut does to the words what Split does to the chunks, and no chunk in use changes.
LEMMA MemSplitSpells ==
  ASSUME NEW g, NEW m, Tiled(g), Spells(m, g), NEW s \in FreeStarts(g),
         NEW need \in Nat \ {0}, need <= g.size[s]
  PROVE  Spells(MemSplit(m, s, need), Split(g, s, need)) /\ KeepsBusy(g, m, MemSplit(m, s, need))
<1> DEFINE c == Split(g, s, need)
           r == s + need
           f == NextChunk(g, s)
           len == g.size[s]
           x == Chunk(need, 1)
           y == Chunk(len - need, 0)
           used == [i \in Addresses |-> IF i = s \/ i = r - 1 THEN x ELSE m[i]]
           new == IF len > need
                  THEN [i \in Addresses |-> IF i = r \/ i = f - 1 THEN y ELSE used[i]] ELSE used
<1>1. /\ s \in Starts(g) /\ s \notin g.busy /\ s \in 1 .. End(g) - 1 /\ len \in Nat \ {0} /\ f = s + len
      /\ f \in 2 .. End(g) /\ 0 .. End(g) \subseteq Addresses /\ End(g) \in Nat /\ r \in Nat
      /\ s < r /\ r <= f /\ (len > need <=> r # f)
  BY WordsOfHeap DEF FreeStarts, Spells
<1>2. SizeOf(m[s]) = len
  BY <1>1, HeaderSays DEF Spells
<1>3. MemSplit(m, s, need) = new
  <2>1. r + (len - need) - 1 = f - 1
    BY <1>1
  <2>2. Framed(m, s, need, 1) = used
    BY <1>1, FramedIs DEF Spells
  <2>3. used \in [Addresses -> Words]
    BY <1>1 DEF Spells, Chunk, Words
  <2>4. len > need => Framed(used, r, len - need, 0) = new
    <3>. SUFFICES ASSUME len > need PROVE Framed(used, r, len - need, 0) = new
      OBVIOUS
    <3>1. len - need \in Nat /\ r \in Addresses /\ f - 1 \in Addresses /\ r \in Nat
      BY <1>1
    <3> DEFINE d == len - need
    <3>2. r + d - 1 = f - 1 /\ d \in Nat /\ y = Chunk(d, 0)
      BY <2>1, <3>1
    <3>. HIDE DEF used, r, f, d, y
    <3>3. Framed(used, r, d, 0) = [i \in Addresses |-> IF i = r \/ i = f - 1 THEN y ELSE used[i]]
      <4>1. r + d - 1 \in Addresses /\ 0 \in {0, 1}
        BY <3>1, <3>2
      <4>2. Framed(used, r, d, 0)
              = [i \in Addresses |-> IF i = r \/ i = r + d - 1 THEN Chunk(d, 0) ELSE used[i]]
        BY <2>3, <3>1, <3>2, <4>1, FramedIs
      <4>. QED  BY <3>2, <4>2
    <3>. QED  BY <3>3 DEF d
  <2>5. MemSplit(m, s, need) = IF SizeOf(m[s]) > need
                               THEN Framed(Framed(m, s, need, 1), r, SizeOf(m[s]) - need, 0)
                               ELSE Framed(m, s, need, 1)
    BY DEF MemSplit
  <2>6. len > need \/ new = used
    OBVIOUS
  <2>. HIDE DEF used, r, x, y, f, len, new
  <2>. QED  BY <1>2, <2>2, <2>4, <2>5, <2>6 DEF len
<1>4. x \in Words /\ (len > need => y \in Words)
  BY <1>1 DEF Chunk, Words
<1>5. m \in [Addresses -> Words] /\ s \in Addresses /\ r - 1 \in Addresses /\ f - 1 \in Addresses
      /\ (len > need => r \in Addresses)
  BY <1>1 DEF Spells
<1>. HIDE DEF x, y
<1>6. /\ new \in [Addresses -> Words]
      /\ new[s] = x /\ new[r - 1] = x
      /\ r # f => new[r] = y /\ new[f - 1] = y
      /\ \A j \in Addresses : j \notin s .. f - 1 => new[j] = m[j]
  BY <1>1, <1>4, <1>5
<1>7. /\ c.pages = g.pages /\ End(c) = End(g) /\ c.busy = g.busy \cup {s}
      /\ Starts(c) = Starts(g) \cup ({r} \ {f}) /\ r \notin Starts(g) \ {f}
      /\ c.size[s] = need /\ (r # f => c.size[r] = len - need)
      /\ \A t \in Starts(g) \ {s} : c.size[t] = g.size[t]
  BY SplitIs
<1>. HIDE DEF c, new
<1>8. ASSUME NEW t \in Starts(g) \ {s}, NEW i \in t .. NextChunk(g, t) - 1
      PROVE  new[i] = m[i]
  <2>1. i \notin s .. f - 1
    BY <1>1, ChunksApart
  <2>2. i \in Addresses
    BY <1>1, WordsOfHeap DEF Spells
  <2>. QED  BY <1>6, <2>1, <2>2
<1>9. ASSUME NEW t \in Starts(c)
      PROVE  new[t] = HeaderOf(c, t) /\ new[NextChunk(c, t) - 1] = HeaderOf(c, t)
  <2>1. CASE t = s
    <3>1. HeaderOf(c, t) = x /\ NextChunk(c, t) = r
      BY <1>7, <2>1 DEF HeaderOf, NextChunk, x
    <3>. QED  BY <1>6, <2>1, <3>1
  <2>2. CASE t = r /\ r # f
    <3>1. HeaderOf(c, t) = y
      <4>1. r \notin g.busy /\ r # s
        BY <1>1, <1>7, <2>2 DEF Tiled
      <4>. QED  BY <1>7, <2>2, <4>1 DEF HeaderOf, y
    <3>2. NextChunk(c, t) = f
      BY <1>1, <1>7, <2>2 DEF NextChunk
    <3>. QED  BY <1>6, <2>2, <3>1, <3>2
  <2>3. CASE t \in Starts(g) \ {s}
    <3>1. HeaderOf(c, t) = HeaderOf(g, t) /\ NextChunk(c, t) = NextChunk(g, t)
      BY <1>7, <2>3 DEF HeaderOf, NextChunk
    <3>2. t \in t .. NextChunk(g, t) - 1 /\ NextChunk(g, t) - 1 \in t .. NextChunk(g, t) - 1
      BY <2>3, WordsOfHeap DEF Spells
    <3>3. new[t] = m[t] /\ new[NextChunk(g, t) - 1] = m[NextChunk(g, t) - 1]
      BY <1>8, <2>3, <3>2
    <3>. QED  BY <2>3, <3>1, <3>3 DEF Spells
  <2>. QED  BY <1>7, <2>1, <2>2, <2>3
<1>10. new[0] = HeapMark(c.pages) /\ new[End(c)] = HeapMark(-c.pages)
  <2>1. 0 \in Addresses /\ End(g) \in Addresses /\ 0 \notin s .. f - 1 /\ End(g) \notin s .. f - 1
    BY <1>1
  <2>. QED  BY <1>6, <1>7, <2>1 DEF Spells
<1>11. KeepsBusy(g, m, new)
  BY <1>1, <1>8 DEF KeepsBusy, Tiled
<1>12. Spells(new, c)
  BY <1>6, <1>7, <1>9, <1>10 DEF Spells
<1>. QED  BY <1>3, <1>11, <1>12 DEF c

\* kmalloc finds the chunk that Kmalloc finds, and no chunk in use changes.
LEMMA MemKmallocSpells ==
  ASSUME NEW g, NEW m, Tiled(g), Spells(m, g), NEW bytes, bytes # 0, Need(bytes) \in Nat \ {0}
  PROVE  /\ MemKmalloc(m, bytes).ret = Kmalloc(g, bytes).ret
         /\ Spells(MemKmalloc(m, bytes).m, Kmalloc(g, bytes).h)
         /\ KeepsBusy(g, m, MemKmalloc(m, bytes).m)
<1> DEFINE c == Coalesce(g)
           k == MemCoalesce(m)
           F == Fits(c, Need(bytes))
<1>1. Spells(k, c) /\ KeepsBusy(g, m, k) /\ Tiled(c) /\ SameBusy(g, c)
  BY MemCoalesceSpells, CoalesceTiled
<1>2. ~(bytes = 0 \/ HeapSize(m) < 1)
  BY SpellsSize DEF Tiled
<1>. HIDE DEF c, k
<1>3. MemFits(k, Need(bytes)) = F
  <2>1. MemStarts(k) = Starts(c)
    BY <1>1, StartsAreMet
  <2>2. \A s \in Starts(c) : SizeOf(k[s]) = c.size[s] /\ (InUse(k[s]) <=> s \in c.busy)
    BY <1>1, HeaderSays DEF Spells
  <2>. QED  BY <2>1, <2>2 DEF MemFits, Fits, FreeStarts
<1>4. CASE F = {}
  <2>1. Kmalloc(g, bytes) = [h |-> c, ret |-> Null] /\ MemKmalloc(m, bytes) = [m |-> k, ret |-> Null]
    BY <1>2, <1>3, <1>4 DEF Kmalloc, MemKmalloc, c, k
  <2>. QED  BY <1>1, <2>1
<1>5. CASE F # {}
  <2> DEFINE s == Min(F)
             need == Need(bytes)
  <2>1. F \subseteq Nat
    BY <1>1 DEF Fits, FreeStarts, Tiled
  <2>2. s \in F
    <3>. HIDE DEF F
    <3>. QED  BY <1>5, <2>1, MinOfNaturals
  <2>3. s \in FreeStarts(c) /\ need <= c.size[s]
    BY <2>2 DEF Fits
  <2>4. /\ Kmalloc(g, bytes) = [h |-> Split(c, s, need), ret |-> s + 1]
        /\ MemKmalloc(m, bytes) = [m |-> MemSplit(k, s, need), ret |-> s + 1]
    BY <1>2, <1>3, <1>5 DEF Kmalloc, MemKmalloc, c, k
  <2>. HIDE DEF F, s
  <2>5. Spells(MemSplit(k, s, need), Split(c, s, need)) /\ KeepsBusy(c, k, MemSplit(k, s, need))
    BY <1>1, <2>3, MemSplitSpells
  <2>6. KeepsBusy(g, m, MemSplit(k, s, need))
    BY <1>1, <2>5, KeepsOn DEF SameBusy
  <2>. QED  BY <2>4, <2>5, <2>6
<1>. QED  BY <1>4, <1>5

\* kfree gives back the chunk that Kfree gives back, and no other chunk in use changes.
LEMMA MemKfreeSpells ==
  ASSUME NEW g, NEW m, Tiled(g), Spells(m, g), NEW p, p = Null \/ (p \in Nat \ {0} /\ p - 1 \in g.busy)
  PROVE  /\ MemKfree(m, p).ret = Kfree(g, p).ret
         /\ Spells(MemKfree(m, p).m, Kfree(g, p).h)
         /\ KeepsBusy([g EXCEPT !.busy = @ \ {p - 1}], m, MemKfree(m, p).m)
<1> DEFINE c == [g EXCEPT !.busy = @ \ {p - 1}]
           s == p - 1
           k == Framed(m, s, SizeOf(m[s]), 0)
<1>1. HeapSize(m) = g.pages /\ MemEnd(m) = End(g) /\ ~(g.pages < 1)
  BY SpellsSize DEF Tiled
<1>2. Tiled(c) /\ c.busy = g.busy \ {p - 1} /\ c.size = g.size /\ c.pages = g.pages
  BY GiveBackTiled
<1>3. CASE p = Null \/ p >= End(g)
  <2>1. Kfree(g, p) = [h |-> g, ret |-> FALSE] /\ MemKfree(m, p) = [m |-> m, ret |-> FALSE]
    BY <1>1, <1>3 DEF Kfree, MemKfree
  <2>. QED  BY <2>1 DEF KeepsBusy
<1>4. CASE ~(p = Null \/ p >= End(g))
  <2>1. Kfree(g, p) = [h |-> Coalesce(c), ret |-> TRUE]
    BY <1>4 DEF Kfree
  <2>2. MemKfree(m, p) = [m |-> MemCoalesce(k), ret |-> TRUE]
    BY <1>1, <1>4 DEF MemKfree
  <2>. HIDE DEF c
  <2>3. /\ s \in Starts(g) /\ s \in g.busy /\ s \in 1 .. End(g) - 1 /\ g.size[s] \in Nat \ {0}
        /\ NextChunk(g, s) = s + g.size[s] /\ NextChunk(g, s) \in 2 .. End(g)
        /\ 0 .. End(g) \subseteq Addresses /\ End(g) \in Nat
    BY <1>4, WordsOfHeap DEF Tiled, Spells
  <2> DEFINE f == NextChunk(g, s)
             w == Chunk(g.size[s], 0)
  <2>4. SizeOf(m[s]) = g.size[s]
    BY <2>3, HeaderSays DEF Spells
  <2>5. k = [i \in Addresses |-> IF i = s \/ i = f - 1 THEN w ELSE m[i]]
        /\ k \in [Addresses -> Words]
    <3>1. s + g.size[s] - 1 = f - 1 /\ s \in Addresses /\ f - 1 \in Addresses
      BY <2>3
    <3>. HIDE DEF s
    <3>. QED  BY <2>3, <2>4, <3>1, FramedIs DEF Spells
  <2>. HIDE DEF s, k, w
  <2>6. ASSUME NEW t \in Starts(g) \ {s}, NEW i \in t .. NextChunk(g, t) - 1
        PROVE  k[i] = m[i]
    <3>1. i \notin s .. f - 1
      BY <2>3, <2>6, ChunksApart
    <3>2. i \in Addresses
      BY <2>3, <2>6, WordsOfHeap DEF Spells
    <3>. QED  BY <2>3, <2>5, <3>1, <3>2
  <2>7. ASSUME NEW t \in Starts(g)
        PROVE  k[t] = HeaderOf(c, t) /\ k[NextChunk(g, t) - 1] = HeaderOf(c, t)
    <3>1. CASE t = s
      <4>1. HeaderOf(c, t) = w
        BY <1>2, <3>1 DEF HeaderOf, s, w
      <4>. QED  BY <2>3, <2>5, <3>1, <4>1
    <3>2. CASE t # s
      <4>1. HeaderOf(c, t) = HeaderOf(g, t)
        BY <1>2, <3>2 DEF HeaderOf, s
      <4>2. t \in t .. NextChunk(g, t) - 1 /\ NextChunk(g, t) - 1 \in t .. NextChunk(g, t) - 1
        BY WordsOfHeap DEF Spells
      <4>3. k[t] = m[t] /\ k[NextChunk(g, t) - 1] = m[NextChunk(g, t) - 1]
        BY <2>6, <3>2, <4>2
      <4>. QED  BY <4>1, <4>3 DEF Spells
    <3>. QED  BY <3>1, <3>2
  <2>8. Spells(k, c)
    <3>1. Starts(c) = Starts(g) /\ End(c) = End(g) /\ \A t : NextChunk(c, t) = NextChunk(g, t)
      BY <1>2 DEF Starts, End, NextChunk
    <3>2. k[0] = HeapMark(g.pages) /\ k[End(g)] = HeapMark(-g.pages)
      <4>1. 0 \in Addresses /\ End(g) \in Addresses /\ 0 # s /\ 0 # f - 1 /\ End(g) # s
            /\ End(g) # f - 1
        BY <2>3
      <4>. QED  BY <2>5, <4>1 DEF Spells
    <3>. QED  BY <1>2, <2>5, <2>7, <3>1, <3>2 DEF Spells
  <2>9. KeepsBusy(c, m, k)
    <3>1. \A t \in c.busy : t \in Starts(g) \ {s} /\ NextChunk(c, t) = NextChunk(g, t)
      BY <1>2 DEF s, Tiled, NextChunk
    <3>. QED  BY <2>6, <3>1 DEF KeepsBusy
  <2>10. Spells(MemCoalesce(k), Coalesce(c)) /\ KeepsBusy(c, k, MemCoalesce(k))
    BY <1>2, <2>8, MemCoalesceSpells
  <2>11. KeepsBusy(c, m, MemCoalesce(k))
    BY <2>9, <2>10, KeepsOn
  <2>. QED  BY <2>1, <2>2, <2>10, <2>11 DEF c
<1>. QED  BY <1>3, <1>4

\* The new pages become a free chunk behind the others, and no word of those changes.
LEMMA MemGrownSpells ==
  ASSUME NEW g, NEW m, Tiled(g), Spells(m, g), NEW n \in Nat \ {0}, g.pages + n <= MaxPages
  PROVE  Spells(MemGrown(m, n), Grown(g, n)) /\ KeepsBusy(g, m, MemGrown(m, n))
<1> DEFINE old == g.pages
           c == Grown(g, n)
           e == End(g)
           f == End(c)
           x == W * n
           w == Chunk(x, 0)
           k == MemGrown(m, n)
<1>1. /\ Tiled(c) /\ c.pages = old + n /\ c.busy = g.busy /\ Starts(c) = Starts(g) \cup {e}
      /\ c.size[e] = x /\ \A t \in Starts(g) : t # e => c.size[t] = g.size[t]
  BY GrownTiled DEF Grown, Starts
<1>. HIDE DEF c
<1>2. /\ x \in Nat /\ 4 <= x /\ e \in Nat /\ e >= 3 /\ e = W * old - 1 /\ f = e + x /\ W * old \in Nat
      /\ W * (old + n) = e + x + 1
  <2>1. old \in Nat /\ n \in Nat /\ old \in Nat \ {0} /\ W \in Nat
    BY HeapAssumption DEF Tiled
  <2>2. x \in Nat /\ W <= x /\ W * (old + n) = W * old + x /\ W * old \in Nat
    <3>1. W * (old + n) = W * old + W * n /\ W * old \in Nat
      BY <2>1
    <3>2. W * n \in Nat /\ W <= W * n
      BY Times
    <3>. QED  BY <3>1, <3>2
  <2>3. e = W * old - 1 /\ f = W * (old + n) - 1
    BY <1>1 DEF End
  <2>4. e \in Nat /\ e >= 3
    BY <2>1, EndNat
  <2>. HIDE DEF x
  <2>. QED  BY <2>2, <2>3, <2>4, HeapAssumption
<1>3. /\ 0 \in Addresses /\ e \in Addresses /\ e + 1 \in Addresses /\ e + 2 \in Addresses
      /\ f \in Addresses /\ f - 1 \in Addresses /\ Addresses \subseteq Nat
      /\ 1 .. e - 1 \subseteq Addresses
  <2>1. 0 .. f \subseteq Addresses
    BY <1>1, WordsOfHeap
  <2>2. Addresses \subseteq Nat
    BY DEF Addresses
  <2>. QED  BY <1>2, <2>1, <2>2
<1>4. HeapSize(m) = old
  BY SpellsSize
<1>5. HeapMark(n) \in Words /\ HeapMark(-n) \in Words /\ HeapMark(old + n) \in Words
      /\ HeapMark(-(old + n)) \in Words
  <2>1. \A i \in Int : i % NPages \in Nat
    BY HeapCallsAssumption, HeapWordsAssumption
  <2>. QED  BY <2>1 DEF HeapMark, Words, Tiled
<1> DEFINE m1 == [m EXCEPT ![e + 1] = HeapMark(n), ![f] = HeapMark(-n)]
           m2 == Framed(m1, e + 2, x - 2, 0)
           m3 == [m2 EXCEPT ![0] = HeapMark(old + n), ![f] = HeapMark(-(old + n))]
<1>6. k = Framed(m3, e, x, 0)
  <2>1. W * old = e + 1 /\ W * (old + n) - 1 = f /\ W * old + 1 = e + 2 /\ W * old - 1 = e
    BY <1>2
  <2>. HIDE DEF e, f
  <2>2. EmptyHeap(m, old, n) = m2
    BY <2>1 DEF EmptyHeap
  <2>3. k = Framed([EmptyHeap(m, old, n) EXCEPT ![0] = HeapMark(old + n),
                      ![W * (old + n) - 1] = HeapMark(-(old + n))], W * old - 1, W * n, 0)
    BY <1>4 DEF MemGrown
  <2>. HIDE DEF m2, k
  <2>. QED  BY <2>1, <2>2, <2>3
<1>. HIDE DEF x, e, f
<1>7. m1 \in [Addresses -> Words] /\ \A j \in Addresses : j <= e => m1[j] = m[j]
  BY <1>2, <1>3, <1>5 DEF Spells
<1>. HIDE DEF m1
<1>8. m2 \in [Addresses -> Words] /\ \A j \in Addresses : j <= e => m2[j] = m1[j]
  <2> DEFINE s == e + 2
             d == x - 2
  <2>1. s \in Nat /\ s \in Addresses /\ d \in Nat /\ s + d - 1 = f - 1
    BY <1>2, <1>3
  <2>. HIDE DEF s, d
  <2>2. s + d - 1 \in Addresses /\ 0 \in {0, 1}
    BY <1>3, <2>1
  <2>3. m2 = Framed(m1, s, d, 0)
    BY DEF s, d
  <2>4. m2 = [i \in Addresses |-> IF i = s \/ i = s + d - 1 THEN Chunk(d, 0) ELSE m1[i]]
        /\ m2 \in [Addresses -> Words]
    BY <1>7, <2>1, <2>2, <2>3, FramedIs
  <2>. HIDE DEF m2
  <2>5. \A j \in Addresses : j <= e => j # s /\ j # s + d - 1
    BY <1>2, <1>3, <2>1 DEF s
  <2>. QED  BY <2>4, <2>5
<1>. HIDE DEF m2
<1>9. /\ m3 \in [Addresses -> Words] /\ m3[0] = HeapMark(old + n) /\ m3[f] = HeapMark(-(old + n))
      /\ \A j \in Addresses : 0 < j /\ j <= e => m3[j] = m2[j]
  BY <1>2, <1>3, <1>5, <1>8
<1>. HIDE DEF m3
<1>10. /\ k \in [Addresses -> Words] /\ k[e] = w /\ k[f - 1] = w /\ k[0] = m3[0] /\ k[f] = m3[f]
       /\ \A j \in Addresses : 0 < j /\ j < e => k[j] = m3[j]
  <2>1. e + x - 1 = f - 1 /\ f # e /\ f # f - 1 /\ 0 # e /\ 0 # f - 1 /\ f - 1 > e
    BY <1>2
  <2>. HIDE DEF k, w
  <2>2. e + x - 1 \in Addresses /\ 0 \in {0, 1} /\ x \in Nat
    BY <1>2, <1>3, <2>1
  <2>3. k = [i \in Addresses |-> IF i = e \/ i = e + x - 1 THEN Chunk(x, 0) ELSE m3[i]]
        /\ k \in [Addresses -> Words]
    BY <1>3, <1>6, <1>9, <2>2, FramedIs
  <2>4. k = [i \in Addresses |-> IF i = e \/ i = f - 1 THEN w ELSE m3[i]]
    BY <2>1, <2>3 DEF w
  <2>5. \A j \in Addresses : 0 < j /\ j < e => j # e /\ j # f - 1
    BY <1>2, <1>3, <2>1
  <2>. QED  BY <1>3, <2>1, <2>3, <2>4, <2>5
<1>. HIDE DEF k
<1>11. ASSUME NEW j \in 1 .. e - 1
       PROVE  k[j] = m[j]
  BY <1>2, <1>3, <1>7, <1>8, <1>9, <1>10
<1>12. ASSUME NEW t \in Starts(g)
       PROVE  /\ t \in 1 .. e - 1 /\ NextChunk(g, t) \in 2 .. e /\ NextChunk(c, t) = NextChunk(g, t)
              /\ HeaderOf(c, t) = HeaderOf(g, t)
  BY <1>1, <1>2, WordsOfHeap DEF Spells, NextChunk, HeaderOf, e
<1>13. HeaderOf(c, e) = w /\ NextChunk(c, e) = f
  <2>1. e \notin g.busy
    BY <1>2, <1>12 DEF Tiled
  <2>. QED  BY <1>1, <1>2, <2>1 DEF HeaderOf, NextChunk
<1>14. \A t \in Starts(c) : k[t] = HeaderOf(c, t) /\ k[NextChunk(c, t) - 1] = HeaderOf(c, t)
  <2>. SUFFICES ASSUME NEW t \in Starts(c)
                PROVE  k[t] = HeaderOf(c, t) /\ k[NextChunk(c, t) - 1] = HeaderOf(c, t)
    OBVIOUS
  <2>1. CASE t = e
    BY <1>10, <1>13, <2>1
  <2>2. CASE t \in Starts(g)
    <3>1. NextChunk(g, t) - 1 \in 1 .. e - 1
      BY <1>2, <1>12, <2>2
    <3>. QED  BY <1>11, <1>12, <2>2, <3>1 DEF Spells
  <2>. QED  BY <1>1, <2>1, <2>2
<1>15. Spells(k, c)
  BY <1>1, <1>9, <1>10, <1>14 DEF Spells, f
<1>16. KeepsBusy(g, m, k)
  <2>. SUFFICES ASSUME NEW t \in g.busy, NEW i \in t .. NextChunk(g, t) - 1
                PROVE  k[i] = m[i]
    BY DEF KeepsBusy
  <2>1. i \in 1 .. e - 1
    BY <1>2, <1>12 DEF Tiled
  <2>. QED  BY <1>11, <2>1
<1>. QED  BY <1>15, <1>16 DEF c, k

\* hlmalloc finds the chunk that Hlmalloc finds, and no chunk in use changes.
LEMMA MemHlmallocSpells ==
  ASSUME NEW g, NEW m, Tiled(g), Spells(m, g), NEW bytes \in Sizes, NEW grows \in BOOLEAN,
         grows => g.pages + PagesFor(bytes) <= MaxPages
  PROVE  /\ MemHlmalloc(m, bytes, grows).ret = Hlmalloc(g, bytes, grows).ret
         /\ Spells(MemHlmalloc(m, bytes, grows).m, Hlmalloc(g, bytes, grows).h)
         /\ KeepsBusy(g, m, MemHlmalloc(m, bytes, grows).m)
<1>1. CASE bytes = 0
  <2>1. Hlmalloc(g, bytes, grows) = [h |-> g, ret |-> Null]
    BY <1>1 DEF Hlmalloc, Kmalloc
  <2>2. MemHlmalloc(m, bytes, grows) = [m |-> m, ret |-> Null]
    BY <1>1 DEF MemHlmalloc, MemKmalloc
  <2>. QED  BY <2>1, <2>2 DEF KeepsBusy
<1>2. CASE bytes # 0
  <2> DEFINE k == Kmalloc(g, bytes)
             mk == MemKmalloc(m, bytes)
             n == PagesFor(bytes)
             c == Grown(k.h, n)
             mc == MemGrown(mk.m, n)
             e == ExpandHeap(k.h, n)
             me == MemCoalesce(mc)
  <2>0. bytes \in Nat \ {0} /\ bytes <= UIntSize - 4 * W
    BY <1>2, HeapCallsAssumption, HeapAssumption
  <2>1. n \in Nat \ {0} /\ Need(bytes) \in Nat \ {0}
    BY <2>0, Rounding
  <2>2. /\ Tiled(k.h) /\ k.h.pages = g.pages
        /\ IF k.ret = Null THEN SameBusy(g, k.h) ELSE Gave(g, k.h, k.ret, Need(bytes))
    BY <1>2, <2>1, KmallocStep
  <2>3. mk.ret = k.ret /\ Spells(mk.m, k.h) /\ KeepsBusy(g, m, mk.m)
    BY <1>2, <2>1, MemKmallocSpells
  <2>4. CASE k.ret # Null \/ ~grows
    <3>1. Hlmalloc(g, bytes, grows) = k
      BY <1>2, <2>4 DEF Hlmalloc
    <3>2. MemHlmalloc(m, bytes, grows) = mk
      BY <1>2, <2>3, <2>4 DEF MemHlmalloc
    <3>. HIDE DEF k, mk
    <3>. QED  BY <2>3, <3>1, <3>2
  <2>5. CASE k.ret = Null /\ grows
    <3>1. Hlmalloc(g, bytes, grows) = Kmalloc(e, bytes)
      BY <1>2, <2>5 DEF Hlmalloc
    <3>2. MemHlmalloc(m, bytes, grows) = MemKmalloc(me, bytes)
      BY <1>2, <2>3, <2>5 DEF MemHlmalloc
    <3>. HIDE DEF k, mk, n
    <3>3. Spells(mc, c) /\ KeepsBusy(k.h, mk.m, mc)
      <4>1. k.h.pages + n <= MaxPages
        BY <2>2, <2>5 DEF n
      <4>. QED  BY <2>1, <2>2, <2>3, <4>1, MemGrownSpells
    <3>4. Tiled(c) /\ SameBusy(k.h, c)
      BY <2>1, <2>2, GrownTiled
    <3>5. e = Coalesce(c)
      BY DEF ExpandHeap
    <3>. HIDE DEF c, mc, e
    <3>6. Tiled(e) /\ SameBusy(c, e) /\ Spells(me, e) /\ KeepsBusy(c, mc, me)
      BY <3>3, <3>4, <3>5, CoalesceTiled, MemCoalesceSpells
    <3>. HIDE DEF me
    <3>7. /\ MemKmalloc(me, bytes).ret = Kmalloc(e, bytes).ret
          /\ Spells(MemKmalloc(me, bytes).m, Kmalloc(e, bytes).h)
          /\ KeepsBusy(e, me, MemKmalloc(me, bytes).m)
      BY <1>2, <2>1, <3>6, MemKmallocSpells
    <3>8. KeepsBusy(g, m, mc) /\ SameBusy(g, c)
      <4>1. SameBusy(g, k.h)
        BY <2>2, <2>5
      <4>2. KeepsBusy(g, m, mc)
        BY <2>3, <3>3, <4>1, KeepsOn DEF SameBusy
      <4>. QED  BY <3>4, <4>1, <4>2 DEF SameBusy
    <3>9. KeepsBusy(g, m, me) /\ SameBusy(g, e)
      <4>1. KeepsBusy(g, m, me)
        BY <3>6, <3>8, KeepsOn DEF SameBusy
      <4>. QED  BY <3>6, <3>8, <4>1 DEF SameBusy
    <3>10. KeepsBusy(g, m, MemKmalloc(me, bytes).m)
      BY <3>7, <3>9, KeepsOn DEF SameBusy
    <3>. QED  BY <3>1, <3>2, <3>7, <3>10
  <2>. QED  BY <2>4, <2>5
<1>. QED  BY <1>1, <1>2

\* A memory spells one heap.
LEMMA HeapOfSpelled ==
  ASSUME NEW g, NEW m, Tiled(g), Spells(m, g)
  PROVE  HeapOf(m) = g
<1>1. HeapSize(m) = g.pages /\ MemStarts(m) = Starts(g)
  BY SpellsSize, StartsAreMet
<1>2. \A s \in Starts(g) : SizeOf(m[s]) = g.size[s] /\ (InUse(m[s]) <=> s \in g.busy)
  BY HeaderSays DEF Spells
<1>3. [s \in Starts(g) |-> SizeOf(m[s])] = g.size
  <2>1. g.size = [s \in Starts(g) |-> g.size[s]]
    BY DEF Tiled
  <2>. QED  BY <1>2, <2>1
<1>4. {s \in Starts(g) : InUse(m[s])} = g.busy
  BY <1>2 DEF Tiled
<1>5. g = [pages |-> g.pages, size |-> g.size, busy |-> g.busy]
  BY DEF Tiled
<1>. QED  BY <1>1, <1>3, <1>4, <1>5 DEF HeapOf

\* What the instance of HeapSpec calls by the name of an operator of Heap is that operator.
LEMMA SameOperators ==
  /\ \A n : H!NewHeap(n) = NewHeap(n)
  /\ \A g, bytes, grows : H!Hlmalloc(g, bytes, grows) = Hlmalloc(g, bytes, grows)
  /\ \A g, p : H!Kfree(g, p) = Kfree(g, p)
  /\ \A bytes : H!PagesFor(bytes) = PagesFor(bytes)
<1>1. \A n : H!NewHeap(n) = NewHeap(n)
  BY DEF H!NewHeap, NewHeap
<1>2. \A bytes : H!PagesFor(bytes) = PagesFor(bytes) /\ H!Need(bytes) = Need(bytes)
  BY DEF H!PagesFor, PagesFor, H!Need, Need
<1>3. \A g : H!Starts(g) = Starts(g) /\ H!FreeStarts(g) = FreeStarts(g) /\ H!End(g) = End(g)
  BY DEF H!Starts, Starts, H!FreeStarts, FreeStarts, H!End, End
<1>4. \A g, s : H!NextChunk(g, s) = NextChunk(g, s)
  BY DEF H!NextChunk, NextChunk
<1>5. \A S : H!Min(S) = Min(S)
  BY DEF H!Min, Min
<1>6. \A g : H!Kept(g) = Kept(g)
  BY <1>3, <1>4 DEF H!Kept, Kept, H!Absorbed, Absorbed
<1>7. \A g, s : H!After(g, s) = After(g, s)
  BY <1>3, <1>5, <1>6 DEF H!After, After
<1>8. \A g : H!Coalesce(g) = Coalesce(g)
  BY <1>6, <1>7 DEF H!Coalesce, Coalesce
<1>9. \A g, s, need : H!Split(g, s, need) = Split(g, s, need)
  BY <1>3, <1>4 DEF H!Split, Split
<1>10. \A g, need : H!Fits(g, need) = Fits(g, need)
  BY <1>3 DEF H!Fits, Fits
<1>11. H!Null = Null
  BY DEF H!Null, Null
<1>12. \A g, bytes : H!Kmalloc(g, bytes) = Kmalloc(g, bytes)
  BY <1>2, <1>5, <1>8, <1>9, <1>10, <1>11 DEF H!Kmalloc, Kmalloc
<1>13. \A g, p : H!Kfree(g, p) = Kfree(g, p)
  BY <1>3, <1>8, <1>11 DEF H!Kfree, Kfree
<1>14. \A g, n : H!ExpandHeap(g, n) = ExpandHeap(g, n)
  BY <1>3, <1>8 DEF H!ExpandHeap, ExpandHeap, H!Grown, Grown
<1>15. \A g, bytes, grows : H!Hlmalloc(g, bytes, grows) = Hlmalloc(g, bytes, grows)
  BY <1>2, <1>11, <1>12, <1>14 DEF H!Hlmalloc, Hlmalloc
<1>. QED  BY <1>1, <1>2, <1>13, <1>15
------------------------------------------------------------------------------
(***************************************************************************)
(* The invariant of the words: they spell a heap whose chunks in use are   *)
(* the blocks of the callers, and what a caller has stored in its block    *)
(* is there.                                                               *)
(***************************************************************************)
MemInv ==
  /\ Whole(HeapOf(mem), live) /\ Spells(mem, HeapOf(mem))
  /\ stored \subseteq DOMAIN live /\ PayloadIsKept

\* The first heap.
LEMMA FirstHeapSpells ==
  ASSUME NEW m, m = EmptyHeap([i \in Addresses |-> Junk], 0, InitPages)
  PROVE  Spells(m, NewHeap(InitPages))
<1> DEFINE g == NewHeap(InitPages)
           e == End(g)
           m0 == [i \in Addresses |-> Junk]
           m1 == [m0 EXCEPT ![0] = HeapMark(InitPages), ![e] = HeapMark(-InitPages)]
           d == e - 1
           w == Chunk(d, 0)
<1>1. /\ Tiled(g) /\ g.pages = InitPages /\ g.busy = {} /\ Starts(g) = {1} /\ g.size[1] = d
      /\ e = W * InitPages - 1 /\ W * InitPages \in Nat
  <2>1. W * InitPages \in Nat
    BY HeapCallsAssumption, HeapAssumption, Times
  <2>2. g.size[1] = W * InitPages - 2 /\ e = W * InitPages - 1 /\ g.pages = InitPages
        /\ Starts(g) = {1} /\ g.busy = {}
    BY DEF NewHeap, Starts, End
  <2>. HIDE DEF g, e
  <2>3. Tiled(g)
    BY HeapCallsAssumption, NewHeapTiled DEF g
  <2>. QED  BY <2>1, <2>2, <2>3
<1>. HIDE DEF g
<1>2. /\ 0 \in Addresses /\ e \in Addresses /\ 1 \in Addresses /\ e - 1 \in Addresses
      /\ Addresses \subseteq Nat /\ e \in Nat /\ e >= 3
  <2>1. 0 .. e \subseteq Addresses /\ e \in Nat /\ e >= 3
    BY <1>1, WordsOfHeap, HeapCallsAssumption
  <2>2. Addresses \subseteq Nat
    BY DEF Addresses
  <2>. QED  BY <2>1, <2>2
<1>3. HeapMark(InitPages) \in Words /\ HeapMark(-InitPages) \in Words
  <2>1. \A i \in Int : i % NPages \in Nat
    BY HeapCallsAssumption, HeapWordsAssumption
  <2>. QED  BY <2>1, HeapCallsAssumption DEF HeapMark, Words
<1>4. m = Framed(m1, 1, d, 0)
  <2>1. W * 0 = 0 /\ W * (0 + InitPages) - 1 = e /\ W * InitPages - 2 = d
    BY <1>1, HeapAssumption, HeapCallsAssumption
  <2>2. m = Framed([m0 EXCEPT ![W * 0] = HeapMark(InitPages),
                              ![W * (0 + InitPages) - 1] = HeapMark(-InitPages)],
                   W * 0 + 1, W * InitPages - 2, 0)
    BY DEF EmptyHeap
  <2>3. W * 0 + 1 = 1
    BY <2>1
  <2>. HIDE DEF m0, e, d
  <2>. QED  BY <2>1, <2>2, <2>3
<1>. HIDE DEF e
<1>5. m1 \in [Addresses -> Words] /\ m1[0] = HeapMark(InitPages) /\ m1[e] = HeapMark(-InitPages)
  BY <1>2, <1>3, HeapWordsAssumption
<1>. HIDE DEF m1
<1>6. d \in Addresses /\ 1 + d - 1 = d /\ d \in Nat /\ d >= 2 /\ e # d /\ e # 1
  BY <1>2
<1>. HIDE DEF d
<1>7. m = [i \in Addresses |-> IF i = 1 \/ i = d THEN w ELSE m1[i]] /\ m \in [Addresses -> Words]
  <2> DEFINE s == 1
  <2>1. s \in Addresses /\ s \in Nat /\ s + d - 1 \in Addresses /\ 0 \in {0, 1}
        /\ s + d - 1 = d /\ m = Framed(m1, s, d, 0)
    BY <1>2, <1>4, <1>6
  <2>. HIDE DEF s
  <2>2. Framed(m1, s, d, 0)
          = [i \in Addresses |-> IF i = s \/ i = s + d - 1 THEN Chunk(d, 0) ELSE m1[i]]
    BY <1>5, <1>6, <2>1, FramedIs
  <2>3. Framed(m1, s, d, 0) \in [Addresses -> Words]
    BY <1>5, <1>6, <2>1, FramedIs
  <2>. QED  BY <2>1, <2>2, <2>3 DEF s
<1>. HIDE DEF w
<1>8. m[1] = w /\ m[d] = w /\ m[0] = HeapMark(InitPages) /\ m[e] = HeapMark(-InitPages)
  <2>. HIDE DEF m0
  <2>1. m[1] = w /\ m[d] = w
    BY <1>2, <1>6, <1>7
  <2>2. 0 # 1 /\ 0 # d
    BY <1>6
  <2>3. m[0] = m1[0] /\ m[e] = m1[e]
    BY <1>2, <1>6, <1>7, <2>2
  <2>. QED  BY <1>5, <2>1, <2>3
<1>9. HeaderOf(g, 1) = w /\ NextChunk(g, 1) - 1 = d
  BY <1>1, <1>6 DEF HeaderOf, NextChunk, w
<1>. QED  BY <1>1, <1>7, <1>8, <1>9, HeapCallsAssumption DEF Spells, g, e

\* The first memory spells the first heap.
LEMMA MemInitInv == MemInit => MemInv /\ H!Init
<1>. SUFFICES ASSUME MemInit PROVE MemInv /\ H!Init
  OBVIOUS
<1> DEFINE g == NewHeap(InitPages)
<1>1. Tiled(g) /\ NoTwoFree(g) /\ g.busy = {} /\ g.pages = InitPages
  BY HeapCallsAssumption, NewHeapTiled DEF NewHeap
<1>. HIDE DEF g
<1>2. Spells(mem, g)
  BY FirstHeapSpells DEF MemInit, g
<1>3. HeapOf(mem) = g
  BY <1>1, <1>2, HeapOfSpelled
<1>4. live = NoBlocks /\ stored = {} /\ call = [op |-> "none"]
  BY DEF MemInit
<1>5. DOMAIN live = {} /\ live = [p \in DOMAIN live |-> live[p]]
  BY <1>4 DEF NoBlocks
<1>6. Whole(g, live)
  BY <1>1, <1>5, HeapCallsAssumption DEF Whole, Blocks
<1>7. MemInv
  BY <1>2, <1>3, <1>4, <1>6 DEF MemInv, PayloadIsKept
<1>8. H!Init
  BY <1>3, <1>4, SameOperators DEF H!Init, H!NoBlocks, NoBlocks, g
<1>. QED  BY <1>7, <1>8

\* The words of a block's payload lie in its chunk, behind the header and before the footer.
LEMMA PayloadInside ==
  ASSUME NEW g, NEW l, Whole(g, l), NEW p \in DOMAIN l
  PROVE  /\ p \in Nat \ {0} /\ p - 1 \in g.busy /\ p - 1 \in Starts(g)
         /\ PayloadWords(l[p]) \in Nat \ {0}
         /\ NextChunk(g, p - 1) = p + PayloadWords(l[p]) + 1
<1>1. p \in Nat \ {0} /\ l[p] \in Sizes \ {0} /\ g.size[p - 1] = Need(l[p]) /\ p - 1 \in g.busy
  BY DEF Whole, Blocks
<1>2. Need(l[p]) = PayloadWords(l[p]) + 2 /\ PayloadWords(l[p]) \in Nat \ {0}
  BY <1>1, SizeFacts
<1>. QED  BY <1>1, <1>2 DEF Whole, Tiled, NextChunk

\* What is stored in blocks that stay is kept when the words of the chunks in use are.
LEMMA StoredStays ==
  ASSUME NEW g, NEW l, Whole(g, l), NEW c, c.busy \subseteq g.busy, c.size = g.size,
         NEW m, NEW k, KeepsBusy(c, m, k), NEW p \in DOMAIN l, p - 1 \in c.busy,
         NEW i \in p .. p + PayloadWords(l[p]) - 1
  PROVE  k[i] = m[i]
<1>1. p \in Nat /\ PayloadWords(l[p]) \in Nat /\ NextChunk(g, p - 1) = p + PayloadWords(l[p]) + 1
  BY PayloadInside
<1>2. NextChunk(c, p - 1) = NextChunk(g, p - 1)
  BY DEF NextChunk
<1>3. i \in p - 1 .. NextChunk(c, p - 1) - 1
  BY <1>1, <1>2
<1>. QED  BY <1>3 DEF KeepsBusy

\* A request on the words is one on the chunks.
LEMMA MemMallocStep ==
  ASSUME MemInv, NEW bytes \in Sizes, NEW grows \in BOOLEAN, MemMalloc(bytes, grows)
  PROVE  MemInv' /\ H!Malloc(bytes, grows)
<1> DEFINE g == HeapOf(mem)
           r == Hlmalloc(g, bytes, grows)
           mr == MemHlmalloc(mem, bytes, grows)
<1>1. /\ grows => HeapSize(mem) + PagesFor(bytes) <= MaxPages
      /\ mem' = mr.m /\ live' = Give(mr.ret, bytes) /\ stored' = stored
      /\ call' = [op |-> "malloc", bytes |-> bytes, grows |-> grows, ret |-> mr.ret]
  BY DEF MemMalloc
<1>2. Whole(g, live) /\ Spells(mem, g) /\ g.pages = HeapSize(mem)
  BY DEF MemInv, HeapOf
<1>. HIDE DEF g
<1>3. Tiled(g) /\ (grows => g.pages + PagesFor(bytes) <= MaxPages)
  BY <1>1, <1>2 DEF Whole
<1>4. mr.ret = r.ret /\ Spells(mr.m, r.h) /\ KeepsBusy(g, mem, mr.m)
  BY <1>2, <1>3, MemHlmallocSpells
<1>5. live' = Given(live, r.ret, bytes)
  BY <1>1, <1>4 DEF Give, Given
<1>6. /\ Whole(r.h, live')
      /\ r.ret # Null => r.ret \in Nat \ {0} /\ r.ret \notin DOMAIN live /\ bytes # 0
  BY <1>2, <1>3, <1>5, RequestKeeps
<1>. HIDE DEF r, mr
<1>7. HeapOf(mem') = r.h
  BY <1>1, <1>4, <1>6, HeapOfSpelled DEF Whole
<1>8. DOMAIN live \subseteq DOMAIN live' /\ \A q \in DOMAIN live : live'[q] = live[q]
  BY <1>5, <1>6 DEF Given
<1>9. PayloadIsKept'
  <2>. SUFFICES ASSUME NEW p \in stored, NEW i \in p .. p + PayloadWords(live[p]) - 1
                PROVE  mem'[i] = Stamp(p)
    BY <1>1, <1>8 DEF PayloadIsKept, Payload, MemInv
  <2>1. p \in DOMAIN live /\ p - 1 \in g.busy
    BY <1>2, PayloadInside DEF MemInv
  <2>2. mem'[i] = mem[i]
    BY <1>1, <1>2, <1>4, <2>1, StoredStays
  <2>. QED  BY <2>2 DEF MemInv, PayloadIsKept, Payload
<1>10. MemInv'
  BY <1>1, <1>4, <1>6, <1>7, <1>8, <1>9 DEF MemInv
<1>11. H!Malloc(bytes, grows)
  <2>1. H!Hlmalloc(HeapOf(mem), bytes, grows) = r
    BY SameOperators DEF r, g
  <2>2. live' = H!Give(r.ret, bytes)
    BY <1>5 DEF H!Give, H!Null, Null, Given
  <2>3. H!PagesFor(bytes) = PagesFor(bytes) /\ HeapOf(mem).pages = g.pages
    BY SameOperators DEF g
  <2>4. HeapOf(mem)' = r.h
    BY <1>7
  <2>. QED  BY <1>1, <1>3, <1>4, <2>1, <2>2, <2>3, <2>4 DEF H!Malloc
<1>. QED  BY <1>10, <1>11

\* Giving a block back to the words is giving it back to the chunks.
LEMMA MemFreeStep ==
  ASSUME MemInv, NEW p \in DOMAIN live \cup {Null}, MemFree(p)
  PROVE  MemInv' /\ H!Free(p)
<1> DEFINE g == HeapOf(mem)
           c == [g EXCEPT !.busy = @ \ {p - 1}]
           r == Kfree(g, p)
           mr == MemKfree(mem, p)
<1>1. /\ mem' = mr.m /\ live' = [q \in DOMAIN live \ {p} |-> live[q]] /\ stored' = stored \ {p}
      /\ call' = [op |-> "free", ret |-> mr.ret]
  BY DEF MemFree, TakeBack
<1>2. Whole(g, live) /\ Spells(mem, g)
  BY DEF MemInv
<1>. HIDE DEF g
<1>3. Tiled(g) /\ (p = Null \/ (p \in Nat \ {0} /\ p - 1 \in g.busy))
  BY <1>2, PayloadInside DEF Whole
<1>4. mr.ret = r.ret /\ Spells(mr.m, r.h) /\ KeepsBusy(c, mem, mr.m)
  BY <1>2, <1>3, MemKfreeSpells
<1>5. c.busy = g.busy \ {p - 1} /\ c.size = g.size
  BY <1>3, GiveBackTiled
<1>6. Whole(r.h, live')
  BY <1>1, <1>2, ReturnKeeps
<1>. HIDE DEF r, mr, c
<1>7. HeapOf(mem') = r.h
  BY <1>1, <1>4, <1>6, HeapOfSpelled DEF Whole
<1>8. DOMAIN live' = DOMAIN live \ {p} /\ \A q \in DOMAIN live' : live'[q] = live[q]
  BY <1>1
<1>9. PayloadIsKept'
  <2>. SUFFICES ASSUME NEW q \in stored, q # p, NEW i \in q .. q + PayloadWords(live[q]) - 1
                PROVE  mem'[i] = Stamp(q)
    BY <1>1, <1>8 DEF PayloadIsKept, Payload, MemInv
  <2>1. q \in DOMAIN live /\ q - 1 \in g.busy /\ q \in Nat \ {0}
    BY <1>2, PayloadInside DEF MemInv
  <2>2. q - 1 \in c.busy
    BY <1>3, <1>5, <2>1 DEF Null
  <2>3. mem'[i] = mem[i]
    BY <1>1, <1>2, <1>4, <1>5, <2>1, <2>2, StoredStays
  <2>. QED  BY <2>3 DEF MemInv, PayloadIsKept, Payload
<1>10. MemInv'
  BY <1>1, <1>4, <1>6, <1>7, <1>8, <1>9 DEF MemInv
<1>11. H!Free(p)
  <2>1. H!Kfree(HeapOf(mem), p) = r
    BY SameOperators DEF r, g
  <2>2. HeapOf(mem)' = r.h
    BY <1>7
  <2>. QED  BY <1>1, <1>4, <2>1, <2>2 DEF H!Free, H!TakeBack
<1>. QED  BY <1>10, <1>11

\* What a caller stores in its block touches neither a header nor a footer.
LEMMA StoreStep ==
  ASSUME MemInv, NEW p \in DOMAIN live, Store(p)
  PROVE  MemInv' /\ HeapOf(mem') = HeapOf(mem)
<1> DEFINE g == HeapOf(mem)
           f == NextChunk(g, p - 1)
           n == PayloadWords(live[p])
<1>1. /\ mem' = [i \in Addresses |-> IF i \in p .. p + n - 1 THEN Stamp(p) ELSE mem[i]]
      /\ stored' = stored \cup {p} /\ live' = live
  BY DEF Store, Payload
<1>2. Whole(g, live) /\ Spells(mem, g) /\ Tiled(g)
  BY DEF MemInv, Whole
<1>. HIDE DEF g
<1>3. /\ p \in Nat \ {0} /\ p - 1 \in Starts(g) /\ n \in Nat \ {0} /\ f = p + n + 1
      /\ p .. p + n - 1 \subseteq p - 1 .. f - 1
  <2>1. p \in Nat \ {0} /\ p - 1 \in Starts(g) /\ n \in Nat \ {0} /\ f = p + n + 1
    BY <1>2, PayloadInside
  <2>. HIDE DEF n, f
  <2>. QED  BY <2>1
<1>. HIDE DEF n
<1>4. mem' \in [Addresses -> Words]
  <2>1. Stamp(p) \in Words
    BY <1>3 DEF Stamp, Words
  <2>. QED  BY <1>1, <1>2, <2>1 DEF Spells
<1>5. ASSUME NEW i \in Addresses, i \notin p .. p + n - 1
      PROVE  mem'[i] = mem[i]
  BY <1>1, <1>5
<1>6. ASSUME NEW s \in Starts(g)
      PROVE  mem'[s] = mem[s] /\ mem'[NextChunk(g, s) - 1] = mem[NextChunk(g, s) - 1]
  <2> DEFINE e == NextChunk(g, s)
  <2>1. s \in Addresses /\ e - 1 \in Addresses /\ s \in s .. e - 1 /\ e - 1 \in s .. e - 1
    BY <1>2, WordsOfHeap DEF Spells
  <2>2. CASE s = p - 1
    <3>1. s \notin p .. p + n - 1 /\ e - 1 \notin p .. p + n - 1
      BY <1>3, <2>2
    <3>. QED  BY <1>5, <2>1, <3>1
  <2>3. CASE s # p - 1
    <3>1. s \notin p - 1 .. f - 1 /\ e - 1 \notin p - 1 .. f - 1
      BY <1>2, <1>3, <2>1, <2>3, ChunksApart
    <3>. HIDE DEF e, f
    <3>2. s \notin p .. p + n - 1 /\ e - 1 \notin p .. p + n - 1
      BY <1>3, <3>1
    <3>. QED  BY <1>5, <2>1, <3>2 DEF e
  <2>. QED  BY <2>2, <2>3
<1>7. mem'[0] = mem[0] /\ mem'[End(g)] = mem[End(g)]
  <2>1. 0 \in Addresses /\ End(g) \in Addresses /\ End(g) \in Nat /\ f <= End(g)
    BY <1>2, <1>3, WordsOfHeap DEF Spells
  <2>2. 0 \notin p .. p + n - 1 /\ End(g) \notin p .. p + n - 1
    <3>. HIDE DEF f
    <3>. QED  BY <1>3, <2>1
  <2>. QED  BY <1>5, <2>1, <2>2
<1>8. Spells(mem', g)
  BY <1>2, <1>4, <1>6, <1>7 DEF Spells
<1>9. HeapOf(mem') = g
  BY <1>2, <1>8, HeapOfSpelled
<1>10. PayloadIsKept'
  <2>. SUFFICES ASSUME NEW q \in stored \cup {p}, NEW i \in q .. q + PayloadWords(live[q]) - 1
                PROVE  mem'[i] = Stamp(q)
    BY <1>1 DEF PayloadIsKept, Payload
  <2>1. /\ q \in DOMAIN live /\ q \in Nat \ {0} /\ q - 1 \in Starts(g)
        /\ PayloadWords(live[q]) \in Nat \ {0}
        /\ NextChunk(g, q - 1) = q + PayloadWords(live[q]) + 1
    BY <1>2, PayloadInside DEF MemInv
  <2>2. i \in q - 1 .. NextChunk(g, q - 1) - 1
    BY <2>1
  <2>3. i \in Addresses
    <3>1. NextChunk(g, q - 1) \in 2 .. End(g) /\ 0 .. End(g) \subseteq Addresses /\ End(g) \in Nat
      BY <1>2, <2>1, WordsOfHeap DEF Spells
    <3>. QED  BY <2>1, <3>1
  <2>4. CASE q = p
    <3>1. i \in p .. p + n - 1
      BY <2>4 DEF n
    <3>. QED  BY <1>1, <2>3, <2>4, <3>1
  <2>5. CASE q # p
    <3>1. q - 1 # p - 1
      BY <1>3, <2>1, <2>5
    <3>2. i \notin p - 1 .. f - 1
      BY <1>2, <1>3, <2>1, <2>2, <3>1, ChunksApart
    <3>3. mem'[i] = mem[i]
      BY <1>3, <1>5, <2>3, <3>2
    <3>. QED  BY <2>5, <3>3 DEF MemInv, PayloadIsKept, Payload
  <2>. QED  BY <2>4, <2>5
<1>11. MemInv'
  BY <1>1, <1>2, <1>8, <1>9, <1>10 DEF MemInv
<1>. QED  BY <1>9, <1>11 DEF g

\* Every step of the words is a step of the chunks, or leaves them as they are.
LEMMA MemStep ==
  ASSUME MemInv, [MemNext]_memVars
  PROVE  MemInv' /\ [H!Next]_(H!vars)
<1>1. ASSUME NEW bytes \in Sizes, NEW grows \in BOOLEAN, MemMalloc(bytes, grows)
      PROVE  MemInv' /\ [H!Next]_(H!vars)
  BY <1>1, MemMallocStep DEF H!Next
<1>2. ASSUME NEW p \in DOMAIN live \cup {Null}, MemFree(p)
      PROVE  MemInv' /\ [H!Next]_(H!vars)
  <2>1. H!Null = Null
    BY DEF H!Null, Null
  <2>. QED  BY <1>2, <2>1, MemFreeStep DEF H!Next
<1>3. ASSUME NEW p \in DOMAIN live, Store(p)
      PROVE  MemInv' /\ [H!Next]_(H!vars)
  <2>1. HeapOf(mem)' = HeapOf(mem) /\ live' = live /\ call' = call
    BY <1>3, StoreStep DEF Store
  <2>. QED  BY <1>3, <2>1, StoreStep DEF H!vars
<1>4. CASE UNCHANGED memVars
  BY <1>4 DEF memVars, MemInv, PayloadIsKept, Payload, H!vars
<1>. QED  BY <1>1, <1>2, <1>3, <1>4 DEF MemNext

\* Every chunk ends with a copy of its header (memManager.cpp:19-32).
THEOREM FootersAlwaysAgree == MemSpec => []FootersAgree
<1>1. MemInv => FootersAgree
  <2>. SUFFICES ASSUME MemInv, NEW s \in MemStarts(mem)
                PROVE  mem[s + SizeOf(mem[s]) - 1] = mem[s]
    BY DEF FootersAgree
  <2>1. Tiled(HeapOf(mem)) /\ Spells(mem, HeapOf(mem))
    BY DEF MemInv, Whole
  <2>2. PICK g : g = HeapOf(mem)
    OBVIOUS
  <2>3. s \in Starts(g) /\ mem[s] = HeaderOf(g, s) /\ mem[NextChunk(g, s) - 1] = HeaderOf(g, s)
    BY <2>1, <2>2, StartsAreMet DEF Spells
  <2>4. SizeOf(mem[s]) = g.size[s]
    BY <2>1, <2>2, <2>3, HeaderSays
  <2>5. NextChunk(g, s) = s + SizeOf(mem[s])
    BY <2>4 DEF NextChunk
  <2>6. s \in Nat /\ NextChunk(g, s) \in Nat /\ SizeOf(mem[s]) \in Nat
    BY <2>1, <2>2, <2>3, <2>4, WordsOfHeap DEF Spells
  <2>. QED  BY <2>3, <2>5, <2>6
<1>. QED  BY <1>1, MemInitInv, MemStep, PTL DEF MemSpec

\* No call and no other caller's store changes what a caller has stored in its block.
THEOREM PayloadIsAlwaysKept == MemSpec => []PayloadIsKept
<1>1. MemInv => PayloadIsKept
  BY DEF MemInv
<1>. QED  BY <1>1, MemInitInv, MemStep, PTL DEF MemSpec

\* The heap of words, as the code walks and writes it, implements the heap of chunks.
THEOREM WordsImplementHeap == MemSpec => ImplementsHeap
BY MemInitInv, MemStep, PTL DEF MemSpec, ImplementsHeap, H!Spec
==============================================================================
