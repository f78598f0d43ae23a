----------------------------- MODULE VirtMemLemmas -----------------------------
(***************************************************************************)
(* What the functions of VirtMem do to the page tables, for every size of  *)
(* the tables, and for every layout of the boot tables they start from.    *)
(***************************************************************************)
EXTENDS VirtMem, PhysMemLemmas
------------------------------------------------------------------------------
(***************************************************************************)
(* Page numbers as pairs of a directory entry and a table entry.           *)
(***************************************************************************)
LEMMA DivMod ==
  ASSUME NEW n \in Nat, 0 < n, NEW v \in Nat
  PROVE  /\ v \div n \in Nat /\ v % n \in 0 .. n - 1
         /\ v = n * (v \div n) + (v % n)
BY Z3

LEMMA PageIndices ==
  ASSUME NEW v \in Pages
  PROVE  Pde(v) \in Idx /\ Pte(v) \in Idx /\ v = PageOf(Pde(v), Pte(v))
<1>. USE VirtMemAssumption
<1>1. /\ v \in Nat /\ v < Fan * Fan /\ Fan \in Nat /\ 0 < Fan
      /\ v \div Fan \in Nat /\ v % Fan \in 0 .. Fan - 1
      /\ v = Fan * (v \div Fan) + (v % Fan)
  BY DivMod DEF Pages
<1>2. v \div Fan < Fan
  <2>1. ASSUME NEW q \in Nat, Fan <= q PROVE Fan * Fan <= Fan * q
    BY <2>1
  <2>2. CASE Fan <= v \div Fan
    <3>1. Fan * Fan <= Fan * (v \div Fan)
      BY <1>1, <2>1, <2>2
    <3>2. Fan * (v \div Fan) \in Nat /\ Fan * Fan \in Nat
      BY <1>1
    <3>. QED  BY <1>1, <3>1, <3>2
  <2>. QED  BY <1>1, <2>2
<1>3. Fan * (v \div Fan) = (v \div Fan) * Fan
  BY <1>1
<1>. QED  BY <1>1, <1>2, <1>3 DEF Pde, Pte, Idx, PageOf

LEMMA PageUnique ==
  ASSUME NEW v \in Pages, NEW w \in Pages, Pde(v) = Pde(w), Pte(v) = Pte(w)
  PROVE  v = w
BY VirtMemAssumption, DivMod DEF Pages, Pde, Pte

LEMMA WindowIndices ==
  ASSUME NEW d \in Idx
  PROVE  WindowPage(d) \in Pages /\ Pde(WindowPage(d)) = Rec /\ Pte(WindowPage(d)) = d
<1>. USE VirtMemAssumption
<1> DEFINE v == WindowPage(d)
<1>1. v = Rec * Fan + d /\ Rec * Fan = Fan * Rec /\ Fan * Fan = Fan * Rec + Fan
  BY DEF WindowPage, PageOf, Rec
<1>2. v \in Pages
  BY <1>1 DEF Pages, Idx, Rec
<1>3. v \div Fan = Rec /\ v % Fan = d
  <2>1. /\ v \div Fan \in Nat /\ v % Fan \in 0 .. Fan - 1
        /\ v = Fan * (v \div Fan) + (v % Fan)
    <3>1. v \in Nat /\ Fan \in Nat /\ 0 < Fan
      BY <1>2 DEF Pages
    <3>. HIDE VirtMemAssumption DEF v
    <3>. QED  BY <3>1, DivMod
  <2>2. ASSUME NEW a \in Nat, NEW b \in Nat, NEW x \in 0 .. Fan - 1, NEW y \in 0 .. Fan - 1,
               Fan * a + x = Fan * b + y
        PROVE  a = b /\ x = y
    <3>1. ASSUME NEW i \in Nat, NEW j \in Nat, i < j PROVE Fan * i + Fan <= Fan * j
      <4>1. Fan * (i + 1) <= Fan * j
        BY <3>1
      <4>. QED  BY <4>1
    <3>2. Fan * a \in Nat /\ Fan * b \in Nat
      OBVIOUS
    <3>3. ~(a < b) /\ ~(b < a)
      BY <2>2, <3>1, <3>2
    <3>. QED  BY <2>2, <3>2, <3>3
  <2>3. Rec \in Nat /\ d \in 0 .. Fan - 1
    BY DEF Rec, Idx
  <2>. HIDE DEF v
  <2>. QED  BY <1>1, <2>1, <2>2, <2>3
<1>. QED  BY <1>2, <1>3 DEF Pde, Pte
------------------------------------------------------------------------------
(***************************************************************************)
(* A layout of boot tables, a record of                                    *)
(*     table   the directory entries that have a table -> their frames     *)
(*     pinned  pages that stay mapped: each table has one                  *)
(*     kernel  the pages of the kernel's image, in which the tables lie    *)
(***************************************************************************)
Dirs(B) == DOMAIN B.table
TablesOf(B) == {PageDir} \cup {B.table[d] : d \in Dirs(B)}

IsLayout(B) ==
  /\ Dirs(B) \subseteq Idx \ {Rec}
  /\ \A d \in Dirs(B) : B.table[d] \in Frames \ {PageDir}
  /\ \A d, e \in Dirs(B) : B.table[d] = B.table[e] => d = e
  /\ \A d \in Dirs(B) : \E v \in B.pinned : Pde(v) = d
  /\ B.pinned \subseteq UserPages \ {0} /\ B.kernel \subseteq B.pinned
  /\ \A v \in B.pinned : Pde(v) \in Dirs(B)
  /\ Pde(0) \in Dirs(B)

(***************************************************************************)
(* The invariant of the namespace, as a predicate of its state.  The       *)
(* directory is the one of the boot code; the tables are marked as used    *)
(* and reached through their windows and the kernel's pages only; the TLB  *)
(* says what the tables say; pages that are pinned are mapped.             *)
(***************************************************************************)
VMType ==
  [pm : PMType, mem : [Frames -> Tables], tlb : [Pages -> Entries],
   null : BOOLEAN, upiDir : BOOLEAN]

Directory(B) ==
  [i \in Idx |-> IF i = Rec THEN PageDir
                 ELSE IF i \in Dirs(B) THEN B.table[i] ELSE NoPage]

Good(B, s) ==
  /\ s \in VMType
  /\ s.mem[PageDir] = Directory(B)
  /\ TablesOf(B) \subseteq s.pm.used
  /\ \A v \in UserPages \ B.kernel : Walk(s, v) \notin TablesOf(B)
  /\ \A v \in Pages : s.tlb[v] \in {NoPage, Walk(s, v)}
  /\ \A v \in B.pinned : Walk(s, v) # NoPage

\* Frames are not NoPage, and the tables of the directory are distinct frames.
LEMMA LayoutFacts ==
  ASSUME NEW B, IsLayout(B)
  PROVE  /\ NoPage \notin Frames /\ Rec \in Idx /\ Rec \notin Dirs(B) /\ PageDir \in Frames
         /\ Dirs(B) \subseteq Idx
         /\ \A d \in Dirs(B) : B.table[d] \in Frames /\ B.table[d] # PageDir
         /\ \A d, e \in Dirs(B) : B.table[d] = B.table[e] => d = e
         /\ TablesOf(B) \subseteq Frames
         /\ 0 \in UserPages /\ 0 \notin B.pinned /\ B.pinned \subseteq UserPages
         /\ \A v \in B.pinned : Pde(v) \in Dirs(B)
         /\ Pde(0) \in Dirs(B)
<1>1. NoPage \notin Frames /\ Rec \in Idx /\ PageDir \in Frames
  BY PhysMemAssumption, VirtMemAssumption DEF NoPage, Frames, Rec, Idx
<1>2. /\ Rec \notin Dirs(B) /\ Dirs(B) \subseteq Idx
      /\ \A d \in Dirs(B) : B.table[d] \in Frames /\ B.table[d] # PageDir
      /\ \A d, e \in Dirs(B) : B.table[d] = B.table[e] => d = e
  BY DEF IsLayout
<1>3. TablesOf(B) \subseteq Frames
  BY <1>1, <1>2 DEF TablesOf
<1>4. 0 \in UserPages
  <2>1. 0 \in Pages
    BY VirtMemAssumption DEF Pages
  <2>. QED  BY <1>2, <2>1 DEF UserPages, IsLayout
<1>. QED  BY <1>1, <1>2, <1>3, <1>4 DEF IsLayout

\* What the tables say of the pages of callers and of the windows.
LEMMA WalkUser ==
  ASSUME NEW B, IsLayout(B), NEW s, Good(B, s), NEW v \in UserPages
  PROVE  /\ Pde(v) \in Idx /\ Pte(v) \in Idx /\ Pde(v) # Rec
         /\ Walk(s, v) = IF Pde(v) \in Dirs(B) THEN s.mem[B.table[Pde(v)]][Pte(v)]
                         ELSE NoPage
         /\ Walk(s, v) \in Entries
<1>1. Pde(v) \in Idx /\ Pte(v) \in Idx /\ Pde(v) # Rec
  BY PageIndices DEF UserPages
<1>2. s.mem[PageDir][Pde(v)] = IF Pde(v) \in Dirs(B) THEN B.table[Pde(v)] ELSE NoPage
  BY <1>1 DEF Good, Directory
<1>3. Walk(s, v) = IF Pde(v) \in Dirs(B) THEN s.mem[B.table[Pde(v)]][Pte(v)]
                   ELSE NoPage
  BY <1>2, LayoutFacts DEF Walk
<1>4. s.mem \in [Frames -> [Idx -> Entries]]
  BY DEF Good, VMType, Tables
<1>5. Walk(s, v) \in Entries
  BY <1>1, <1>3, <1>4, LayoutFacts DEF Entries
<1>. QED  BY <1>1, <1>3, <1>5

LEMMA WalkWindow ==
  ASSUME NEW B, IsLayout(B), NEW s, Good(B, s), NEW d \in Dirs(B)
  PROVE  /\ Walk(s, WindowPage(d)) = B.table[d]
         /\ Lookup(s, WindowPage(d)) = B.table[d]
<1>1. /\ WindowPage(d) \in Pages /\ Pde(WindowPage(d)) = Rec /\ Pte(WindowPage(d)) = d
  BY WindowIndices, LayoutFacts
<1>2. s.mem[PageDir][Rec] = PageDir /\ s.mem[PageDir][d] = B.table[d]
  BY LayoutFacts DEF Good, Directory
<1>3. Walk(s, WindowPage(d)) = B.table[d]
  BY <1>1, <1>2, LayoutFacts DEF Walk
<1>4. s.tlb[WindowPage(d)] \in {NoPage, B.table[d]}
  BY <1>1, <1>3 DEF Good
<1>. QED  BY <1>3, <1>4 DEF Lookup

\* The code reads the translation of a page through the windows.
LEMMA ReadsWalk ==
  ASSUME NEW B, IsLayout(B), NEW s, Good(B, s), NEW v \in UserPages
  PROVE  /\ PteEntry(s, Pde(v), Pte(v)) = Walk(s, v)
         /\ VirtPageToPhysPage(s, v) = Walk(s, v)
         /\ PageIsUsing(s, v) <=> (s.null /\ v = 0) \/ Walk(s, v) # NoPage
         /\ HasTable(s, Pde(v)) <=> Pde(v) \in Dirs(B)
<1>1. Pde(v) \in Idx /\ Pde(v) # Rec
  BY WalkUser
<1>2. s.mem[PageDir][Pde(v)] = IF Pde(v) \in Dirs(B) THEN B.table[Pde(v)] ELSE NoPage
  BY <1>1 DEF Good, Directory
<1>3. HasTable(s, Pde(v)) <=> Pde(v) \in Dirs(B)
  BY <1>1, <1>2, LayoutFacts DEF HasTable, PdeEntry
<1>4. PteEntry(s, Pde(v), Pte(v)) = Walk(s, v)
  BY <1>3, WalkUser, WalkWindow DEF PteEntry
<1>5. v \in Pages
  BY DEF UserPages
<1>. QED  BY <1>3, <1>4, <1>5 DEF VirtPageToPhysPage, PageIsUsing
------------------------------------------------------------------------------
(***************************************************************************)
(* Writing the entry of one page and flushing it from the TLB changes the  *)
(* translation of that page only.                                          *)
(***************************************************************************)
Rewritten(B, s, t, v, e) ==
  /\ t \in VMType /\ t.pm = s.pm /\ t.null = s.null /\ t.upiDir = s.upiDir
  /\ t.mem = [s.mem EXCEPT ![B.table[Pde(v)]] = [@ EXCEPT ![Pte(v)] = e]]
  /\ t.tlb = [s.tlb EXCEPT ![v] = NoPage]

LEMMA EntryWritten ==
  ASSUME NEW B, IsLayout(B), NEW s, Good(B, s), NEW v \in UserPages,
         Pde(v) \in Dirs(B), NEW e \in Entries
  PROVE  LET t == Invlpg(SetPTEEntry(s, Pde(v), Pte(v), e), v)
         IN  Rewritten(B, s, t, v, e)
<1> DEFINE f == B.table[Pde(v)]
           t == Invlpg(SetPTEEntry(s, Pde(v), Pte(v), e), v)
           tab == [s.mem[f] EXCEPT ![Pte(v)] = e]
<1>1. Lookup(s, WindowPage(Pde(v))) = f /\ HasTable(s, Pde(v))
  BY WalkWindow, ReadsWalk
<1>2. /\ s \in VMType /\ f \in Frames /\ v \in Pages /\ Pte(v) \in Idx
      /\ s.mem \in [Frames -> [Idx -> Entries]] /\ s.tlb \in [Pages -> Entries]
  BY LayoutFacts, WalkUser DEF Good, VMType, Tables, UserPages
<1>3. SetPTEEntry(s, Pde(v), Pte(v), e) = [s EXCEPT !.mem[f][Pte(v)] = e]
  BY <1>1 DEF SetPTEEntry
<1>4. t = [[s EXCEPT !.mem[f][Pte(v)] = e] EXCEPT !.tlb[v] = NoPage]
  BY <1>3 DEF Invlpg
<1>5. /\ t.mem = [s.mem EXCEPT ![f] = tab] /\ t.tlb = [s.tlb EXCEPT ![v] = NoPage]
      /\ t.pm = s.pm /\ t.null = s.null /\ t.upiDir = s.upiDir
      /\ t = [pm |-> t.pm, mem |-> t.mem, tlb |-> t.tlb, null |-> t.null, upiDir |-> t.upiDir]
  BY <1>2, <1>4 DEF VMType
<1>6. tab \in Tables /\ NoPage \in Entries
  BY <1>2 DEF Tables, Entries
<1>7. t.mem \in [Frames -> Tables] /\ t.tlb \in [Pages -> Entries]
  BY <1>2, <1>5, <1>6 DEF VMType
<1>8. t \in VMType
  <2>. HIDE DEF t
  <2>. QED  BY <1>2, <1>5, <1>7 DEF VMType
<1>. QED  BY <1>5, <1>8 DEF Rewritten

LEMMA RewrittenWalks ==
  ASSUME NEW B, IsLayout(B), NEW s, Good(B, s), NEW v \in UserPages, Pde(v) \in Dirs(B),
         NEW e \in Entries \ TablesOf(B), v \in B.pinned => e # NoPage,
         NEW t, Rewritten(B, s, t, v, e)
  PROVE  /\ Good(B, t)
         /\ \A w \in UserPages : Walk(t, w) = IF w = v THEN e ELSE Walk(s, w)
<1> DEFINE f == B.table[Pde(v)]
<1>1. /\ t \in VMType /\ t.pm = s.pm /\ t.null = s.null
      /\ t.mem = [s.mem EXCEPT ![f] = [@ EXCEPT ![Pte(v)] = e]]
      /\ t.tlb = [s.tlb EXCEPT ![v] = NoPage]
  BY DEF Rewritten
<1>2. /\ f \in Frames /\ f # PageDir /\ Pte(v) \in Idx
      /\ s.mem \in [Frames -> [Idx -> Entries]] /\ s.tlb \in [Pages -> Entries]
  BY LayoutFacts, WalkUser DEF Good, VMType, Tables
<1>3. t.mem[PageDir] = Directory(B)
  BY <1>1, <1>2, LayoutFacts DEF Good
<1>4. ASSUME NEW w \in UserPages
      PROVE  Walk(t, w) = IF w = v THEN e ELSE Walk(s, w)
  <2>1. /\ Pde(w) \in Idx /\ Pte(w) \in Idx /\ Pde(w) # Rec
        /\ Walk(s, w) = IF Pde(w) \in Dirs(B) THEN s.mem[B.table[Pde(w)]][Pte(w)]
                        ELSE NoPage
    BY WalkUser
  <2>2. t.mem[PageDir][Pde(w)] = IF Pde(w) \in Dirs(B) THEN B.table[Pde(w)] ELSE NoPage
    BY <1>3, <2>1 DEF Directory
  <2>3. Walk(t, w) = IF Pde(w) \in Dirs(B) THEN t.mem[B.table[Pde(w)]][Pte(w)]
                     ELSE NoPage
    BY <2>2, LayoutFacts DEF Walk
  <2>4. CASE Pde(w) = Pde(v) /\ Pte(w) = Pte(v)
    <3>1. w = v
      BY <2>4, PageUnique DEF UserPages
    <3>2. t.mem[f][Pte(v)] = e
      BY <1>1, <1>2
    <3>. QED  BY <2>3, <3>1, <3>2
  <2>5. CASE Pde(w) = Pde(v) /\ Pte(w) # Pte(v)
    <3>1. w # v
      BY <2>5
    <3>2. t.mem[f][Pte(w)] = s.mem[f][Pte(w)]
      BY <1>1, <1>2, <2>1, <2>5
    <3>. QED  BY <2>1, <2>3, <2>5, <3>1, <3>2
  <2>6. CASE Pde(w) # Pde(v)
    <3>1. w # v
      BY <2>6
    <3>2. ASSUME Pde(w) \in Dirs(B)
          PROVE  t.mem[B.table[Pde(w)]] = s.mem[B.table[Pde(w)]]
      BY <1>1, <1>2, <2>6, <3>2, LayoutFacts
    <3>. QED  BY <2>1, <2>3, <3>1, <3>2
  <2>. QED  BY <2>4, <2>5, <2>6
<1>5. ASSUME NEW w \in Pages, w \notin UserPages
      PROVE  Walk(t, w) = Walk(s, w)
  <2>1. Pde(w) = Rec /\ Pte(w) \in Idx
    BY <1>5, PageIndices DEF UserPages
  <2>2. t.mem[PageDir] = s.mem[PageDir] /\ s.mem[PageDir][Rec] = PageDir
    BY <1>3, LayoutFacts DEF Good, Directory
  <2>. QED  BY <2>1, <2>2, LayoutFacts DEF Walk
<1>6. ASSUME NEW w \in Pages
      PROVE  t.tlb[w] \in {NoPage, Walk(t, w)}
  <2>1. s.tlb[w] \in {NoPage, Walk(s, w)}
    BY DEF Good
  <2>2. t.tlb[w] = IF w = v THEN NoPage ELSE s.tlb[w]
    BY <1>1, <1>2
  <2>3. w = v \/ Walk(t, w) = Walk(s, w)
    BY <1>4, <1>5
  <2>. QED  BY <2>1, <2>2, <2>3
<1>7. \A w \in B.pinned : Walk(t, w) # NoPage
  BY <1>4, LayoutFacts DEF Good
<1>8. \A w \in UserPages \ B.kernel : Walk(t, w) \notin TablesOf(B)
  BY <1>4 DEF Good
<1>. QED  BY <1>1, <1>3, <1>4, <1>6, <1>7, <1>8 DEF Good
------------------------------------------------------------------------------
(***************************************************************************)
(* The functions that callers use, where the directory has a table.        *)
(***************************************************************************)
\* s and t differ in the translation of page v only, which is e in t.
Remapped(B, s, t, v, e) ==
  /\ Good(B, t) /\ t.pm = s.pm /\ t.null = s.null /\ t.mem[PageDir] = s.mem[PageDir]
  /\ \A w \in UserPages : Walk(t, w) = IF w = v THEN e ELSE Walk(s, w)

\* map, of a page whose table exists and a frame that is no table.
LEMMA MapCorrect ==
  ASSUME NEW B, IsLayout(B), NEW s, Good(B, s), NEW v \in UserPages, Pde(v) \in Dirs(B),
         v = 0 => ~s.null, NEW p \in Frames \ TablesOf(B)
  PROVE  Map(s, v, p).ok /\ Remapped(B, s, Map(s, v, p).s, v, p)
<1> DEFINE t == Enter(s, v, p)
<1>1. PdeEntry(s, Pde(v)) # NoPage
  BY ReadsWalk DEF HasTable
<1>2. ~MapRefused(s, v, p)
  BY DEF MapRefused, UserPages
<1>3. Map(s, v, p) = [ok |-> TRUE, s |-> t]
  BY <1>1, <1>2 DEF Map
<1>4. p \in Entries \ TablesOf(B) /\ p # NoPage
  BY LayoutFacts DEF Entries
<1>5. Rewritten(B, s, t, v, p)
  BY <1>4, EntryWritten DEF Enter
<1>. HIDE DEF t
<1>6. /\ Good(B, t)
      /\ \A w \in UserPages : Walk(t, w) = IF w = v THEN p ELSE Walk(s, w)
  BY <1>4, <1>5, RewrittenWalks
<1>7. Remapped(B, s, t, v, p)
  BY <1>5, <1>6 DEF Remapped, Rewritten, Good
<1>. QED  BY <1>3, <1>7

\* unmap, of a page that is not pinned: its table has a pinned page and stays.
LEMMA UnmapCorrect ==
  ASSUME NEW B, IsLayout(B), NEW s, Good(B, s), NEW v \in UserPages \ B.pinned,
         Pde(v) \in Dirs(B)
  PROVE  Remapped(B, s, Unmap(s, v), v, NoPage)
<1> DEFINE u == SetPTEEntry(s, Pde(v), Pte(v), NoPage)
           t == Invlpg(u, v)
<1>1. PdeEntry(s, Pde(v)) # NoPage /\ v \in Pages
  BY ReadsWalk DEF HasTable, UserPages
<1>2. NoPage \in Entries \ TablesOf(B)
  BY LayoutFacts DEF Entries
<1>3. Rewritten(B, s, t, v, NoPage)
  BY <1>2, EntryWritten
<1>4. /\ Good(B, t)
      /\ \A w \in UserPages : Walk(t, w) = IF w = v THEN NoPage ELSE Walk(s, w)
  <2>. HIDE DEF t
  <2>. QED  BY <1>2, <1>3, RewrittenWalks
<1>5. ~TableIsEmpty(u, Pde(v))
  <2>1. PICK w \in B.pinned : Pde(w) = Pde(v)
    BY DEF IsLayout
  <2>2. w \in UserPages /\ w # v /\ w \in Pages
    BY <2>1, LayoutFacts DEF UserPages
  <2>3. PteEntry(t, Pde(w), Pte(w)) # NoPage
    <3>1. Walk(t, w) # NoPage
      BY <1>4, <2>1 DEF Good
    <3>. HIDE DEF t
    <3>. QED  BY <1>4, <2>2, <3>1, ReadsWalk
  <2>4. PteEntry(u, Pde(w), Pte(w)) # NoPage
    <3>1. u.mem = t.mem
      BY DEF Invlpg
    <3>2. Lookup(u, WindowPage(Pde(w))) = B.table[Pde(w)]
      <4>1. Lookup(s, WindowPage(Pde(w))) = B.table[Pde(w)]
        BY <2>1, WalkWindow
      <4>2. u.tlb = s.tlb
        BY ReadsWalk DEF SetPTEEntry
      <4>3. Walk(t, WindowPage(Pde(w))) = B.table[Pde(w)]
        BY <1>4, <2>1, WalkWindow
      <4>4. Walk(u, WindowPage(Pde(w))) = B.table[Pde(w)]
        BY <3>1, <4>3 DEF Walk
      <4>5. s.tlb[WindowPage(Pde(w))] \in {NoPage, B.table[Pde(w)]}
        BY <4>1, <2>1, WalkWindow DEF Lookup
      <4>. QED  BY <4>2, <4>4, <4>5 DEF Lookup
    <3>3. Lookup(t, WindowPage(Pde(w))) = B.table[Pde(w)]
      BY <1>4, <2>1, WalkWindow
    <3>4. HasTable(u, Pde(w)) /\ HasTable(t, Pde(w))
      <4>1. HasTable(t, Pde(w))
        BY <1>4, <2>1, <2>2, ReadsWalk
      <4>. QED  BY <3>1, <4>1 DEF HasTable, PdeEntry
    <3>5. PteEntry(t, Pde(w), Pte(w)) = t.mem[B.table[Pde(w)]][Pte(w)]
      BY <3>3, <3>4 DEF PteEntry
    <3>6. PteEntry(u, Pde(w), Pte(w)) = u.mem[B.table[Pde(w)]][Pte(w)]
      BY <3>2, <3>4 DEF PteEntry
    <3>. QED  BY <2>3, <3>1, <3>5, <3>6
  <2>5. Pte(w) \in Idx
    BY <2>2, PageIndices
  <2>. QED  BY <2>1, <2>4, <2>5 DEF TableIsEmpty
<1>6. Unmap(s, v) = t
  BY <1>1, <1>5 DEF Unmap, ReturnTable
<1>7. Remapped(B, s, t, v, NoPage)
  <2>. HIDE DEF t
  <2>. QED  BY <1>3, <1>4 DEF Remapped, Rewritten, Good
<1>. QED  BY <1>6, <1>7

\* Only the bitmap changes, and no table loses its mark.
LEMMA BitmapOnly ==
  ASSUME NEW B, IsLayout(B), NEW s, Good(B, s), NEW q \in PMType, TablesOf(B) \subseteq q.used
  PROVE  LET t == [s EXCEPT !.pm = q]
         IN  /\ Good(B, t) /\ t.pm = q /\ t.null = s.null /\ t.mem = s.mem
             /\ \A w \in Pages : Walk(t, w) = Walk(s, w)
<1> DEFINE t == [s EXCEPT !.pm = q]
<1>1. /\ t \in VMType /\ t.pm = q /\ t.null = s.null /\ t.mem = s.mem /\ t.tlb = s.tlb
  BY DEF Good, VMType
<1>. HIDE DEF t
<1>2. \A w \in Pages : Walk(t, w) = Walk(s, w)
  BY <1>1 DEF Walk
<1>3. \A w \in UserPages : w \in Pages
  BY DEF UserPages
<1>4. Good(B, t)
  BY <1>1, <1>2, <1>3, LayoutFacts DEF Good
<1>. QED  BY <1>1, <1>2, <1>4 DEF t

\* Marking one frame, as used or as unused.
LEMMA SetPageUsageType ==
  ASSUME NEW q \in PMType, NEW p
  PROVE  /\ SetPageUsage(q, p, TRUE) \in PMType
         /\ SetPageUsage(q, p, TRUE).used = q.used \cup ({p} \cap Frames)
         /\ SetPageUsage(q, p, FALSE) \in PMType
         /\ SetPageUsage(q, p, FALSE).used = q.used \ ({p} \cap Frames)
BY DEF SetPageUsage, Mark, PMType
\* A record of the namespace that differs in `null' only.
LEMMA NullOnly ==
  ASSUME NEW B, IsLayout(B), NEW s, Good(B, s)
  PROVE  LET t == [s EXCEPT !.null = TRUE]
         IN  /\ Good(B, t) /\ t.null = TRUE /\ t.pm = s.pm
             /\ \A w \in Pages : Walk(t, w) = Walk(s, w)
<1> DEFINE t == [s EXCEPT !.null = TRUE]
<1>1. /\ t \in VMType /\ t.pm = s.pm /\ t.null = TRUE /\ t.mem = s.mem /\ t.tlb = s.tlb
  BY DEF Good, VMType
<1>. HIDE DEF t
<1>2. \A w \in Pages : Walk(t, w) = Walk(s, w)
  BY <1>1 DEF Walk
<1>3. \A w \in UserPages : w \in Pages
  BY DEF UserPages
<1>4. Good(B, t)
  BY <1>1, <1>2, <1>3, LayoutFacts DEF Good
<1>. QED  BY <1>1, <1>2, <1>4 DEF t

\* A record of the namespace that differs in the direction of the search only.
LEMMA DirectionOnly ==
  ASSUME NEW B, IsLayout(B), NEW s, Good(B, s), NEW b \in BOOLEAN
  PROVE  LET t == [s EXCEPT !.upiDir = b]
         IN  /\ Good(B, t) /\ t.null = s.null /\ t.pm = s.pm
             /\ \A w \in Pages : Walk(t, w) = Walk(s, w)
<1> DEFINE t == [s EXCEPT !.upiDir = b]
<1>1. /\ t \in VMType /\ t.pm = s.pm /\ t.null = s.null /\ t.mem = s.mem /\ t.tlb = s.tlb
  BY DEF Good, VMType
<1>. HIDE DEF t
<1>2. \A w \in Pages : Walk(t, w) = Walk(s, w)
  BY <1>1 DEF Walk
<1>3. \A w \in UserPages : w \in Pages
  BY DEF UserPages
<1>4. Good(B, t)
  BY <1>1, <1>2, <1>3, LayoutFacts DEF Good
<1>. QED  BY <1>1, <1>2, <1>4 DEF t

\* A store into a frame that is no table changes no translation.
LEMMA FrameWritten ==
  ASSUME NEW B, IsLayout(B), NEW s, Good(B, s), NEW f \in Frames \ TablesOf(B),
         NEW c \in Tables
  PROVE  LET t == [s EXCEPT !.mem[f] = c]
         IN  /\ Good(B, t) /\ t.pm = s.pm /\ t.null = s.null
             /\ \A w \in Pages : Walk(t, w) = Walk(s, w)
<1> DEFINE t == [s EXCEPT !.mem[f] = c]
<1>1. /\ t \in VMType /\ t.pm = s.pm /\ t.null = s.null /\ t.tlb = s.tlb
      /\ t.mem = [s.mem EXCEPT ![f] = c]
  BY DEF Good, VMType
<1>. HIDE DEF t
<1>2. \A g \in TablesOf(B) : t.mem[g] = s.mem[g]
  BY <1>1, LayoutFacts DEF Good, VMType
<1>3. PageDir \in TablesOf(B) /\ \A d \in Dirs(B) : B.table[d] \in TablesOf(B)
  BY DEF TablesOf
<1>4. t.mem[PageDir] = Directory(B) /\ s.mem[PageDir] = Directory(B)
  BY <1>2, <1>3 DEF Good
<1>5. ASSUME NEW w \in Pages PROVE Walk(t, w) = Walk(s, w)
  <2>1. Directory(B)[Pde(w)] \in TablesOf(B) \cup {NoPage}
    BY <1>3, PageIndices DEF Directory
  <2>. QED  BY <1>2, <1>4, <2>1 DEF Walk
<1>6. \A w \in UserPages : w \in Pages
  BY DEF UserPages
<1>7. Good(B, t)
  BY <1>1, <1>4, <1>5, <1>6, LayoutFacts DEF Good
<1>. QED  BY <1>1, <1>5, <1>7 DEF t
------------------------------------------------------------------------------
(***************************************************************************)
(* The search for consecutive pages.                                       *)
(***************************************************************************)
RunStarts(s, num) ==
  {v \in Pages : v + num <= Fan * Fan /\ FreeRun(s, v, v + num - 1)}

\* As long as page 0 is in use, an upward walk finds the first run of pages, and
\* a downward walk from page 0 finds nothing: the count that is carried across a
\* turn is 0 by the time it matters.
LEMMA UpwardFinds ==
  ASSUME NEW s, PageIsUsing(s, 0), NEW num \in Nat \ {0}
  PROVE  IF Upward(s, num, 0) = NoPage THEN RunStarts(s, num) = {}
         ELSE /\ Upward(s, num, 0) \in RunStarts(s, num)
              /\ \A v \in RunStarts(s, num) : Upward(s, num, 0) <= v
<1> DEFINE R == RunEnds(s, num, 0)
<1>0. Fan * Fan \in Nat
  BY VirtMemAssumption
<1>1. \A v \in Pages : ~FreeRun(s, 0, v)
  BY <1>0 DEF FreeRun, Pages
<1>2. R = {v \in Pages : num <= v + 1 /\ FreeRun(s, v - num + 1, v)}
  BY <1>1 DEF RunEnds
<1>3. CASE R = {}
  <2>1. ASSUME NEW v \in RunStarts(s, num) PROVE FALSE
    <3>1. v + num - 1 \in Pages /\ num <= (v + num - 1) + 1
          /\ (v + num - 1) - num + 1 = v
      BY <1>0 DEF RunStarts, Pages
    <3>2. FreeRun(s, v, v + num - 1)
      BY DEF RunStarts
    <3>. QED  BY <1>2, <1>3, <3>1, <3>2
  <2>2. Upward(s, num, 0) = NoPage
    BY <1>3 DEF Upward
  <2>. QED  BY <2>1, <2>2
<1>4. CASE R # {}
  <2> DEFINE end == Min(R)
  <2>1. R \subseteq Nat
    BY <1>0 DEF RunEnds, Pages
  <2>2. end \in R /\ \A v \in R : end <= v
    <3>. HIDE DEF R
    <3>. QED  BY <1>4, <2>1, MinOfNaturals
  <2>3. end \in Pages /\ num <= end + 1 /\ FreeRun(s, end - num + 1, end)
    BY <1>2, <2>2
  <2>4. Upward(s, num, 0) = end - num + 1
    BY <1>1, <1>4, <2>3 DEF Upward
  <2>. HIDE DEF end
  <2>5. /\ end - num + 1 \in Pages /\ (end - num + 1) + num <= Fan * Fan
        /\ (end - num + 1) + num - 1 = end /\ end - num + 1 # NoPage
    BY <1>0, <2>3 DEF Pages, NoPage
  <2>6. ASSUME NEW v \in RunStarts(s, num) PROVE end - num + 1 <= v
    <3>1. v + num - 1 \in R /\ v \in Nat
      <4>1. v + num - 1 \in Pages /\ num <= (v + num - 1) + 1 /\ v \in Nat
            /\ (v + num - 1) - num + 1 = v /\ FreeRun(s, v, v + num - 1)
        BY <1>0 DEF RunStarts, Pages
      <4>. QED  BY <1>2, <4>1
    <3>2. end <= v + num - 1 /\ end \in Int
      BY <1>0, <2>2, <2>3, <3>1 DEF Pages
    <3>. QED  BY <3>1, <3>2
  <2>. QED  BY <2>3, <2>4, <2>5, <2>6 DEF RunStarts
<1>. QED  BY <1>3, <1>4

LEMMA RunFound ==
  ASSUME NEW s, s.upiDir \in BOOLEAN, PageIsUsing(s, 0), NEW num \in Nat \ {0}
  PROVE  LET r == VirtGetUsablePage(s, num)
         IN  IF r.ret = NoPage THEN RunStarts(s, num) = {}
             ELSE r.ret \in RunStarts(s, num) /\ \A v \in RunStarts(s, num) : r.ret <= v
<1>1. CASE num > Fan * Fan
  <2>1. RunStarts(s, num) = {}
    BY <1>1, VirtMemAssumption DEF RunStarts, Pages
  <2>. QED  BY <1>1, <2>1 DEF VirtGetUsablePage
<1>2. CASE ~(num > Fan * Fan)
  <2>1. \A c : Downward(s, num, c) = NoPage
    BY DEF Downward
  <2>2. FindRun(s, num).ret = Upward(s, num, 0)
    BY <2>1 DEF FindRun
  <2>3. VirtGetUsablePage(s, num).ret = Upward(s, num, 0)
    BY <1>2, <2>2 DEF VirtGetUsablePage
  <2>. QED  BY <2>3, UpwardFinds
<1>. QED  BY <1>1, <1>2

\* The direction of the search has no influence on what pages are in use.
LEMMA SameRuns ==
  ASSUME NEW s, NEW t, t.mem = s.mem, t.tlb = s.tlb, t.null = s.null, NEW num
  PROVE  RunStarts(t, num) = RunStarts(s, num)
<1>1. \A v : PageIsUsing(t, v) <=> PageIsUsing(s, v)
  BY DEF PageIsUsing, PteEntry, HasTable, PdeEntry, Lookup, Walk
<1>. QED  BY <1>1 DEF RunStarts, FreeRun
==============================================================================
