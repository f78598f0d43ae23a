---------------------------- MODULE VirtMemProofs ----------------------------
(***************************************************************************)
(* Proofs about virtual memory, for every size of the tables, every boot   *)
(* mapping and every contents that callers may store.  What the functions  *)
(* of VirtMem do to the tables is in VirtMemLemmas.                        *)
(***************************************************************************)
EXTENDS VirtMemSpec, VirtMemLemmas
------------------------------------------------------------------------------
(***************************************************************************)
(* The layout of the boot tables, where callers keep to them.              *)
(***************************************************************************)
Layout == [table |-> BootTable, pinned |-> Pinned, kernel |-> TablePages]

LEMMA BootLayout ==
  ASSUME ClientsStayInBootTables
  PROVE  /\ IsLayout(Layout) /\ Dirs(Layout) = BootDirs /\ TablesOf(Layout) = TableFrames
         /\ Layout.table = BootTable /\ Layout.pinned = Pinned /\ Layout.kernel = TablePages
         /\ NoPage \notin Frames
<1>1. /\ Layout.table = BootTable /\ Layout.pinned = Pinned /\ Layout.kernel = TablePages
  BY DEF Layout
<1>2. Dirs(Layout) = BootDirs /\ TablesOf(Layout) = TableFrames
  BY <1>1 DEF Dirs, TablesOf, BootDirs, TableFrames
<1>3. Rec \notin BootDirs
  BY BootAssumption
<1>4. \A v \in DOMAIN BootSpace : v \in UserPages /\ Pde(v) \in BootDirs
  BY <1>3, BootAssumption DEF UserPages
<1>5. IsLayout(Layout)
  BY <1>1, <1>2, <1>4, BootAssumption DEF IsLayout, ClientsStayInBootTables
<1>6. NoPage \notin Frames
  BY PhysMemAssumption DEF NoPage, Frames
<1>. QED  BY <1>1, <1>2, <1>5, <1>6

(***************************************************************************)
(* The inductive invariant of the specification.  A heap page is a page of *)
(* callers that stands for a frame of its own, marked as used and no frame *)
(* of the boot code.                                                       *)
(***************************************************************************)
NullOK(s) ==
  IF s.null THEN Walk(s, 0) = NoPage ELSE Walk(s, 0) # NoPage

HeapOK(s, H) ==
  /\ H \subseteq ClientPages \ Pinned
  /\ \A v \in H : Walk(s, v) \in s.pm.used \ BootUsed
  /\ \A v, w \in H : Walk(s, v) = Walk(s, w) => v = w

IInv ==
  /\ Good(Layout, vm) /\ NullOK(vm) /\ HeapOK(vm, heap)
  /\ BootUsed \subseteq vm.pm.used
  /\ call.op \in {"none", "map", "unmap", "null", "find", "store"}

LEMMA ClientFacts ==
  ASSUME ClientsStayInBootTables
  PROVE  /\ \A v \in ClientPages : v \in UserPages \ {0} /\ Pde(v) \in BootDirs
         /\ TableFrames \subseteq BootUsed
         /\ Devices \subseteq Frames \ TableFrames /\ Devices \subseteq BootUsed
         /\ BootUsed \subseteq Frames
<1>1. \A v \in ClientPages : v \in Pages \ {0} /\ Pde(v) \in BootDirs
  BY BootAssumption DEF ClientsStayInBootTables
<1>2. \A v \in ClientPages : v \in UserPages
  BY <1>1, LayoutFacts, BootLayout DEF UserPages
<1>. QED  BY <1>1, <1>2, BootAssumption

\* The boot code's tables.
LEMMA InvInit == ASSUME ClientsStayInBootTables PROVE Init => IInv
<1>. SUFFICES ASSUME Init PROVE IInv
  OBVIOUS
<1>1. PICK junk \in Contents :
         vm = [pm |-> [InitPhysMem EXCEPT !.used = BootUsed],
               mem |-> [f \in Frames |-> [i \in Idx |-> BootMem(f, i, junk)]],
               tlb |-> [v \in Pages |-> NoPage],
               null |-> FALSE,
               upiDir |-> FALSE]
  BY DEF Init
<1>2. heap = {} /\ call.op = "none"
  BY DEF Init
<1>3. junk \in [Idx -> Entries]
  BY BootAssumption DEF Tables
<1>4. ASSUME NEW d \in BootDirs, NEW i \in Idx
      PROVE  BootMem(BootTable[d], i, junk) = BootEntry(d, i)
  <2>1. (CHOOSE e \in BootDirs : BootTable[e] = BootTable[d]) = d
    BY LayoutFacts, BootLayout
  <2>2. BootTable[d] # PageDir /\ BootTable[d] \in TableFrames
    BY LayoutFacts, BootLayout DEF TableFrames
  <2>. QED  BY <2>1, <2>2 DEF BootMem
<1>5. ASSUME NEW v \in DOMAIN BootSpace
      PROVE  BootMem(BootTable[Pde(v)], Pte(v), junk) = BootSpace[v]
  <2>1. v \in Pages /\ Pde(v) \in BootDirs /\ Pte(v) \in Idx
    BY BootAssumption, PageIndices
  <2>2. v = PageOf(Pde(v), Pte(v))
    BY <2>1, PageIndices
  <2>. QED  BY <1>4, <2>1, <2>2 DEF BootEntry
<1>6. ASSUME NEW d \in BootDirs, NEW i \in Idx
      PROVE  /\ BootMem(BootTable[d], i, junk) \in Entries
             /\ BootMem(BootTable[d], i, junk) \in TableFrames => PageOf(d, i) \in TablePages
  <2>1. NoPage \in Entries \ TableFrames
    BY LayoutFacts, BootLayout DEF Entries
  <2>2. \A v \in DOMAIN BootSpace : BootSpace[v] \in Entries
    BY BootAssumption DEF Entries
  <2>. QED  BY <1>4, <2>1, <2>2 DEF BootEntry, TablePages
<1>7. ASSUME NEW f \in Frames, NEW i \in Idx
      PROVE  BootMem(f, i, junk) \in Entries
  <2>1. CASE f = PageDir
    BY <2>1, LayoutFacts, BootLayout DEF BootMem, Entries
  <2>2. CASE \E d \in BootDirs : f = BootTable[d]
    BY <1>6, <2>2
  <2>3. CASE f # PageDir /\ ~\E d \in BootDirs : f = BootTable[d]
    <3>1. f \notin TableFrames
      BY <2>3 DEF TableFrames
    <3>. QED  BY <1>3, <2>3, <3>1 DEF BootMem
  <2>. QED  BY <2>1, <2>2, <2>3
<1>8. vm.mem \in [Frames -> Tables]
  BY <1>1, <1>7 DEF Tables
<1>9. vm.pm \in PMType /\ vm.pm.used = BootUsed
  <2>1. vm.pm = [used |-> BootUsed, last |-> 0, upiDir |-> FALSE, wild |-> FALSE]
    BY <1>1 DEF InitPhysMem
  <2>2. BootUsed \in SUBSET Frames /\ 0 \in Frames
    BY PhysMemAssumption, BootAssumption DEF Frames
  <2>. QED  BY <2>1, <2>2 DEF PMType
<1>10. vm \in VMType
  <2>1. vm.tlb \in [Pages -> Entries]
    BY <1>1, LayoutFacts, BootLayout DEF Entries
  <2>. QED  BY <1>1, <1>8, <1>9, <2>1 DEF VMType
<1>11. vm.mem[PageDir] = Directory(Layout)
  BY <1>1, LayoutFacts, BootLayout DEF BootMem, Directory
<1>12. ASSUME NEW v \in UserPages
       PROVE  Walk(vm, v) = IF Pde(v) \in BootDirs
                            THEN BootMem(BootTable[Pde(v)], Pte(v), junk) ELSE NoPage
  <2>1. Pde(v) \in Idx /\ Pte(v) \in Idx /\ Pde(v) # Rec
    BY PageIndices DEF UserPages
  <2>2. vm.mem[PageDir][Pde(v)] = IF Pde(v) \in BootDirs THEN BootTable[Pde(v)] ELSE NoPage
    BY <1>11, <2>1, BootLayout DEF Directory
  <2>. QED  BY <1>1, <2>1, <2>2, LayoutFacts, BootLayout DEF Walk
<1>13. \A v \in UserPages \ TablePages : Walk(vm, v) \notin TableFrames
  <2>1. \A v \in UserPages : Pte(v) \in Idx /\ v = PageOf(Pde(v), Pte(v))
    BY PageIndices DEF UserPages
  <2>. QED  BY <1>6, <1>12, <2>1, LayoutFacts, BootLayout
<1>14. \A v \in DOMAIN BootSpace : Walk(vm, v) # NoPage
  <2>1. \A v \in DOMAIN BootSpace : v \in UserPages /\ Pde(v) \in BootDirs
    BY BootAssumption, LayoutFacts, BootLayout DEF UserPages
  <2>2. \A v \in DOMAIN BootSpace : BootSpace[v] \in Frames
    BY BootAssumption
  <2>. QED  BY <1>5, <1>12, <2>1, <2>2, LayoutFacts, BootLayout
<1>15. \A v \in Pages : vm.tlb[v] = NoPage
  BY <1>1
<1>16. Good(Layout, vm)
  BY <1>9, <1>10, <1>11, <1>13, <1>14, <1>15, BootAssumption, BootLayout DEF Good
<1>17. NullOK(vm)
  BY <1>1, <1>14, BootAssumption DEF NullOK
<1>. QED  BY <1>2, <1>9, <1>16, <1>17 DEF IInv, HeapOK
------------------------------------------------------------------------------
(***************************************************************************)
(* Each action keeps the invariant; the lemmas also say what it does to    *)
(* the address space.                                                      *)
(***************************************************************************)
SpaceSet(v, e) ==
  \A w \in UserPages : Walk(vm', w) = IF w = v THEN e ELSE Walk(vm, w)
SpaceSame == \A w \in UserPages : Walk(vm', w) = Walk(vm, w)

\* The heap maps a frame that no table and no other page stands for.
LEMMA MapHeapStep ==
  ASSUME ClientsStayInBootTables, IInv, NEW v \in ClientPages, MapHeap(v)
  PROVE  /\ IInv' /\ vm'.null = vm.null
         /\ call' = [op |-> "map", page |-> v, frame |-> call'.frame, ok |-> call'.ok]
         /\ call'.ok \in BOOLEAN
         /\ IF call'.ok THEN call'.frame \in Frames /\ SpaceSet(v, call'.frame)
            ELSE SpaceSame
<1> DEFINE r == GetUsablePage(vm.pm)
           q == SetPageUsage(r.pm, r.ret, TRUE)
           marked == [vm EXCEPT !.pm = q]
           m == Map(marked, v, r.ret)
           ok == r.ret # NoPage /\ m.ok
           t == IF r.ret = NoPage THEN marked ELSE m.s
           z == SetPageUsage(t.pm, r.ret, FALSE)
<1>0. /\ vm' = IF ok THEN t ELSE [t EXCEPT !.pm = z]
      /\ heap' = IF ok THEN heap \cup {v} ELSE heap
      /\ call' = [op |-> "map", page |-> v, frame |-> r.ret, ok |-> ok]
      /\ ~PageIsUsing(vm, v)
  BY DEF MapHeap
<1>1. /\ Good(Layout, vm) /\ NullOK(vm) /\ HeapOK(vm, heap) /\ BootUsed \subseteq vm.pm.used
      /\ vm.pm \in PMType /\ TableFrames \subseteq vm.pm.used
      /\ v \in UserPages \ {0} /\ Pde(v) \in BootDirs
  BY ClientFacts DEF IInv, Good, VMType
<1>2. /\ r.pm \in PMType /\ r.pm.used = vm.pm.used
      /\ \/ r.ret = NoPage
         \/ r.ret \in Frames \ vm.pm.used
  BY <1>1, GetUsablePageComplete
<1>. HIDE DEF r
<1>3. q \in PMType /\ q.used = vm.pm.used \cup ({r.ret} \cap Frames)
  <2>. HIDE DEF z, t, ok, m, marked
  <2>1. r.pm \in PMType
    BY <1>2
  <2>2. /\ SetPageUsage(r.pm, r.ret, TRUE) \in PMType
        /\ SetPageUsage(r.pm, r.ret, TRUE).used = r.pm.used \cup ({r.ret} \cap Frames)
    BY <2>1, SetPageUsageType
  <2>. QED  BY <1>2, <2>2
<1>. HIDE DEF q
<1>4. /\ Good(Layout, marked) /\ marked.pm = q /\ marked.null = vm.null
      /\ \A w \in UserPages : Walk(marked, w) = Walk(vm, w)
  <2>1. TableFrames \subseteq q.used
    BY <1>1, <1>3
  <2>. QED  BY <1>1, <1>3, <2>1, BitmapOnly, BootLayout DEF UserPages
<1>. HIDE DEF marked
<1>5. CASE r.ret = NoPage
  <2>1. z \in PMType /\ z.used = vm.pm.used
    <3>1. t.pm = q /\ q.used = vm.pm.used
      BY <1>3, <1>4, <1>5, LayoutFacts, BootLayout
    <3>. HIDE DEF t
    <3>2. z.used = q.used \ ({r.ret} \cap Frames) /\ z \in PMType
      BY <1>3, <3>1, SetPageUsageType
    <3>3. {r.ret} \cap Frames = {}
      BY <1>5, LayoutFacts, BootLayout
    <3>. HIDE DEF z
    <3>. QED  BY <3>1, <3>2, <3>3
  <2>2. vm' = [marked EXCEPT !.pm = z] /\ ok = FALSE
    BY <1>0, <1>5
  <2>. HIDE DEF z, ok, t, m
  <2>3. /\ Good(Layout, vm') /\ vm'.pm = z /\ vm'.null = vm.null
        /\ \A w \in UserPages : Walk(vm', w) = Walk(vm, w)
    BY <1>1, <1>4, <2>1, <2>2, BitmapOnly, BootLayout DEF UserPages
  <2>4. HeapOK(vm', heap)
    <3>1. \A w \in heap : w \in UserPages
      BY <1>1, ClientFacts DEF HeapOK
    <3>. QED  BY <1>1, <2>1, <2>3, <3>1 DEF HeapOK
  <2>5. NullOK(vm')
    BY <1>1, <2>3, LayoutFacts, BootLayout DEF NullOK
  <2>6. heap' = heap /\ call'.op = "map" /\ call'.ok = FALSE
    BY <1>0, <2>2
  <2>. QED  BY <1>0, <1>1, <2>1, <2>2, <2>3, <2>4, <2>5, <2>6 DEF IInv, SpaceSame
<1>6. CASE r.ret \in Frames \ vm.pm.used
  <2>1. r.ret \in Frames \ TableFrames /\ r.ret # NoPage
    BY <1>1, <1>6, LayoutFacts, BootLayout
  <2>2. m.ok /\ Remapped(Layout, marked, m.s, v, r.ret)
    BY <1>1, <1>4, <2>1, MapCorrect, BootLayout
  <2>3. vm' = m.s /\ ok = TRUE
    BY <1>0, <2>1, <2>2
  <2>. HIDE DEF z, ok, t, m
  <2>4. /\ Good(Layout, vm') /\ vm'.pm = q /\ vm'.null = vm.null
        /\ \A w \in UserPages : Walk(vm', w) = IF w = v THEN r.ret ELSE Walk(vm, w)
    BY <1>4, <2>2, <2>3 DEF Remapped
  <2>5. HeapOK(vm', heap \cup {v})
    <3>1. /\ \A w \in heap : w \in UserPages /\ Walk(vm, w) \in vm.pm.used
          /\ BootUsed \subseteq vm.pm.used
      BY <1>1, ClientFacts DEF HeapOK
    <3>2. v \notin Pinned
      <4>1. Walk(vm, v) = NoPage
        BY <1>0, <1>1, ReadsWalk, BootLayout
      <4>. QED  BY <1>1, <4>1, BootLayout DEF Good
    <3>3. r.ret \in q.used \ BootUsed
      BY <1>3, <1>6, <3>1
    <3>4. \A w \in heap \cup {v} : Walk(vm', w) \in q.used \ BootUsed
      BY <1>1, <1>3, <2>4, <3>1, <3>3 DEF HeapOK
    <3>5. \A w \in heap : w # v => Walk(vm', w) # r.ret
      BY <1>6, <2>4, <3>1
    <3>. QED  BY <1>1, <2>4, <3>1, <3>2, <3>4, <3>5 DEF HeapOK
  <2>6. NullOK(vm')
    BY <1>1, <2>4, LayoutFacts, BootLayout DEF NullOK
  <2>7. /\ heap' = heap \cup {v} /\ call'.op = "map" /\ call'.ok = TRUE
        /\ call'.frame = r.ret
    BY <1>0, <2>3
  <2>. QED  BY <1>0, <1>1, <1>3, <2>1, <2>3, <2>4, <2>5, <2>6, <2>7 DEF IInv, SpaceSet
<1>. QED  BY <1>2, <1>5, <1>6

\* A device page is remapped or a new one mapped.
LEMMA MapDeviceStep ==
  ASSUME ClientsStayInBootTables, IInv, NEW v \in ClientPages, NEW p \in Devices,
         MapDevice(v, p)
  PROVE  /\ IInv' /\ vm'.null = vm.null
         /\ call' = [op |-> "map", page |-> v, frame |-> p, ok |-> TRUE]
         /\ p \in Frames /\ SpaceSet(v, p)
<1> DEFINE m == Map(vm, v, p)
<1>0. /\ vm' = m.s /\ heap' = heap /\ v \notin heap
      /\ call' = [op |-> "map", page |-> v, frame |-> p, ok |-> m.ok]
  BY DEF MapDevice
<1>1. /\ Good(Layout, vm) /\ NullOK(vm) /\ HeapOK(vm, heap) /\ BootUsed \subseteq vm.pm.used
      /\ v \in UserPages \ {0} /\ Pde(v) \in BootDirs /\ p \in Frames \ TableFrames
  BY ClientFacts DEF IInv
<1>2. m.ok /\ Remapped(Layout, vm, m.s, v, p)
  BY <1>1, MapCorrect, BootLayout
<1>2a. m.ok = TRUE
  BY <1>2 DEF Map, NewTable
<1>. HIDE DEF m
<1>3. /\ Good(Layout, vm') /\ vm'.pm = vm.pm /\ vm'.null = vm.null
      /\ \A w \in UserPages : Walk(vm', w) = IF w = v THEN p ELSE Walk(vm, w)
  BY <1>0, <1>2 DEF Remapped
<1>4. HeapOK(vm', heap)
  <2>1. \A w \in heap : w \in UserPages /\ w # v
    BY <1>0, <1>1, ClientFacts DEF HeapOK
  <2>. QED  BY <1>1, <1>3, <2>1 DEF HeapOK
<1>5. NullOK(vm')
  BY <1>1, <1>3, LayoutFacts, BootLayout DEF NullOK
<1>. QED  BY <1>0, <1>1, <1>2a, <1>3, <1>4, <1>5 DEF IInv, SpaceSet

\* Page 0 is mapped anew, or the call is refused: once it is given up, always.
LEMMA MapZeroStep ==
  ASSUME ClientsStayInBootTables, IInv, NEW p \in Devices, MapZero(p)
  PROVE  /\ IInv' /\ vm'.null = vm.null
         /\ call' = [op |-> "map", page |-> 0, frame |-> p, ok |-> call'.ok]
         /\ p \in Frames /\ 0 \in UserPages
         /\ IF vm.null THEN call'.ok = FALSE /\ SpaceSame
            ELSE call'.ok = TRUE /\ SpaceSet(0, p)
<1> DEFINE m == Map(vm, 0, p)
<1>0. /\ vm' = m.s /\ heap' = heap
      /\ call' = [op |-> "map", page |-> 0, frame |-> p, ok |-> m.ok]
  BY DEF MapZero
<1>1. /\ Good(Layout, vm) /\ NullOK(vm) /\ HeapOK(vm, heap) /\ BootUsed \subseteq vm.pm.used
      /\ 0 \in UserPages /\ Pde(0) \in BootDirs /\ p \in Frames \ TableFrames
  BY ClientFacts, LayoutFacts, BootLayout, BootAssumption DEF IInv
<1>2. \A w \in heap : w \in UserPages /\ w # 0
  BY <1>1, ClientFacts DEF HeapOK
<1>3. CASE vm.null
  <2>1. m = [ok |-> FALSE, s |-> vm]
    BY <1>3 DEF Map, MapRefused
  <2>. HIDE DEF m
  <2>2. vm' = vm /\ call'.ok = FALSE /\ call'.op = "map"
    BY <1>0, <2>1
  <2>3. IInv'
    BY <1>0, <2>2 DEF IInv
  <2>. QED  BY <1>0, <1>1, <1>3, <2>2, <2>3 DEF SpaceSame
<1>4. CASE ~vm.null
  <2>1. m.ok /\ Remapped(Layout, vm, m.s, 0, p)
    BY <1>1, <1>4, MapCorrect, BootLayout
  <2>2. m.ok = TRUE
    BY <2>1 DEF Map, NewTable
  <2>. HIDE DEF m
  <2>3. /\ Good(Layout, vm') /\ vm'.pm = vm.pm /\ vm'.null = vm.null
        /\ \A w \in UserPages : Walk(vm', w) = IF w = 0 THEN p ELSE Walk(vm, w)
    BY <1>0, <2>1 DEF Remapped
  <2>4. HeapOK(vm', heap)
    BY <1>1, <1>2, <2>3 DEF HeapOK
  <2>5. NullOK(vm')
    BY <1>1, <1>4, <2>3, LayoutFacts, BootLayout DEF NullOK
  <2>6. call'.op = "map" /\ call'.ok = TRUE
    BY <1>0, <2>2
  <2>. QED  BY <1>0, <1>1, <1>4, <2>3, <2>4, <2>5, <2>6 DEF IInv, SpaceSet
<1>. QED  BY <1>3, <1>4

\* The heap gives back a page and its frame.
LEMMA UnmapHeapStep ==
  ASSUME ClientsStayInBootTables, IInv, NEW v \in heap, UnmapHeap(v)
  PROVE  /\ IInv' /\ vm'.null = vm.null /\ call' = [op |-> "unmap", page |-> v]
         /\ v \in UserPages /\ SpaceSet(v, NoPage)
<1> DEFINE p == VirtPageToPhysPage(vm, v)
           t == Unmap(vm, v)
           z == SetPageUsage(t.pm, p, FALSE)
<1>0. /\ vm' = [t EXCEPT !.pm = z] /\ heap' = heap \ {v}
      /\ call' = [op |-> "unmap", page |-> v]
  BY DEF UnmapHeap
<1>1. /\ Good(Layout, vm) /\ NullOK(vm) /\ HeapOK(vm, heap) /\ BootUsed \subseteq vm.pm.used
      /\ v \in UserPages \ Pinned /\ Pde(v) \in BootDirs /\ v # 0
      /\ vm.pm \in PMType /\ \A w \in heap : w \in UserPages
  BY ClientFacts DEF IInv, HeapOK, Good, VMType
<1>2. p = Walk(vm, v) /\ p \in vm.pm.used \ BootUsed
  BY <1>1, ReadsWalk, BootLayout DEF HeapOK
<1>3. Remapped(Layout, vm, t, v, NoPage)
  BY <1>1, UnmapCorrect, BootLayout
<1>. HIDE DEF p, t
<1>4. z \in PMType /\ z.used = vm.pm.used \ {p}
  <2>1. t.pm = vm.pm /\ p \in Frames
    BY <1>1, <1>2, <1>3 DEF Remapped, PMType
  <2>2. z = SetPageUsage(vm.pm, p, FALSE)
    BY <2>1
  <2>. HIDE DEF z
  <2>3. z \in PMType /\ z.used = vm.pm.used \ ({p} \cap Frames)
    BY <1>1, <2>2, SetPageUsageType
  <2>. QED  BY <2>1, <2>3
<1>. HIDE DEF z
<1>5. TableFrames \subseteq z.used /\ BootUsed \subseteq z.used
  BY <1>1, <1>2, <1>4, ClientFacts
<1>6. /\ Good(Layout, vm') /\ vm'.pm = z /\ vm'.null = vm.null
      /\ \A w \in UserPages : Walk(vm', w) = IF w = v THEN NoPage ELSE Walk(vm, w)
  <2>1. /\ Good(Layout, t) /\ t.null = vm.null
        /\ \A w \in UserPages : Walk(t, w) = IF w = v THEN NoPage ELSE Walk(vm, w)
    BY <1>3 DEF Remapped
  <2>. QED  BY <1>0, <1>4, <1>5, <2>1, BitmapOnly, BootLayout DEF UserPages
<1>7. HeapOK(vm', heap \ {v})
  <2>1. ASSUME NEW w \in heap \ {v}
        PROVE  Walk(vm', w) = Walk(vm, w) /\ Walk(vm, w) \in z.used \ BootUsed
    BY <1>1, <1>2, <1>4, <1>6 DEF HeapOK
  <2>. QED  BY <1>1, <1>6, <2>1 DEF HeapOK
<1>8. NullOK(vm')
  BY <1>1, <1>6, LayoutFacts, BootLayout DEF NullOK
<1>. QED  BY <1>0, <1>1, <1>5, <1>6, <1>7, <1>8 DEF IInv, SpaceSet

\* ACPI's pages and low memory.
LEMMA UnmapOtherStep ==
  ASSUME ClientsStayInBootTables, IInv, NEW v \in ClientPages, UnmapOther(v)
  PROVE  /\ IInv' /\ vm'.null = vm.null /\ call' = [op |-> "unmap", page |-> v]
         /\ v \in UserPages /\ SpaceSet(v, NoPage)
<1>0. /\ vm' = Unmap(vm, v) /\ heap' = heap /\ call' = [op |-> "unmap", page |-> v]
      /\ v \notin heap /\ v \notin Pinned
  BY DEF UnmapOther
<1>1. /\ Good(Layout, vm) /\ NullOK(vm) /\ HeapOK(vm, heap) /\ BootUsed \subseteq vm.pm.used
      /\ v \in UserPages \ Pinned /\ Pde(v) \in BootDirs /\ v # 0
  BY <1>0, ClientFacts DEF IInv
<1>2. Remapped(Layout, vm, vm', v, NoPage)
  BY <1>0, <1>1, UnmapCorrect, BootLayout
<1>3. /\ Good(Layout, vm') /\ vm'.pm = vm.pm /\ vm'.null = vm.null
      /\ \A w \in UserPages : Walk(vm', w) = IF w = v THEN NoPage ELSE Walk(vm, w)
  BY <1>2 DEF Remapped
<1>4. HeapOK(vm', heap)
  <2>1. \A w \in heap : w \in UserPages /\ w # v
    BY <1>0, <1>1, ClientFacts DEF HeapOK
  <2>. QED  BY <1>1, <1>3, <2>1 DEF HeapOK
<1>5. NullOK(vm')
  BY <1>1, <1>3, LayoutFacts, BootLayout DEF NullOK
<1>. QED  BY <1>0, <1>1, <1>3, <1>4, <1>5 DEF IInv, SpaceSet

\* Page 0 is given up.
LEMMA EnableNullStep ==
  ASSUME ClientsStayInBootTables, IInv, EnableNull
  PROVE  IInv' /\ vm'.null = TRUE /\ call' = [op |-> "null"] /\ SpaceSet(0, NoPage)
<1> DEFINE t == Unmap(vm, 0)
<1>0. vm' = [t EXCEPT !.null = TRUE] /\ heap' = heap /\ call' = [op |-> "null"]
  BY DEF EnableNull, EnableNullptr
<1>1. /\ Good(Layout, vm) /\ HeapOK(vm, heap) /\ BootUsed \subseteq vm.pm.used
      /\ 0 \in UserPages \ Pinned /\ Pde(0) \in BootDirs
  BY LayoutFacts, BootLayout DEF IInv
<1>2. Remapped(Layout, vm, t, 0, NoPage)
  BY <1>1, UnmapCorrect, BootLayout
<1>. HIDE DEF t
<1>3. /\ Good(Layout, vm') /\ vm'.pm = vm.pm /\ vm'.null = TRUE
      /\ \A w \in UserPages : Walk(vm', w) = IF w = 0 THEN NoPage ELSE Walk(vm, w)
  <2>1. /\ Good(Layout, t) /\ t.pm = vm.pm
        /\ \A w \in UserPages : Walk(t, w) = IF w = 0 THEN NoPage ELSE Walk(vm, w)
    BY <1>2 DEF Remapped
  <2>. QED  BY <1>0, <2>1, NullOnly, BootLayout DEF UserPages
<1>4. HeapOK(vm', heap)
  <2>1. \A w \in heap : w \in UserPages /\ w # 0
    BY <1>1, ClientFacts DEF HeapOK
  <2>. QED  BY <1>1, <1>3, <2>1 DEF HeapOK
<1>5. NullOK(vm')
  BY <1>3, LayoutFacts, BootLayout DEF NullOK
<1>. QED  BY <1>0, <1>1, <1>3, <1>4, <1>5 DEF IInv, SpaceSet

\* A step that keeps every translation, the bitmap and the heap's pages keeps
\* the invariant.
LEMMA SameSpace ==
  ASSUME ClientsStayInBootTables, IInv, Good(Layout, vm'), vm'.pm = vm.pm, vm'.null = vm.null,
         SpaceSame, heap' = heap, call'.op \in {"none", "find", "store"}
  PROVE  IInv'
<1>1. \A w \in heap : w \in UserPages
  BY ClientFacts DEF IInv, HeapOK
<1>2. HeapOK(vm', heap)
  BY <1>1 DEF IInv, HeapOK, SpaceSame
<1>3. NullOK(vm')
  BY LayoutFacts, BootLayout DEF IInv, NullOK, SpaceSame
<1>. QED  BY <1>2, <1>3 DEF IInv

LEMMA FindPagesStep ==
  ASSUME ClientsStayInBootTables, IInv, NEW n \in RunLengths, FindPages(n)
  PROVE  IInv' /\ vm'.null = vm.null /\ call'.op = "find" /\ SpaceSame
<1> DEFINE r == VirtGetUsablePage(vm, n)
<1>0. vm' = r.s /\ heap' = heap /\ call'.op = "find"
  BY DEF FindPages
<1>1. Good(Layout, vm) /\ vm.upiDir \in BOOLEAN
  BY DEF IInv, Good, VMType
<1>2. r.s = vm \/ \E b \in BOOLEAN : r.s = [vm EXCEPT !.upiDir = b]
  <2>1. FindRun(vm, n).down \in BOOLEAN
    BY <1>1 DEF FindRun
  <2>. QED  BY <2>1 DEF VirtGetUsablePage
<1>. HIDE DEF r
<1>3. Good(Layout, vm') /\ vm'.pm = vm.pm /\ vm'.null = vm.null /\ SpaceSame
  <2>1. CASE r.s = vm
    BY <1>0, <1>1, <2>1 DEF SpaceSame
  <2>2. ASSUME NEW b \in BOOLEAN, r.s = [vm EXCEPT !.upiDir = b]
        PROVE  Good(Layout, vm') /\ vm'.pm = vm.pm /\ vm'.null = vm.null /\ SpaceSame
    <3>1. vm' = [vm EXCEPT !.upiDir = b]
      BY <1>0, <2>2
    <3>2. /\ Good(Layout, vm') /\ vm'.null = vm.null /\ vm'.pm = vm.pm
          /\ \A w \in Pages : Walk(vm', w) = Walk(vm, w)
      BY <1>1, <3>1, DirectionOnly, BootLayout
    <3>. QED  BY <3>2 DEF SpaceSame, UserPages
  <2>. QED  BY <1>2, <2>1, <2>2
<1>. QED  BY <1>0, <1>3, SameSpace

\* A store reaches a frame that is no table.
LEMMA StoreStep ==
  ASSUME ClientsStayInBootTables, IInv, NEW v \in UserPages \ Pinned, NEW c \in Contents,
         Store(v, c)
  PROVE  IInv' /\ vm'.null = vm.null /\ call'.op = "store" /\ SpaceSame
<1> DEFINE f == Lookup(vm, v)
<1>0. /\ vm' = [vm EXCEPT !.mem[f] = c] /\ heap' = heap /\ call'.op = "store"
      /\ f # NoPage
  BY DEF Store
<1>1. Good(Layout, vm) /\ v \in Pages /\ c \in Tables /\ v \notin TablePages
  BY BootAssumption DEF IInv, UserPages
<1>2. f \in Frames \ TableFrames
  <2>1. f = Walk(vm, v)
    BY <1>0, <1>1 DEF Lookup, Good
  <2>2. Walk(vm, v) \in Entries /\ Walk(vm, v) \notin TableFrames
    BY <1>1, WalkUser, BootLayout DEF Good
  <2>. QED  BY <1>0, <2>1, <2>2 DEF Entries
<1>. HIDE DEF f
<1>3. /\ Good(Layout, vm') /\ vm'.pm = vm.pm /\ vm'.null = vm.null
      /\ \A w \in Pages : Walk(vm', w) = Walk(vm, w)
  BY <1>0, <1>1, <1>2, FrameWritten, BootLayout
<1>4. SpaceSame
  BY <1>3 DEF SpaceSame, UserPages
<1>. QED  BY <1>0, <1>3, <1>4, SameSpace

\* The TLB is filled with what the tables say, or forgets it.
LEMMA TLBStep ==
  ASSUME ClientsStayInBootTables, IInv, NEW v \in Pages, Fill(v) \/ Evict(v)
  PROVE  IInv' /\ vm'.null = vm.null /\ call'.op = "none" /\ SpaceSame
<1>1. Good(Layout, vm) /\ Walk(vm, v) \in Entries
  <2>1. Good(Layout, vm)
    BY DEF IInv
  <2>2. CASE v \in UserPages
    BY <2>1, <2>2, WalkUser, BootLayout
  <2>3. CASE v \notin UserPages
    <3>1. Pde(v) = Rec /\ Pte(v) \in Idx
      BY <2>3, PageIndices DEF UserPages
    <3>2. vm.mem[PageDir][Rec] = PageDir /\ vm.mem[PageDir] \in Tables
      BY <2>1, LayoutFacts, BootLayout DEF Good, Directory, VMType
    <3>3. Walk(vm, v) = vm.mem[PageDir][Pte(v)] /\ PageDir # NoPage
      BY <3>1, <3>2, LayoutFacts, BootLayout DEF Walk
    <3>. QED  BY <2>1, <3>1, <3>2, <3>3 DEF Tables
  <2>. QED  BY <2>1, <2>2, <2>3
<1>2. PICK e \in {NoPage, Walk(vm, v)} : vm' = [vm EXCEPT !.tlb[v] = e]
  <2>1. CASE Fill(v)
    BY <1>1, <2>1 DEF Fill, Lookup, Good
  <2>2. CASE Evict(v)
    BY <2>2 DEF Evict, Invlpg
  <2>. QED  BY <2>1, <2>2
<1>3. heap' = heap /\ call'.op = "none"
  BY DEF Fill, Evict
<1>4. e \in Entries
  BY <1>1 DEF Entries
<1>5. /\ vm' \in VMType /\ vm'.pm = vm.pm /\ vm'.null = vm.null /\ vm'.mem = vm.mem
      /\ vm'.tlb = [vm.tlb EXCEPT ![v] = e]
  BY <1>1, <1>2, <1>4 DEF Good, VMType
<1>6. \A w \in Pages : Walk(vm', w) = Walk(vm, w)
  BY <1>5 DEF Walk
<1>7. \A w \in Pages : vm'.tlb[w] \in {NoPage, Walk(vm, w)}
  BY <1>1, <1>5 DEF Good, VMType
<1>8. \A w \in UserPages : w \in Pages
  BY DEF UserPages
<1>9. Good(Layout, vm')
  BY <1>1, <1>5, <1>6, <1>7, <1>8, LayoutFacts, BootLayout DEF Good
<1>10. SpaceSame
  BY <1>6, <1>8 DEF SpaceSame
<1>. QED  BY <1>3, <1>5, <1>9, <1>10, SameSpace

\* The invariant is inductive.
LEMMA InvNext == ASSUME ClientsStayInBootTables PROVE IInv /\ [Next]_vars => IInv'
<1>. SUFFICES ASSUME IInv, [Next]_vars PROVE IInv'
  OBVIOUS
<1>1. ASSUME NEW v \in ClientPages, MapHeap(v) PROVE IInv'
  BY <1>1, MapHeapStep
<1>2. ASSUME NEW v \in ClientPages, NEW p \in Devices, MapDevice(v, p) PROVE IInv'
  BY <1>2, MapDeviceStep
<1>3. ASSUME NEW v \in ClientPages, UnmapOther(v) PROVE IInv'
  BY <1>3, UnmapOtherStep
<1>4. ASSUME NEW v \in heap, UnmapHeap(v) PROVE IInv'
  BY <1>4, UnmapHeapStep
<1>5. ASSUME EnableNull PROVE IInv'
  BY <1>5, EnableNullStep
<1>6. ASSUME NEW n \in RunLengths, FindPages(n) PROVE IInv'
  BY <1>6, FindPagesStep
<1>7. ASSUME NEW v \in UserPages \ Pinned, NEW c \in Contents, Store(v, c) PROVE IInv'
  BY <1>7, StoreStep
<1>8. ASSUME NEW v \in Pages, Fill(v) \/ Evict(v) PROVE IInv'
  BY <1>8, TLBStep
<1>9. ASSUME UNCHANGED vars PROVE IInv'
  <2>1. vm' = vm /\ heap' = heap /\ call' = call
    BY <1>9 DEF vars
  <2>. QED  BY <2>1 DEF IInv
<1>10. ASSUME NEW p \in Devices, MapZero(p) PROVE IInv'
  BY <1>10, MapZeroStep
<1>. QED  BY <1>1, <1>2, <1>3, <1>4, <1>5, <1>6, <1>7, <1>8, <1>9, <1>10 DEF Next
------------------------------------------------------------------------------
(***************************************************************************)
(* The theorems hold where callers keep to the tables of the boot code.    *)
(***************************************************************************)
\* The variables have their types.
THEOREM TypeCorrect == ASSUME ClientsStayInBootTables PROVE Spec => []TypeOK
<1>1. IInv => TypeOK
  <2>. SUFFICES ASSUME IInv PROVE TypeOK
    OBVIOUS
  <2>1. heap \subseteq Pages
    BY ClientFacts DEF IInv, HeapOK, UserPages
  <2>2. vm \in VMType
    BY DEF IInv, Good
  <2>3. /\ vm.pm \in PMType /\ vm.mem \in [Frames -> Tables]
        /\ vm.tlb \in [Pages -> Entries] /\ vm.null \in BOOLEAN /\ vm.upiDir \in BOOLEAN
    BY <2>2 DEF VMType
  <2>. QED  BY <2>1, <2>3 DEF TypeOK, IInv, PMType
<1>. QED  BY InvInit, InvNext, <1>1, PTL DEF Spec

\* No frame that is a page table can be handed out by the physical allocator or
\* reached by a store: page tables change through map and unmap only.
THEOREM TablesStayPrivate ==
  ASSUME ClientsStayInBootTables PROVE Spec => []TablesArePrivate
<1>1. IInv => TablesArePrivate
  <2>. SUFFICES ASSUME IInv PROVE TablesArePrivate
    OBVIOUS
  <2>1. \A d \in Idx : vm.mem[PageDir][d] \in TableFrames \cup {NoPage}
    BY BootLayout DEF IInv, Good, Directory, TableFrames
  <2>. QED  BY <2>1, BootLayout DEF IInv, Good, TablesArePrivate
<1>. QED  BY InvInit, InvNext, <1>1, PTL DEF Spec

\* Every translation the TLB remembers is the current one: map and unmap flush
\* what they change.
THEOREM TLBStaysCoherent ==
  ASSUME ClientsStayInBootTables PROVE Spec => []TLBIsCoherent
<1>1. IInv => TLBIsCoherent
  BY DEF IInv, Good, TLBIsCoherent
<1>. QED  BY InvInit, InvNext, <1>1, PTL DEF Spec

\* Two heap pages never stand for one frame, and their frames stay marked.
THEOREM HeapFramesStayOwned ==
  ASSUME ClientsStayInBootTables PROVE Spec => []HeapFramesAreOwned
<1>1. IInv => HeapFramesAreOwned
  BY DEF IInv, HeapOK, HeapFramesAreOwned
<1>. QED  BY InvInit, InvNext, <1>1, PTL DEF Spec

\* Page 0 is never mapped again after enableNullptr: whoever asks for it, and
\* whenever, is refused.
THEOREM NullNeverReturns ==
  ASSUME ClientsStayInBootTables PROVE Spec => []NullStaysUnmapped
<1>1. IInv => NullStaysUnmapped
  BY DEF IInv, NullOK, NullStaysUnmapped
<1>. QED  BY InvInit, InvNext, <1>1, PTL DEF Spec

\* What each step does to the address space, whichever action it is.
LEMMA SpaceStep ==
  ASSUME ClientsStayInBootTables, IInv, Next
  PROVE  \/ /\ call' = [op |-> "map", page |-> call'.page, frame |-> call'.frame, ok |-> TRUE]
            /\ call'.page \in UserPages /\ ~(vm.null /\ call'.page = 0)
            /\ call'.frame \in Frames /\ SpaceSet(call'.page, call'.frame)
            /\ vm'.null = vm.null
         \/ /\ call'.op = "map" /\ call'.ok = FALSE /\ SpaceSame /\ vm'.null = vm.null
         \/ /\ call' = [op |-> "unmap", page |-> call'.page] /\ call'.page \in UserPages
            /\ SpaceSet(call'.page, NoPage) /\ vm'.null = vm.null
         \/ call' = [op |-> "null"] /\ SpaceSet(0, NoPage) /\ vm'.null = TRUE
         \/ /\ call'.op \in {"none", "find", "store"}
            /\ SpaceSame /\ vm'.null = vm.null
<1> DEFINE G == \/ /\ call' = [op |-> "map", page |-> call'.page, frame |-> call'.frame, ok |-> TRUE]
                   /\ call'.page \in UserPages /\ ~(vm.null /\ call'.page = 0)
                   /\ call'.frame \in Frames /\ SpaceSet(call'.page, call'.frame)
                   /\ vm'.null = vm.null
                \/ /\ call'.op = "map" /\ call'.ok = FALSE /\ SpaceSame /\ vm'.null = vm.null
                \/ /\ call' = [op |-> "unmap", page |-> call'.page] /\ call'.page \in UserPages
                   /\ SpaceSet(call'.page, NoPage) /\ vm'.null = vm.null
                \/ call' = [op |-> "null"] /\ SpaceSet(0, NoPage) /\ vm'.null = TRUE
                \/ /\ call'.op \in {"none", "find", "store"}
                   /\ SpaceSame /\ vm'.null = vm.null
<1>1. ASSUME NEW v \in ClientPages, MapHeap(v) PROVE G
  <2>1. /\ vm'.null = vm.null /\ v \in UserPages \ {0}
        /\ call' = [op |-> "map", page |-> v, frame |-> call'.frame, ok |-> call'.ok]
        /\ call'.ok \in BOOLEAN
        /\ IF call'.ok THEN call'.frame \in Frames /\ SpaceSet(v, call'.frame)
           ELSE SpaceSame
    BY <1>1, MapHeapStep, ClientFacts
  <2>2. call'.page = v /\ call'.op = "map"
    BY <2>1
  <2>3. CASE call'.ok = TRUE
    BY <2>1, <2>2, <2>3
  <2>4. CASE call'.ok = FALSE
    BY <2>1, <2>2, <2>4
  <2>. QED  BY <2>1, <2>3, <2>4
<1>2. ASSUME NEW v \in ClientPages, NEW p \in Devices, MapDevice(v, p) PROVE G
  <2>1. /\ vm'.null = vm.null /\ v \in UserPages \ {0}
        /\ call' = [op |-> "map", page |-> v, frame |-> p, ok |-> TRUE]
        /\ p \in Frames /\ SpaceSet(v, p)
    BY <1>2, MapDeviceStep, ClientFacts
  <2>. QED  BY <2>1
<1>3. ASSUME NEW v \in ClientPages, UnmapOther(v) PROVE G
  <2>1. /\ vm'.null = vm.null /\ v \in UserPages /\ SpaceSet(v, NoPage)
        /\ call' = [op |-> "unmap", page |-> v]
    BY <1>3, UnmapOtherStep
  <2>. QED  BY <2>1
<1>4. ASSUME NEW v \in heap, UnmapHeap(v) PROVE G
  <2>1. /\ vm'.null = vm.null /\ v \in UserPages /\ SpaceSet(v, NoPage)
        /\ call' = [op |-> "unmap", page |-> v]
    BY <1>4, UnmapHeapStep
  <2>. QED  BY <2>1
<1>5. ASSUME EnableNull PROVE G
  BY <1>5, EnableNullStep
<1>6. ASSUME NEW n \in RunLengths, FindPages(n) PROVE G
  BY <1>6, FindPagesStep
<1>7. ASSUME NEW v \in UserPages \ Pinned, NEW c \in Contents, Store(v, c) PROVE G
  BY <1>7, StoreStep
<1>8. ASSUME NEW v \in Pages, Fill(v) \/ Evict(v) PROVE G
  BY <1>8, TLBStep
<1>9. ASSUME NEW p \in Devices, MapZero(p) PROVE G
  <2>1. /\ vm'.null = vm.null /\ 0 \in UserPages /\ p \in Frames
        /\ call' = [op |-> "map", page |-> 0, frame |-> p, ok |-> call'.ok]
        /\ IF vm.null THEN call'.ok = FALSE /\ SpaceSame
           ELSE call'.ok = TRUE /\ SpaceSet(0, p)
    BY <1>9, MapZeroStep
  <2>2. call'.page = 0 /\ call'.op = "map" /\ call'.frame = p
    BY <2>1
  <2>3. CASE vm.null
    BY <2>1, <2>2, <2>3
  <2>4. CASE ~vm.null
    BY <2>1, <2>2, <2>4
  <2>. QED  BY <2>3, <2>4
<1>10. G
  <2>. HIDE DEF G
  <2>. QED  BY <1>1, <1>2, <1>3, <1>4, <1>5, <1>6, <1>7, <1>8, <1>9 DEF Next
<1>. QED  BY <1>10

\* A call of map that succeeds makes its page stand for its frame and leaves
\* every other page alone, whatever memory and the TLB contain.
THEOREM MapsAreExact == ASSUME ClientsStayInBootTables PROVE Spec => MapIsExact
<1> DEFINE E == call'.op = "map" /\ call'.ok =>
                  Space' = [Space EXCEPT ![call'.page] = call'.frame]
<1>1. IInv /\ [Next]_vars => [E]_vars
  <2>. SUFFICES ASSUME IInv, Next, call'.op = "map", call'.ok
                PROVE  Space' = [Space EXCEPT ![call'.page] = call'.frame]
    OBVIOUS
  <2>1. /\ call' = [op |-> "unmap", page |-> call'.page] => call'.op = "unmap"
        /\ call' = [op |-> "null"] => call'.op = "null"
    OBVIOUS
  <2>2. SpaceSet(call'.page, call'.frame) /\ call'.page \in UserPages
    BY <2>1, SpaceStep
  <2>. QED  BY <2>2 DEF SpaceSet, Space
<1>. QED  BY InvInit, InvNext, <1>1, PTL DEF Spec, MapIsExact

\* VirtMem implements an address space: a function from pages to frames that
\* only map, unmap and enableNullptr change, each at the page it is called for.
THEOREM ImplementsSpace ==
  ASSUME ClientsStayInBootTables PROVE Spec => ImplementsAddressSpace
<1>1. Init => A!AInit
  <2>. SUFFICES ASSUME Init PROVE A!AInit
    OBVIOUS
  <2>1. IInv
    BY InvInit
  <2>2. \A v \in UserPages : Walk(vm, v) \in Entries
    BY <2>1, WalkUser, BootLayout DEF IInv
  <2>3. vm.null = FALSE /\ call.op = "none"
    BY DEF Init
  <2>. QED  BY <2>2, <2>3 DEF A!AInit, Space, Entries
<1>2. IInv /\ [Next]_vars => [A!ANext]_(A!avars)
  <2>. SUFFICES ASSUME IInv, [Next]_vars PROVE [A!ANext]_(A!avars)
    OBVIOUS
  <2>1. CASE UNCHANGED vars
    <3>1. vm' = vm /\ call' = call
      BY <2>1 DEF vars
    <3>. QED  BY <3>1 DEF A!avars, Space, Walk
  <2>2. CASE /\ call' = [op |-> "map", page |-> call'.page, frame |-> call'.frame, ok |-> TRUE]
             /\ call'.page \in UserPages /\ ~(vm.null /\ call'.page = 0)
             /\ call'.frame \in Frames /\ SpaceSet(call'.page, call'.frame)
             /\ vm'.null = vm.null
    <3>1. Space' = [Space EXCEPT ![call'.page] = call'.frame]
      BY <2>2 DEF SpaceSet, Space
    <3>2. A!AMap(call'.page, call'.frame)
      BY <2>2, <3>1 DEF A!AMap
    <3>. QED  BY <2>2, <3>2 DEF A!ANext
  <2>3. CASE call'.op = "map" /\ call'.ok = FALSE /\ SpaceSame /\ vm'.null = vm.null
    <3>1. Space' = Space
      BY <2>3 DEF SpaceSame, Space
    <3>. QED  BY <2>3, <3>1 DEF A!ANext, A!AMapFails
  <2>4. CASE /\ call' = [op |-> "unmap", page |-> call'.page] /\ call'.page \in UserPages
             /\ SpaceSet(call'.page, NoPage) /\ vm'.null = vm.null
    <3>1. Space' = [Space EXCEPT ![call'.page] = NoPage]
      BY <2>4 DEF SpaceSet, Space
    <3>2. A!AUnmap(call'.page)
      BY <2>4, <3>1 DEF A!AUnmap
    <3>. QED  BY <2>4, <3>2 DEF A!ANext
  <2>5. CASE call' = [op |-> "null"] /\ SpaceSet(0, NoPage) /\ vm'.null = TRUE
    <3>1. Space' = [Space EXCEPT ![0] = NoPage]
      BY <2>5, LayoutFacts, BootLayout DEF SpaceSet, Space
    <3>. QED  BY <2>5, <3>1 DEF A!ANext, A!AEnableNull
  <2>6. CASE /\ call'.op \in {"none", "find", "store"}
             /\ SpaceSame /\ vm'.null = vm.null
    <3>1. Space' = Space
      BY <2>6 DEF SpaceSame, Space
    <3>. QED  BY <2>6, <3>1 DEF A!ANext, A!AOther
  <2>. QED  BY <2>1, <2>2, <2>3, <2>4, <2>5, <2>6, SpaceStep
<1>. QED  BY InvInit, InvNext, <1>1, <1>2, PTL DEF Spec, ImplementsAddressSpace, A!ASpec
------------------------------------------------------------------------------
(***************************************************************************)
(* The search for consecutive pages.                                       *)
(***************************************************************************)
\* getUsablePage(num) finds num consecutive pages that are not in use whenever
\* there are any: neither the direction an earlier failure has left nor the count
\* it carries over can make it miss a run or answer a wrong one.
THEOREM SearchFindsRun == ASSUME ClientsStayInBootTables PROVE Spec => []FindsRun
<1>1. Init => FindsRun
  BY DEF Init, FindsRun
<1>2. IInv /\ FindsRun /\ [Next]_vars => FindsRun'
  <2>. SUFFICES ASSUME IInv, FindsRun, [Next]_vars PROVE FindsRun'
    OBVIOUS
  <2>1. ASSUME NEW n \in RunLengths, FindPages(n) PROVE FindsRun'
    <3> DEFINE r == VirtGetUsablePage(vm, n)
    <3>1. vm.upiDir \in BOOLEAN /\ vm \in VMType /\ n \in Nat
      BY BootAssumption DEF IInv, Good, VMType
    <3>2. PageIsUsing(vm, 0)
      BY ReadsWalk, LayoutFacts, BootLayout DEF IInv, NullOK
    <3>3. vm' = r.s /\ call' = [op |-> "find", num |-> n, ret |-> r.ret]
      BY <2>1 DEF FindPages
    <3>4. vm'.mem = vm.mem /\ vm'.tlb = vm.tlb /\ vm'.null = vm.null
      BY <3>1, <3>3 DEF VirtGetUsablePage, VMType
    <3>5. n # 0 => IF r.ret = NoPage THEN RunStarts(vm, n) = {}
                   ELSE r.ret \in RunStarts(vm, n)
      BY <3>1, <3>2, RunFound
    <3>6. RunStarts(vm', n) = RunStarts(vm, n)
      BY <3>4, SameRuns
    <3>. HIDE DEF r
    <3>7. call'.num = n /\ call'.ret = r.ret
      BY <3>3
    <3>. QED  BY <3>5, <3>6, <3>7 DEF FindsRun, RunStarts
  <2>2. CASE UNCHANGED vars
    <3>1. vm' = vm /\ call' = call
      BY <2>2 DEF vars
    <3>2. \A v : PageIsUsing(vm', v) <=> PageIsUsing(vm, v)
      BY <3>1 DEF PageIsUsing, PteEntry, HasTable, PdeEntry, Lookup, Walk
    <3>. QED  BY <3>1, <3>2 DEF FindsRun, FreeRun
  <2>3. call'.op # "find" => FindsRun'
    BY DEF FindsRun
  <2>4. \A v : Fill(v) \/ Evict(v) \/ (\E c \in Contents : Store(v, c)) => call'.op # "find"
    BY DEF Fill, Evict, Store
  <2>5. \A v \in ClientPages : 
          \/ MapHeap(v) \/ UnmapOther(v)
          \/ \E p \in Devices : MapDevice(v, p)
          => call'.op # "find"
    BY MapHeapStep, MapDeviceStep, UnmapOtherStep
  <2>6. \A v \in heap : UnmapHeap(v) => call'.op # "find"
    BY DEF UnmapHeap
  <2>7. \A p \in Devices : MapZero(p) => call'.op # "find"
    BY DEF MapZero
  <2>8. EnableNull => call'.op # "find"
    BY DEF EnableNull
  <2>. QED  BY <2>1, <2>2, <2>3, <2>4, <2>5, <2>6, <2>7, <2>8 DEF Next
<1>. QED  BY InvInit, InvNext, <1>1, <1>2, PTL DEF Spec
==============================================================================
