----------------------------- MODULE VirtMemSpec -----------------------------
(***************************************************************************)
(* The virtual memory under its callers, from the state in which the boot  *)
(* code has switched paging on.  The heap maps pages it has found unused   *)
(* to frames it takes from PhysMem; ACPI and APIC code maps device frames; *)
(* kernelMain unmaps low memory and gives up page 0; anybody stores        *)
(* through the pages.  Calls run to completion, one at a time; between     *)
(* them the processor may fill or evict entries of the TLB.                *)
(***************************************************************************)
EXTENDS VirtMem

CONSTANTS
  BootTable,    \* directory entries the boot code has filled -> their frames
  BootSpace,    \* pages the boot code has mapped -> their frames
  BootUsed,     \* frames marked as used at boot
  Pinned,       \* boot pages that no caller unmaps: the kernel, the APIC pages
  ApicPages,    \* boot pages that are mapped to an APIC instead
  Devices,      \* frames of devices and of firmware tables
  ClientPages,  \* pages that callers map: those they find, and the APICs'
  Contents,     \* what callers store in a page
  RunLengths    \* lengths callers pass to getUsablePage

BootDirs == DOMAIN BootTable
TableFrames == {PageDir} \cup {BootTable[d] : d \in BootDirs}

\* The kernel's own pages that lead to a table: the tables are part of the kernel's
\* image (section .kpg of linker.ld), and the kernel is mapped as a whole.
TablePages == {v \in DOMAIN BootSpace : BootSpace[v] \in TableFrames}

\* The boot code (hhkInit.cpp:21-56) builds private tables inside the kernel
\* image, marked as used, and maps page 0.  The pinned pages are boot pages, the
\* ones that lead to the tables among them.  The pages that callers choose for their
\* data are found by getUsablePage, which does not answer page 0; a call that names
\* page 0 is an action of its own (MapZero).
ASSUME BootAssumption ==
  /\ BootDirs \subseteq Idx \ {Rec}
  /\ \A d \in BootDirs : BootTable[d] \in Frames \ {PageDir}
  /\ \A d, e \in BootDirs : BootTable[d] = BootTable[e] => d = e
  /\ \A v \in DOMAIN BootSpace : /\ v \in Pages /\ Pde(v) \in BootDirs
                                 /\ BootSpace[v] \in Frames
  /\ 0 \in DOMAIN BootSpace
  /\ Pinned \subseteq DOMAIN BootSpace \ {0}
  /\ TablePages \subseteq Pinned
  /\ ApicPages \subseteq Pinned \ TablePages
  /\ BootUsed \subseteq Frames
  /\ TableFrames \subseteq BootUsed
  /\ {BootSpace[v] : v \in DOMAIN BootSpace} \subseteq BootUsed
  /\ Devices \subseteq BootUsed \ TableFrames
  /\ ClientPages \subseteq Pages \ {0}
  /\ Contents \subseteq Tables
  /\ Contents # {}
  /\ RunLengths \subseteq Nat

\* Callers keep to the part of the address space the boot code has built, where
\* every table has an entry that is never removed.
ClientsStayInBootTables ==
  /\ \A v \in ClientPages : Pde(v) \in BootDirs
  /\ \A d \in BootDirs : \E v \in Pinned : Pde(v) = d

VARIABLES
  vm,    \* state of the namespace, with that of PhysMem
  heap,  \* pages mapped by the heap to frames it has taken
  call   \* the last call: its name, arguments and answer

vars == <<vm, heap, call>>

Space == [v \in UserPages |-> Walk(vm, v)]

BootEntry(d, i) ==
  IF PageOf(d, i) \in DOMAIN BootSpace THEN BootSpace[PageOf(d, i)] ELSE NoPage

BootMem(f, i, junk) ==
  IF f = PageDir
  THEN IF i = Rec THEN PageDir ELSE IF i \in BootDirs THEN BootTable[i] ELSE NoPage
  ELSE IF f \in TableFrames
       THEN BootEntry(CHOOSE d \in BootDirs : BootTable[d] = f, i)
       ELSE junk[i]

Init ==
  /\ \E junk \in Contents :
       vm = [pm |-> [InitPhysMem EXCEPT !.used = BootUsed],
             mem |-> [f \in Frames |-> [i \in Idx |-> BootMem(f, i, junk)]],
             tlb |-> [v \in Pages |-> NoPage],
             null |-> FALSE,
             upiDir |-> FALSE]
  /\ heap = {}
  /\ call = [op |-> "none"]

\* allocHeap, for one page (memManager.cpp:86-94): the frame is taken, marked
\* and mapped; it is given back when the page cannot be mapped.
MapHeap(v) ==
  LET r == GetUsablePage(vm.pm)
      marked == [vm EXCEPT !.pm = SetPageUsage(r.pm, r.ret, TRUE)]
      m == Map(marked, v, r.ret)
      ok == r.ret # NoPage /\ m.ok
      t == IF r.ret = NoPage THEN marked ELSE m.s
  IN  /\ ~PageIsUsing(vm, v)
      /\ vm' = IF ok THEN t ELSE [t EXCEPT !.pm = SetPageUsage(@, r.ret, FALSE)]
      /\ heap' = IF ok THEN heap \cup {v} ELSE heap
      /\ call' = [op |-> "map", page |-> v, frame |-> r.ret, ok |-> ok]

\* freeHeap, for one page (memManager.cpp:169-171).
UnmapHeap(v) ==
  LET p == VirtPageToPhysPage(vm, v)
      t == Unmap(vm, v)
  IN  /\ v \in heap
      /\ vm' = [t EXCEPT !.pm = SetPageUsage(@, p, FALSE)]
      /\ heap' = heap \ {v}
      /\ call' = [op |-> "unmap", page |-> v]

\* ACPI maps firmware tables at pages it has found unused, the APIC code maps
\* its registers over two pages of low memory.
MapDevice(v, p) ==
  LET m == Map(vm, v, p)
  IN  /\ v \notin heap
      /\ v \in ApicPages \/ ~PageIsUsing(vm, v)
      /\ vm' = m.s
      /\ call' = [op |-> "map", page |-> v, frame |-> p, ok |-> m.ok]
      /\ UNCHANGED heap

\* ACPI's own pages and the low memory that kernelMain unmaps.
UnmapOther(v) ==
  /\ v \notin heap \cup Pinned
  /\ vm' = Unmap(vm, v)
  /\ call' = [op |-> "unmap", page |-> v]
  /\ UNCHANGED heap

\* Somebody maps page 0, before or after it has been given up.
MapZero(p) ==
  LET m == Map(vm, 0, p)
  IN  /\ vm' = m.s
      /\ call' = [op |-> "map", page |-> 0, frame |-> p, ok |-> m.ok]
      /\ UNCHANGED heap

EnableNull ==
  /\ vm' = EnableNullptr(vm)
  /\ call' = [op |-> "null"]
  /\ UNCHANGED heap

FindPages(num) ==
  LET r == VirtGetUsablePage(vm, num)
  IN  /\ vm' = r.s
      /\ call' = [op |-> "find", num |-> num, ret |-> r.ret]
      /\ UNCHANGED heap

\* A caller stores a whole page of data at a mapped page.
Store(v, c) ==
  /\ Lookup(vm, v) # NoPage
  /\ vm' = [vm EXCEPT !.mem[Lookup(vm, v)] = c]
  /\ call' = [op |-> "store", page |-> v]
  /\ UNCHANGED heap

\* The processor remembers, or forgets, a translation.
Fill(v) ==
  /\ Walk(vm, v) # NoPage
  /\ vm' = [vm EXCEPT !.tlb[v] = Lookup(vm, v)]
  /\ call' = [op |-> "none"]
  /\ UNCHANGED heap

Evict(v) ==
  /\ vm.tlb[v] # NoPage
  /\ vm' = Invlpg(vm, v)
  /\ call' = [op |-> "none"]
  /\ UNCHANGED heap

Next ==
  \/ \E v \in ClientPages : \/ MapHeap(v)
                            \/ \E p \in Devices : MapDevice(v, p)
                            \/ UnmapOther(v)
  \/ \E v \in heap : UnmapHeap(v)
  \/ \E p \in Devices : MapZero(p)
  \/ EnableNull
  \/ \E n \in RunLengths : FindPages(n)
  \/ \E v \in UserPages \ Pinned, c \in Contents : Store(v, c)
  \/ \E v \in Pages : Fill(v) \/ Evict(v)

Spec == Init /\ [][Next]_vars
------------------------------------------------------------------------------
\* Every variable has its type.
TypeOK ==
  /\ vm.pm \in [used : SUBSET Frames, last : Frames, upiDir : BOOLEAN, wild : BOOLEAN]
  /\ vm.mem \in [Frames -> Tables]
  /\ vm.tlb \in [Pages -> Entries]
  /\ vm.null \in BOOLEAN /\ vm.upiDir \in BOOLEAN
  /\ heap \subseteq Pages
  /\ call.op \in {"none", "map", "unmap", "null", "find", "store"}

\* The frames that hold the directory and the tables it points at are marked as
\* used, and no page leads to them but their windows and the kernel's own pages, so
\* that neither the allocator nor a caller's store can touch a table.
TablesArePrivate ==
  LET tables == {vm.mem[PageDir][d] : d \in Idx} \ {NoPage}
  IN  /\ tables \subseteq vm.pm.used
      /\ \A v \in UserPages \ TablePages : Walk(vm, v) \notin tables

\* What the TLB remembers of a page is what the tables say: no access goes to a
\* frame the page has been taken away from.
TLBIsCoherent == \A v \in Pages : vm.tlb[v] \in {NoPage, Walk(vm, v)}

\* A frame that a heap page stands for is marked as used and stands for no other
\* heap page.
HeapFramesAreOwned ==
  \A v \in heap : /\ Walk(vm, v) \in vm.pm.used
                  /\ \A w \in heap : Walk(vm, w) = Walk(vm, v) => w = v

\* Once page 0 has been given up it is never mapped again ("enabled once, it
\* cannot be disabled", virtMem.h:62-64), whoever asks for it.
NullStaysUnmapped == vm.null => Walk(vm, 0) = NoPage

\* getUsablePage(num) answers the first of num consecutive pages that are not in
\* use, and -1 only if there are none, whatever earlier failures have done to its
\* direction.
FindsRun ==
  call.op = "find" /\ call.num # 0 =>
    LET starts == {v \in Pages : v + call.num <= Fan * Fan
                                 /\ FreeRun(vm, v, v + call.num - 1)}
    IN  IF call.ret = NoPage THEN starts = {} ELSE call.ret \in starts

\* A call of map or unmap changes the translation of the page it was called for and
\* of no other, one that fails changes none, and no other step changes any.
A == INSTANCE AddressSpace WITH
       UserPages <- UserPages, FrameSet <- Frames, Unmapped <- NoPage,
       NullPage <- 0, space <- Space, null <- vm.null, call <- call

ImplementsAddressSpace == A!ASpec

MapIsExact ==
  [][call'.op = "map" /\ call'.ok =>
       Space' = [Space EXCEPT ![call'.page] = call'.frame]]_vars
==============================================================================
