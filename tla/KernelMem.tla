------------------------------ MODULE KernelMem ------------------------------
(***************************************************************************)
(* What the kernel does with its memory from the boot page tables to the   *)
(* end of kernelMain: kernelPageInit (hhkInit.cpp), kernelMemInit          *)
(* (kernelMem.cpp), ACPI::init, the loops of kernelMain over the memory    *)
(* map, and allocHeap, expandHeap and freeHeap (memManager.cpp) over       *)
(* several pages.  Each function is an operator on the state s of VirtMem, *)
(* in which the state of PhysMem is s.pm.                                  *)
(*                                                                         *)
(* Addresses are counted in bytes, PageSize to a page, so that the         *)
(* roundings of the code are visible.                                      *)
(***************************************************************************)
EXTENDS VirtMem, SequencesExt

CONSTANTS
  PageSize,    \* bytes of a page: 4096
  LowPages,    \* pages below 1 MiB: 256
  HhkEnd,      \* page behind the boot code, where the kernel starts in memory
  KernelEnd,   \* page behind the kernel
  KernelBase,  \* page of the address 0xC0000000
  HeapWords,   \* what the first and the last words of a heap look like as entries
  RsdpTop,     \* address that a region searched for ACPI's root must begin below: 16 MiB
  RsdpStep,    \* bytes between the places looked at: 16
  MaxOverrides \* interrupt overrides that the APIC context has room for: 24

ASSUME KernelMemAssumption ==
  /\ PageSize \in Nat \ {0} /\ Word = NFrames * PageSize
  /\ LowPages \in Nat /\ HhkEnd \in Nat /\ KernelEnd \in Nat /\ KernelBase \in Nat
  /\ LowPages < HhkEnd /\ HhkEnd < KernelEnd /\ HhkEnd < Fan
  /\ PageDir \in HhkEnd .. KernelEnd - 1
  /\ HeapWords \in Tables
  /\ RsdpTop \in Nat /\ RsdpStep \in Nat \ {0} /\ MaxOverrides \in Nat \ {0}

CeilDiv(a, b) == (a + b - 1) \div b
------------------------------------------------------------------------------
(***************************************************************************)
(* kernelPageInit: low memory and the boot code at their own addresses,    *)
(* the kernel at KernelBase, the directory at its own last entry.  The     *)
(* five tables follow the directory in memory.                             *)
(***************************************************************************)
KernelPages == KernelEnd - HhkEnd
KernelPde == Pde(KernelBase + HhkEnd)
KernelPte == Pte(KernelBase + HhkEnd)
KernelTables == CeilDiv(KernelPages, Fan)
TableFrame(k) == PageDir + 1 + k

BootPde(d) ==
  IF d = Rec THEN PageDir
  ELSE IF d = 0 THEN TableFrame(0)
  ELSE IF d \in KernelPde .. KernelPde + KernelTables - 1
       THEN TableFrame(d - KernelPde + 1)
       ELSE NoPage

\* The entries of the second and later tables are written as one long table.
BootPte(k, i) ==
  IF k = 0 THEN IF i < HhkEnd THEN i ELSE NoPage
  ELSE LET n == (k - 1) * Fan + i - KernelPte
       IN  IF n \in 0 .. KernelPages - 1 THEN HhkEnd + n ELSE NoPage

KernelPageInit ==
  [f \in Frames |->
     [i \in Idx |-> IF f = PageDir THEN BootPde(i)
                    ELSE IF f \in TableFrame(0) .. TableFrame(4)
                         THEN BootPte(f - TableFrame(0), i) ELSE NoPage]]
------------------------------------------------------------------------------
(***************************************************************************)
(* allocHeap, expandHeap and freeHeap.  Here a heap is its pages; what is  *)
(* inside is the subject of Heap.                                          *)
(***************************************************************************)
PageRun(page, size) == [i \in 1 .. size |-> page + i - 1]

\* Mutant: the frame is not marked as used.
InstallPage_Unmarked(acc, v, r) ==
  LET m == Map([acc.s EXCEPT !.pm = r.pm], v, r.ret)
  IN  [ok |-> m.ok, s |-> m.s, done |-> IF m.ok THEN Append(acc.done, v) ELSE acc.done]

\* A frame that was taken is marked and mapped; when that fails it is given back,
\* which ends the loop.  acc holds the pages done so far.
InstallPage(acc, v, r) ==
  LET m == Map([acc.s EXCEPT !.pm = SetPageUsage(r.pm, r.ret, TRUE)], v, r.ret)
  IN  IF m.ok THEN [ok |-> TRUE, s |-> m.s, done |-> Append(acc.done, v)]
      ELSE [ok |-> FALSE, s |-> [m.s EXCEPT !.pm = SetPageUsage(@, r.ret, FALSE)],
            done |-> acc.done]

AllocPage(acc, v) ==
  IF acc.ok THEN InstallPage(acc, v, GetUsablePage(acc.s.pm)) ELSE acc

\* Mutant: the frame is given back and the page stays mapped.
ReleasePage_StaysMapped(s, v) ==
  [s EXCEPT !.pm = SetPageUsage(@, VirtPageToPhysPage(s, v), FALSE)]

ReleasePage(s, v) ==
  LET p == VirtPageToPhysPage(s, v)
  IN  [Unmap(s, v) EXCEPT !.pm = SetPageUsage(@, p, FALSE)]

\* The head and the tail of a new heap are written through its pages.
WriteHeap(s, page, size) ==
  [s EXCEPT !.mem[Lookup(s, page)] = HeapWords,
            !.mem[Lookup(s, page + size - 1)] = HeapWords]

\* Mutant: the pages mapped before the failure are not given back.
Settle_NoRollback(a, page, size) ==
  IF a.ok THEN [ok |-> TRUE, page |-> page, s |-> WriteHeap(a.s, page, size)]
  ELSE [ok |-> FALSE, page |-> NoPage, s |-> a.s]

Settle(a, page, size) ==
  IF a.ok THEN [ok |-> TRUE, page |-> page, s |-> WriteHeap(a.s, page, size)]
  ELSE [ok |-> FALSE, page |-> NoPage, s |-> FoldLeft(ReleasePage, a.s, Reverse(a.done))]

\* allocHeap(page, size).  The loop that checks the pages looks at the first one
\* each time (memManager.cpp:79).
AllocHeapAt(s, page, size) ==
  IF PageIsUsing(s, page) THEN [ok |-> FALSE, page |-> NoPage, s |-> s]
  ELSE Settle(FoldLeft(AllocPage, [ok |-> TRUE, s |-> s, done |-> <<>>], PageRun(page, size)),
              page, size)

AllocFound(r, size) ==
  IF r.ret = NoPage THEN [ok |-> FALSE, page |-> NoPage, s |-> r.s]
  ELSE AllocHeapAt(r.s, r.ret, size)

\* allocHeap(size), where the pages are looked for.
AllocHeap(s, size) == AllocFound(VirtGetUsablePage(s, size), size)

FreeHeapPages(s, page, size) == FoldLeft(ReleasePage, s, PageRun(page, size))
------------------------------------------------------------------------------
(***************************************************************************)
(* kernelMemInit.  upper is the last address of DRAM.  The search for the  *)
(* pages of the heap looks at the page behind the kernel again and again,  *)
(* and never ends when that page is in use (kernelMem.cpp:34-42).          *)
(***************************************************************************)
HeapPage == KernelBase + KernelEnd

Unusable(upper) == ((upper + 1) % Word) \div PageSize

\* Mutants: the end of the kernel is taken for its length; the end of the table is
\* taken for the number of frames behind DRAM.
Sectioned_KernelEnd(pm, upper) ==
  LET low == SetSectionPageUsage(pm, 0, LowPages, TRUE)
      kernel == SetSectionPageUsage(low, LowPages, KernelEnd, TRUE)
  IN  SetSectionPageUsage(kernel, Unusable(upper), NFrames - Unusable(upper), TRUE)
Sectioned_ToEnd(pm, upper) ==
  LET low == SetSectionPageUsage(pm, 0, LowPages, TRUE)
      kernel == SetSectionPageUsage(low, LowPages, KernelEnd - LowPages, TRUE)
  IN  SetSectionPageUsage(kernel, Unusable(upper), NFrames, TRUE)

Sectioned(pm, upper) ==
  LET low == SetSectionPageUsage(pm, 0, LowPages, TRUE)
      kernel == SetSectionPageUsage(low, LowPages, KernelEnd - LowPages, TRUE)
  IN  SetSectionPageUsage(kernel, Unusable(upper), NFrames - Unusable(upper), TRUE)

KernelMemInit(s, num, upper) ==
  AllocHeapAt([s EXCEPT !.pm = Sectioned(@, upper)], HeapPage, num)
------------------------------------------------------------------------------
(***************************************************************************)
(* findRSDP.  The firmware has left root pointers in its own regions of    *)
(* memory: rsdps maps the address of each to the frame of the table it     *)
(* names.  The last one found is taken.  The memory is read through pages  *)
(* of the same number: a page that is not mapped faults, which ends in     *)
(* crash.                                                                  *)
(***************************************************************************)
Scanned(r) == {j \in r.base .. r.base + r.size - 1 : (j - r.base) % RsdpStep = 0}

ScanRegion(s, rsdps, acc, r) ==
  IF acc.over \/ r.type # 2 THEN acc
  ELSE IF r.base >= RsdpTop THEN [acc EXCEPT !.over = TRUE]
  ELSE LET hits == Scanned(r) \cap DOMAIN rsdps
       IN  [acc EXCEPT !.fault = @ \/ \E j \in Scanned(r) : Walk(s, j \div PageSize) = NoPage,
                       !.root = IF hits = {} THEN @ ELSE rsdps[Max(hits)]]

NotFound == [root |-> NoPage, over |-> FALSE, fault |-> FALSE]

FindRSDP(s, map, rsdps) ==
  LET Step(acc, r) == ScanRegion(s, rsdps, acc, r)
  IN  FoldLeft(Step, NotFound, map)
------------------------------------------------------------------------------
(***************************************************************************)
(* parseAPIC.  A table is [frame, apic, items]; the items of a table of    *)
(* APICs are [type, val], where val is the frame of an I/O APIC's          *)
(* registers, or stands for an override.  An item is as long as it says,   *)
(* and one of length 0 that is no override is of type "endless": the walk  *)
(* stays at its place for ever (ACPI.cpp:35).  The walk ends early when    *)
(* the context is full.                                                    *)
(***************************************************************************)
NoContext == [isReady |-> FALSE, ioapic |-> 0, intSO |-> <<>>]

IsFull(context) == Len(context.intSO) >= MaxOverrides

\* Mutant: the item of an I/O APIC is passed over like that of a local one.
Enlisted_NoIoapic(context, item) ==
  IF item.type = "override" THEN [context EXCEPT !.intSO = Append(@, item.val)] ELSE context

Enlisted(context, item) ==
  CASE item.type = "ioapic" -> [context EXCEPT !.ioapic = item.val]
    [] item.type = "override" -> [context EXCEPT !.intSO = Append(@, item.val)]
    [] OTHER -> context

ParseItem(acc, item) ==
  LET c == Enlisted(acc.context, item)
  IN  IF acc.over THEN acc ELSE [context |-> c, over |-> IsFull(c)]

\* The walk comes to an item of length 0 before the context is full.
NeverParsed(items) ==
  \E i \in DOMAIN items :
    /\ items[i].type = "endless"
    /\ Cardinality({j \in 1 .. i - 1 : items[j].type = "override"}) < MaxOverrides

ParseAPIC(context, items) ==
  [FoldLeft(ParseItem, [context |-> context, over |-> FALSE], items).context
     EXCEPT !.isReady = TRUE]
------------------------------------------------------------------------------
(***************************************************************************)
(* ACPI::init maps two pages for the root table and two for each table it  *)
(* names, unless that one starts in the root table's page.                 *)
(***************************************************************************)
MapSecond(m, page, frame) ==
  LET two == Map(m.s, page + 1, frame + 1)
  IN  IF m.ok THEN [ok |-> two.ok, s |-> two.s, page |-> page]
      ELSE [ok |-> FALSE, s |-> m.s, page |-> page]

MapFound(r, frame) ==
  IF r.ret = NoPage THEN [ok |-> FALSE, s |-> r.s, page |-> NoPage]
  ELSE MapSecond(Map(r.s, r.ret, frame), r.ret, frame)

MapTwo(s, frame) == MapFound(VirtGetUsablePage(s, 2), frame)

UnmapTwo(s, page) == Unmap(Unmap(s, page), page + 1)

Parsed(context, table) == IF table.apic THEN ParseAPIC(context, table.items) ELSE context

CloseTable(acc, m, table) ==
  IF m.ok THEN [acc EXCEPT !.s = UnmapTwo(m.s, m.page), !.context = Parsed(@, table)]
  ELSE [acc EXCEPT !.ok = FALSE, !.s = m.s]

ReadTable(acc, table) ==
  IF ~acc.ok THEN acc
  ELSE IF table.frame = acc.root THEN [acc EXCEPT !.context = Parsed(@, table)]
  ELSE CloseTable(acc, MapTwo(acc.s, table.frame), table)

\* Mutant: the pages of the root table stay mapped.
CloseRoot_Kept(acc, page) == acc

CloseRoot(acc, page) == IF acc.ok THEN [acc EXCEPT !.s = UnmapTwo(@, page)] ELSE acc

ReadRoot(m, root, tables) ==
  CloseRoot(FoldLeft(ReadTable, [ok |-> m.ok, s |-> m.s, root |-> root, context |-> NoContext],
                     tables), m.page)

NoRoot(s) == [ok |-> FALSE, s |-> s, root |-> NoPage, context |-> NoContext]

\* What is found is the root table's frame; tables are those that it names, in order.
AcpiInit(s, found, tables) ==
  IF found.fault \/ found.root = NoPage THEN NoRoot(s)
  ELSE ReadRoot(MapTwo(s, found.root), found.root, tables[found.root])
------------------------------------------------------------------------------
(***************************************************************************)
(* kernelMain's use of the memory map, a sequence of regions               *)
(* [base, size, type] in bytes; type 1 is memory for the kernel to use.    *)
(***************************************************************************)
OneMiB == LowPages * PageSize
IsDram(r) == r.base = OneMiB
DramCap == Word - OneMiB

\* The first region at 1 MiB.
Dram(map) == map[Min({i \in DOMAIN map : IsDram(map[i])})]

\* The last address of DRAM (kernel.cpp:35-42).
DramUpper(map) ==
  LET dram == Dram(map)
      size == IF dram.size > DramCap THEN DramCap ELSE dram.size
  IN  (size + OneMiB - 1) % Word

\* A region of memory other than DRAM is marked as unused.
IsFreed(r) == ~IsDram(r) /\ r.type = 1 /\ r.base < Word
FirstFreed(r) == CeilDiv(r.base, PageSize)
PagesFreed(r) == IF r.size \div PageSize > NFrames THEN NFrames ELSE r.size \div PageSize

FreeRegion(s, r) ==
  IF IsFreed(r)
  THEN [s EXCEPT !.pm = SetSectionPageUsage(@, FirstFreed(r), PagesFreed(r), FALSE)]
  ELSE s

\* The pages that kernelMain unmaps for a region below 1 MiB: from its first page
\* up to the page whose number is its length (kernel.cpp:85-89).
LowRun(r) ==
  LET base == IF r.base = 0 THEN 3 ELSE CeilDiv(r.base, PageSize)
      size == r.size \div PageSize
  IN  IF base < size THEN PageRun(base, size - base) ELSE <<>>

UnmapLow(s, r) == IF r.type = 1 THEN FoldLeft(Unmap, s, LowRun(r)) ELSE s
==============================================================================
