---------------------------- MODULE KernelMemSpec ----------------------------
(***************************************************************************)
(* The memory of the kernel from the moment paging is on: the steps of     *)
(* kernelMain (kernel.cpp:28-95) in their order, then the life of the      *)
(* kernel heap and of other heaps.  Between the steps the processor's TLB  *)
(* stays empty here; it is the subject of VirtMemSpec.                     *)
(***************************************************************************)
EXTENDS KernelMem

CONSTANTS
  Machines,      \* [map, rsdps, tables]: the memory map a machine may have, its root
                 \* pointers, and the tables that each root table names
  MapPages,      \* pages where a boot loader may have put the memory map
  LapicFrame,    \* frame of the local APIC's registers
  InitPages,     \* pages of the kernel heap at the start: 4
  Growths,       \* pages that a heap is expanded by, and that are asked for
  MaxPages,      \* bound: pages that the kernel's heap may have
  MaxHeaps       \* bound: heaps at a time

\* The I/O APICs that a table names before it has filled the context with overrides.
Reached(items) ==
  {items[i].val : i \in {k \in DOMAIN items :
     /\ items[k].type = "ioapic"
     /\ Cardinality({j \in 1 .. k - 1 : items[j].type = "override"}) < MaxOverrides}}

\* What the code takes for granted of firmware.  With a second table of APICs
\* parseAPIC would write one override behind the end of a full context (ACPI.cpp:29);
\* with a table that names no I/O APIC in reach IOAPIC::init would map frame 0
\* (IOAPIC.cpp:26-28).  An override of length 0 would fill the context (ACPI.cpp:27-36).
FirmwareIsSound(tables) ==
  /\ Cardinality({i \in DOMAIN tables : tables[i].apic}) <= 1
  /\ \A i \in DOMAIN tables : tables[i].apic => Reached(tables[i].items) # {}

ASSUME KernelMemSpecAssumption ==
  /\ \A m \in Machines : \E i \in DOMAIN m.map : IsDram(m.map[i])
  /\ \A m \in Machines : \A root \in DOMAIN m.tables : FirmwareIsSound(m.tables[root])
  /\ LapicFrame \in Frames
  /\ InitPages \in Nat \ {0}
  /\ Growths \subseteq Nat \ {0}
  /\ MapPages \subseteq 1 .. HhkEnd - 1
  /\ MaxPages \in Nat /\ MaxHeaps \in Nat

\* How linker.ld and kernelPageInit lay out the memory: low memory is longer than a
\* byte of the bitmap has bits, and so is the kernel, whose five tables lie in its
\* image; the tables of the kernel are behind the first of all and have room for its
\* heap.  The last conjunct is about the bounds: behind the boot code the first table
\* has room for the other heaps, of at most g pages each with g pages in between.
ASSUME LayoutAssumption ==
  /\ 8 <= LowPages /\ 8 - (LowPages % 8) <= KernelEnd - LowPages
  /\ PageDir + 5 < KernelEnd /\ KernelEnd <= NFrames
  /\ 0 < KernelPde /\ KernelTables <= 4 /\ KernelPde + KernelTables <= Rec
  /\ InitPages <= MaxPages /\ HeapPage + MaxPages <= PageOf(KernelPde + KernelTables, 0)
  /\ HhkEnd + 4 <= Fan
  /\ \E g \in Growths : (\A h \in Growths : h <= g) /\ HhkEnd + (2 * MaxHeaps - 3) * g <= Fan

\* What holds of the memory map and the tables of the machines that the code was
\* written for: DRAM holds the kernel and ends below the end of the address space;
\* the other regions of memory do not overlap it, are not too short for the bitmap's
\* writer and hold each frame that is freed for them; low memory is one region from
\* address 0, and the map's regions below 1 MiB come first; the tables of firmware lie
\* outside the kernel, and the APICs' registers in no memory.
FreedFor(r) == FirstFreed(r) .. FirstFreed(r) + PagesFreed(r) - 1
AllFreed(m) == UNION {FreedFor(m[i]) : i \in {k \in DOMAIN m : IsFreed(m[k])}}
Top(m) == Unusable(DramUpper(m))

InRegion(f, r) == r.base <= f * PageSize /\ (f + 1) * PageSize <= r.base + r.size

MapIsSound(m) ==
  /\ m \in Seq([base : Nat, size : Nat, type : Nat])
  /\ Dram(m).type = 1 /\ Dram(m).size + OneMiB < Word /\ KernelEnd <= Top(m)
  /\ \A i \in DOMAIN m : IsFreed(m[i]) =>
       /\ 8 - (FirstFreed(m[i]) % 8) <= PagesFreed(m[i])
       /\ FreedFor(m[i]) \subseteq Frames \ (LowPages .. Top(m) - 1)
       /\ \A f \in FreedFor(m[i]) : InRegion(f, m[i])
  /\ \A i \in DOMAIN m : m[i].base < OneMiB =>
       /\ m[i].type = 1 => m[i].base = 0 /\ m[i].size <= OneMiB
       /\ \A j \in 1 .. i : m[j].base < OneMiB

\* The I/O APICs that the tables of a root name.
IoapicsOf(tables) == UNION {Reached(tables[i].items) : i \in DOMAIN tables}

TablesAreSound(tables, registers) ==
  /\ tables \in Seq([frame : Frames, apic : BOOLEAN, items : Seq([type : STRING, val : Nat])])
  /\ \A i \in DOMAIN tables : {tables[i].frame, tables[i].frame + 1} \subseteq
                                Frames \ (LowPages .. KernelEnd - 1)
  /\ IoapicsOf(tables) \subseteq registers

MachineIsSound(m) ==
  LET registers == (Top(m.map) .. NFrames - 1) \ AllFreed(m.map)
  IN  /\ MapIsSound(m.map)
      /\ LapicFrame \in registers
      /\ \A j \in DOMAIN m.rsdps :
           /\ m.rsdps[j] \in DOMAIN m.tables
           /\ {m.rsdps[j], m.rsdps[j] + 1} \subseteq Frames \ (LowPages .. KernelEnd - 1)
           /\ TablesAreSound(m.tables[m.rsdps[j]], registers)

VARIABLES
  vm,     \* state of VirtMem and PhysMem
  map,    \* the memory map
  acpi,   \* what firmware has left: [rsdps, tables]
  apic,   \* the APIC context, apicContext of ACPI.cpp
  mapAt,  \* the page where the kernel reads it
  heaps,  \* the heaps: first page -> number of pages
  stage,  \* the step of kernelMain that is next
  next,   \* counter of its loops over the memory map
  tick    \* changes with every step of kernelMain, also with one that does nothing

vars == <<vm, map, acpi, apic, mapAt, heaps, stage, next, tick>>
machine == <<map, acpi>>

Steps == {"memory", "acpi", "nullptr", "regions", "low", "apic"}

Init ==
  /\ vm = [pm |-> InitPhysMem,
           mem |-> KernelPageInit,
           tlb |-> [v \in Pages |-> NoPage],
           null |-> FALSE,
           upiDir |-> FALSE]
  /\ \E m \in Machines : map = m.map /\ acpi = [rsdps |-> m.rsdps, tables |-> m.tables]
  /\ apic = NoContext
  /\ mapAt \in MapPages
  /\ heaps = [p \in {} |-> 0]
  /\ stage = "memory"
  /\ next = 1
  /\ tick = FALSE

With(page, size) ==
  [p \in DOMAIN heaps \cup {page} |-> IF p = page THEN size ELSE heaps[p]]

\* Where a call of allocHeap leaves the memory and the heaps; the heap that starts at
\* page has size pages if the call succeeds.
Granted(r, page, size) ==
  /\ vm' = r.s
  /\ heaps' = IF r.ok THEN With(page, size) ELSE heaps

\* A failure ends in crash, which halts the processor.
Goes(ok, step) == stage' = IF ok THEN step ELSE "halted"

\* What ACPI::init does with the machine's tables, up to the end of its loop.
AcpiResult == AcpiInit(vm, FindRSDP(vm, map, acpi.rsdps), acpi.tables)

\* A loop of kernelMain that never ends: the search for the pages of the heap when the
\* first is in use, or the walk over the items of a table that has been reached.
Spins ==
  \/ stage = "memory" /\ PageIsUsing(vm, HeapPage)
  \/ /\ stage = "acpi" /\ AcpiResult.context.isReady
     /\ LET tables == acpi.tables[FindRSDP(vm, map, acpi.rsdps).root]
        IN  \E i \in DOMAIN tables : tables[i].apic /\ NeverParsed(tables[i].items)

InitMemory ==
  /\ stage = "memory"
  /\ ~Spins
  /\ LET r == KernelMemInit(vm, InitPages, DramUpper(map))
     IN  Granted(r, HeapPage, InitPages) /\ Goes(r.ok, "acpi")
  /\ UNCHANGED <<machine, apic, mapAt, next>>

InitAcpi ==
  /\ stage = "acpi"
  /\ ~Spins
  /\ LET r == AcpiResult
     IN  vm' = r.s /\ apic' = r.context /\ Goes(r.ok, "nullptr")
  /\ UNCHANGED <<machine, mapAt, heaps, next>>

GiveUpNull ==
  /\ stage = "nullptr"
  /\ vm' = EnableNullptr(vm)
  /\ stage' = "regions"
  /\ UNCHANGED <<machine, apic, mapAt, heaps, next>>

\* One turn of the loop over all regions.  What it allocates fits into the heap.
NextRegion ==
  /\ stage = "regions"
  /\ next \in DOMAIN map
  /\ vm' = FreeRegion(vm, map[next])
  /\ next' = next + 1
  /\ UNCHANGED <<machine, apic, mapAt, heaps, stage>>

\* Mutant: the kernel goes on reading the map where the boot loader has put it.
MapCopied_NotUsed == mapAt

\* The copy of the map on the heap takes the place of the boot loader's.
MapCopied == HeapPage

EndRegions ==
  /\ stage = "regions"
  /\ next \notin DOMAIN map
  /\ mapAt' = MapCopied
  /\ next' = 1
  /\ stage' = "low"
  /\ UNCHANGED <<vm, machine, apic, heaps>>

\* Mutant: only a region of memory is counted.
NextLow_Stays ==
  /\ stage = "low"
  /\ map[next].base < OneMiB
  /\ vm' = UnmapLow(vm, map[next])
  /\ next' = IF map[next].type = 1 THEN next + 1 ELSE next
  /\ UNCHANGED <<machine, apic, mapAt, heaps, stage>>

\* One turn of the loop over the regions below 1 MiB, which ends at the first
\* region above.
NextLow ==
  /\ stage = "low"
  /\ map[next].base < OneMiB
  /\ vm' = UnmapLow(vm, map[next])
  /\ next' = next + 1
  /\ UNCHANGED <<machine, apic, mapAt, heaps, stage>>

EndLow ==
  /\ stage = "low"
  /\ map[next].base >= OneMiB
  /\ stage' = "apic"
  /\ UNCHANGED <<vm, machine, apic, mapAt, heaps, next>>

\* The registers of the local APIC and of the I/O APIC are mapped at pages 1 and 2.
InitApic ==
  /\ stage = "apic"
  /\ LET lapic == Map(vm, 1, LapicFrame).s
     IN  vm' = IF apic.isReady THEN Map(lapic, 2, apic.ioapic).s ELSE lapic
  /\ Goes(apic.isReady, "running")
  /\ UNCHANGED <<machine, apic, mapAt, heaps, next>>

Boot ==
  /\ \/ InitMemory \/ InitAcpi \/ GiveUpNull \/ NextRegion \/ EndRegions
     \/ NextLow \/ EndLow \/ InitApic
  /\ tick' = ~tick

\* expandHeap, which hlmalloc calls for the kernel's heap.
Expand(size) ==
  LET pages == heaps[HeapPage] + size
  IN  /\ stage = "running"
      /\ pages <= MaxPages
      /\ Granted(AllocHeapAt(vm, HeapPage + heaps[HeapPage], size), HeapPage, pages)
      /\ UNCHANGED <<machine, apic, mapAt, stage, next, tick>>

\* allocHeap(size) and freeHeap, which memManager.h offers to the rest of the kernel.
NewHeap(size) ==
  LET r == AllocHeap(vm, size)
  IN  /\ stage = "running"
      /\ Cardinality(DOMAIN heaps) < MaxHeaps
      /\ Granted(r, r.page, size)
      /\ UNCHANGED <<machine, apic, mapAt, stage, next, tick>>

FreeHeap(page) ==
  /\ stage = "running"
  /\ page # HeapPage
  /\ vm' = FreeHeapPages(vm, page, heaps[page])
  /\ heaps' = [p \in DOMAIN heaps \ {page} |-> heaps[p]]
  /\ UNCHANGED <<machine, apic, mapAt, stage, next, tick>>

\* crash halts the processor for good; a loop without end keeps it for good.
Halted == stage = "halted" /\ UNCHANGED vars
SpinOn == Spins /\ UNCHANGED vars

Next ==
  \/ Boot
  \/ Halted \/ SpinOn
  \/ \E size \in Growths : Expand(size) \/ NewHeap(size)
  \/ \E page \in DOMAIN heaps : FreeHeap(page)

\* One processor runs the steps of kernelMain, and nothing keeps it from the next one:
\* no interrupt handler returns to anything else.  Nobody has to ask for a heap.
\* This is WF_vars(Boot), with the guards in the place of ENABLED, which would compute
\* the effect of every step; every step changes tick.
BootCanStep == stage \in Steps /\ ~Spins
BootFairness == []<>~BootCanStep \/ []<><<Boot>>_vars

Spec == Init /\ [][Next]_vars /\ BootFairness
------------------------------------------------------------------------------
Space == [v \in UserPages |-> Walk(vm, v)]
HeapPages == UNION {p .. p + heaps[p] - 1 : p \in DOMAIN heaps}
Used == vm.pm.used

\* The I/O APICs that firmware names.
Ioapics == UNION {IoapicsOf(acpi.tables[root]) : root \in DOMAIN acpi.tables}

\* The pages of the heaps, of all of them together, stand for distinct frames,
\* each marked as used and outside the kernel and its page tables.
HeapsAreBacked ==
  \A v \in HeapPages :
    /\ Walk(vm, v) \in Used \ (LowPages .. KernelEnd - 1)
    /\ \A w \in UserPages : Walk(vm, w) = Walk(vm, v) => w = v

\* Once the kernel is running no page leads to a frame that is free to be handed
\* out: whoever gets the frame has it alone.
FreeFramesAreUnmapped ==
  stage = "running" => \A v \in UserPages : Walk(vm, v) \in Used \cup {NoPage}

\* kernelMain reads the memory map only through a page that is mapped, although
\* it unmaps the memory where the boot loader has put it.
MapIsReadable ==
  stage \in {"memory", "acpi", "regions", "low"} => Walk(vm, mapAt) # NoPage

\* Once kernelMemInit has marked what is not DRAM (kernelMem.cpp:19) every frame
\* of DRAM behind the kernel is free or in a heap.
DramIsUsable ==
  stage # "memory" =>
    \A f \in KernelEnd .. NFrames - 1 :
      InRegion(f, Dram(map)) =>
        f \notin Used \/ \E v \in HeapPages : Walk(vm, v) = f

\* Every frame that is free to be handed out, or that a heap has got, is memory
\* from its first byte to its last.
FramesAreMemory ==
  stage # "memory" =>
    \A f \in (Frames \ Used) \cup {Walk(vm, v) : v \in HeapPages} :
      \E i \in DOMAIN map : map[i].type = 1 /\ InRegion(f, map[i])

\* A call that gives nobody a heap and takes nobody's, because allocHeap could not
\* get all its pages, leaves translations and bitmap as they were
\* (memManager.cpp:92-98).
FailureChangesNothing ==
  [][stage = "running" /\ heaps' = heaps => Space' = Space /\ Used' = Used]_vm

\* ACPI::init leaves every translation and the bitmap as it found them.
AcpiLeavesNoTrace ==
  [][stage = "acpi" /\ stage' = "nullptr" => Space' = Space /\ Used' = Used]_vars

\* While the kernel runs, whatever heaps come and go, page 1 leads to the registers
\* of the local APIC and page 2 to those of an I/O APIC that firmware has named
\* (LAPIC.cpp:17, IOAPIC.cpp:26-28).
ApicIsMapped ==
  stage = "running" => Walk(vm, 1) = LapicFrame /\ Walk(vm, 2) \in Ioapics

\* The map is in order and DRAM has room for the first heap; firmware keeps what it has
\* below RsdpTop in low memory, and the last root pointer in it names a table of APICs
\* through which the walk comes to an end.
LacksNothing ==
  LET reserved == {i \in DOMAIN map : map[i].type = 2 /\ map[i].base < RsdpTop}
      pointers == DOMAIN acpi.rsdps \cap UNION {Scanned(map[i]) : i \in reserved}
      tables == acpi.tables[acpi.rsdps[Max(pointers)]]
  IN  /\ \A i, j \in DOMAIN map : i < j => map[i].base < map[j].base
      /\ Cardinality({f \in KernelEnd .. NFrames - 1 : InRegion(f, Dram(map))}) >= InitPages
      /\ \A i \in reserved : map[i].base + map[i].size <= OneMiB
      /\ pointers # {}
      /\ \E i \in DOMAIN tables : tables[i].apic
      /\ \A i \in DOMAIN tables : tables[i].apic => ~NeverParsed(tables[i].items)

\* The kernel of a machine that lacks nothing comes up: no step of kernelMain crashes or
\* goes on for ever, as parseAPIC does with an item of length 0 (kernel.cpp:28-95).
BootSucceeds == LacksNothing ~> stage = "running"
==============================================================================
