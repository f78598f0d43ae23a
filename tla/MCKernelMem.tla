----------------------------- MODULE MCKernelMem -----------------------------
(***************************************************************************)
(* Model checking the kernel's memory on 48 frames and tables of 32        *)
(* entries: 16 pages of low memory, one of boot code, nine of the kernel,  *)
(* four free frames of DRAM behind it.  A page has four bytes.             *)
(***************************************************************************)
EXTENDS KernelMemSpec

Region(first, pages, type) == [base |-> 4 * first, size |-> 4 * pages, type |-> type]

\* Low memory, what firmware keeps of it, DRAM that ends inside a page, and in one
\* map a region of memory behind a gap, which begins inside a page.
PlainMap == <<Region(0, 8, 1), Region(8, 8, 2), [base |-> 64, size |-> 58, type |-> 1]>>
GapMap == <<Region(0, 8, 1), Region(8, 8, 2), Region(16, 13, 1),
            [base |-> 130, size |-> 34, type |-> 1]>>
\* A machine with one page of memory behind the kernel, too few for the heap.
TinyMap == <<Region(0, 8, 1), Region(8, 8, 2), Region(16, 11, 1)>>

\* Tables: one of another kind in the root table's page, one of APICs of which the
\* context has room for two overrides; behind them is an item of length 0.
Item(type, val) == [type |-> type, val |-> val]
Other(frame) == [frame |-> frame, apic |-> FALSE, items |-> <<>>]
Madt(frame, items) == [frame |-> frame, apic |-> TRUE, items |-> items]
Full == <<Item("local", 0), Item("override", 1), Item("ioapic", 46), Item("override", 2),
          Item("override", 3), Item("ioapic", 45), Item("endless", 0)>>

Machine(m, r, t) == [map |-> m, rsdps |-> r, tables |-> t]
OneRoot == 40 :> 31
OneTable(items) == 31 :> <<Other(31), Madt(30, items), Other(42)>>
\* Two root pointers; the one that firmware has left behind names no tables.
TwoRoots == (40 :> 44) @@ (48 :> 31)
TwoTables == OneTable(Full) @@ (44 :> <<>>)

\* Firmware keeps two pages behind DRAM, which are not mapped.
HoleMap == <<Region(0, 8, 1), Region(8, 8, 2), Region(16, 14, 1), Region(30, 2, 2)>>

MCMachines ==
  {Machine(PlainMap, OneRoot, OneTable(Full)),
   Machine(GapMap, TwoRoots, TwoTables),
   Machine(TinyMap, OneRoot, OneTable(Full)),
   Machine(PlainMap, OneRoot, 31 :> <<Other(42)>>),
   Machine(PlainMap, OneRoot, OneTable(<<Item("ioapic", 46), Item("endless", 0)>>)),
   Machine(PlainMap, 41 :> 31, OneTable(Full)),
   Machine(HoleMap, OneRoot, OneTable(Full))}

ASSUME MCAssumption == \A m \in MCMachines : MachineIsSound(m)

\* DRAM reaches the end of the address space.
CappedMachines ==
  {Machine(<<Region(0, 8, 1), Region(8, 8, 2), Region(16, 32, 1)>>, OneRoot, OneTable(Full))}

\* Firmware keeps a page in the middle of low memory, as UEFI machines do.
SplitMachines ==
  {Machine(<<Region(0, 9, 1), Region(9, 1, 2), Region(10, 6, 1), Region(16, 14, 1)>>,
           38 :> 31, OneTable(Full))}

MCHeapWords == [i \in Idx |-> 5]
==============================================================================
