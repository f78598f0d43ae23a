------------------------------ MODULE MCVirtMem ------------------------------
(***************************************************************************)
(* Model checking virtual memory on tables of three entries: directory     *)
(* entries 0 (low memory) and 1 (the kernel) have tables, entry 2 is the   *)
(* window.  There are eight frames, two of them free.  Page 4 is the part  *)
(* of the kernel's image in which the first table lies.                    *)
(***************************************************************************)
EXTENDS VirtMemSpec, TLC

MCBootTable == (0 :> 6) @@ (1 :> 5)
MCBootSpace == (0 :> 4) @@ (1 :> 4) @@ (3 :> 2) @@ (4 :> 6)
MCBootUsed == 2 .. 7
MCPinned == {1, 3, 4}
MCDevices == {3}

\* A page full of present entries: what makes a store into a table visible.
Junk == [i \in 0 .. 2 |-> 4]
MCContents == {Junk}

\* What the proofs assume of the callers holds in this instance.
ASSUME MCAssumption == ClientsStayInBootTables

\* Bounds the walk: the TLB holds two translations at a time.
SmallTLB == Cardinality({v \in Pages : vm.tlb[v] # NoPage}) <= 2
==============================================================================
