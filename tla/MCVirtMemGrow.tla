---------------------------- MODULE MCVirtMemGrow ----------------------------
(***************************************************************************)
(* Virtual memory when callers go past the boot tables: tables of four     *)
(* entries, of which entry 2 of the directory has none at boot.  The heap  *)
(* grows past the end of the kernel's table.                               *)
(***************************************************************************)
EXTENDS VirtMemSpec, TLC

GrowBootTable == (0 :> 6) @@ (1 :> 5)
GrowBootSpace == (0 :> 4) @@ (1 :> 4) @@ (4 :> 4)
GrowPinned == {1, 4}
GrowJunk == [i \in 0 .. 3 |-> 4]
GrowContents == {GrowJunk}
==============================================================================
