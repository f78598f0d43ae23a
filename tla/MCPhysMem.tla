------------------------------ MODULE MCPhysMem ------------------------------
(***************************************************************************)
(* Model checking the physical page table on three groups of 64 frames.    *)
(***************************************************************************)
EXTENDS PhysMemSpec

\* Sections as the boot code has them: a whole group, sections that start or
\* end inside a byte, one that ends exactly at the end of its first byte, one
\* that ends at the end of the table and one that is out of range.
BootSections == {<<0, 64>>, <<61, 3>>, <<61, 70>>, <<131, 61>>, <<190, 3>>}

\* A memory map may also have regions that end inside the byte they start in.
AnySections == {<<0, 64>>, <<67, 1>>, <<190, 2>>}

\* Bounds the walk: one frame is held at a time.
FewHeld == Cardinality(held) <= 1
==============================================================================
