----------------------------- MODULE MCStructures -----------------------------
(***************************************************************************)
(* The three structures in which the kernel keeps what it has, on small    *)
(* instances: the bitmap of frames, the chunks of the heap, and the map of *)
(* reference counts.  They share no state, and a behaviour is one of one   *)
(* of them: `part' says whose, and the others stay as they begin.          *)
(***************************************************************************)
EXTENDS HeapSpec, MCPhysMem, MCRBTree

VARIABLE part

structureVars == <<part, vars, physVars, treeVars>>

StructuresInit == part \in {"frames", "heap", "tree"} /\ PhysInit /\ Init /\ TreeInit

StructuresNext ==
  \/ part = "frames" /\ PhysNext /\ UNCHANGED <<part, vars, treeVars>>
  \/ part = "heap" /\ Next /\ UNCHANGED <<part, physVars, treeVars>>
  \/ part = "tree" /\ TreeNext /\ UNCHANGED <<part, physVars, vars>>

StructuresSpec == StructuresInit /\ [][StructuresNext]_structureVars
===============================================================================
