------------------------------- MODULE MCLibrary -------------------------------
(***************************************************************************)
(* The parts of the system that share no state, on small instances.  A     *)
(* behaviour is one of one of them: `part' says whose, and the others stay *)
(* as they begin.                                                          *)
(***************************************************************************)
EXTENDS SharedPtr, ByteArray, Tty, Interrupts, MCNumTools, MCLoader

CONSTANTS x, z

VARIABLE part

libVars == <<part, ptrVars, arrayVars, ttyVars, intVars, numVars, loaderVars>>

MCLiterals == {<<>>, <<x>>}

\* On a screen of 2 columns and 3 lines: a place that is on it though its column is not,
\* and one below it.
MCPlaces == {<<3, 0>>, <<0, 3>>}

MCErrorCodes == [v \in Vectors |-> IF v \in {8, 10, 11, 12, 13, 14, 17} THEN {0, 2} ELSE {}]

LibInit ==
  /\ part \in {"pointers", "texts", "terminal", "interrupts", "numbers", "loader"}
  /\ PtrInit /\ ArraysInit /\ TtyInit /\ IntInit /\ NumInit /\ LoaderInit
  /\ part # "terminal" => \A i \in DOMAIN tty.cells : tty.cells[i].theme = DefaultTheme
  /\ part # "interrupts" => cpu.enabled /\ cpu.stack = <<>> /\ cpu.eip = <<"eip", 1>>
  /\ part # "loader" => host = Len(Hosts) /\ stage = "mbr"

\* Only the variables of one part change.
Only(p) ==
  /\ UNCHANGED part
  /\ IF p = "pointers" THEN TRUE ELSE UNCHANGED ptrVars
  /\ IF p = "texts" THEN TRUE ELSE UNCHANGED arrayVars
  /\ IF p = "terminal" THEN TRUE ELSE UNCHANGED ttyVars
  /\ IF p = "interrupts" THEN TRUE ELSE UNCHANGED intVars
  /\ IF p = "numbers" THEN TRUE ELSE UNCHANGED numVars
  /\ IF p = "loader" THEN TRUE ELSE UNCHANGED loaderVars

LoaderStep == part = "loader" /\ LoaderNext /\ Only("loader")

LibNext ==
  \/ part = "pointers" /\ PtrNext /\ Only("pointers")
  \/ part = "texts" /\ ArraysNext /\ Only("texts")
  \/ part = "terminal" /\ TtyNext /\ Only("terminal")
  \/ part = "interrupts" /\ IntNext /\ Only("interrupts")
  \/ part = "numbers" /\ NumNext /\ Only("numbers")
  \/ LoaderStep

\* Of the parts only the loader goes on without being called.
LibSpec == LibInit /\ [][LibNext]_libVars /\ WF_libVars(LoaderStep)
================================================================================
