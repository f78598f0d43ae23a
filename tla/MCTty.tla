--------------------------------- MODULE MCTty ---------------------------------
(***************************************************************************)
(* A terminal on which text is printed and nobody moves the cursor: no     *)
(* place is named.                                                         *)
(***************************************************************************)
EXTENDS Tty
================================================================================
