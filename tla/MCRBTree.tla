------------------------------ MODULE MCRBTree -------------------------------
(***************************************************************************)
(* Model checking the map on all sequences of calls over seven keys, and on*)
(* trees of up to three black levels.                                      *)
(***************************************************************************)
EXTENDS RBTreeSpec
==============================================================================
