----------------------------- MODULE Dictionary ------------------------------
(***************************************************************************)
(* What Map promises: a set of keys.  A call adds the key it names, or     *)
(* removes it, or removes all, and says so; nothing else changes the set.  *)
(***************************************************************************)
CONSTANT KeySet

VARIABLES
  content,
  call      \* the last call: its name and the key it was made for

dvars == <<content, call>>

DInit == content = {} /\ call = [op |-> "none"]

DAdd(k) == call' = [op |-> "put", key |-> k] /\ content' = content \cup {k}
DRemove(k) == call' = [op |-> "remove", key |-> k] /\ content' = content \ {k}
DClear == call' = [op |-> "clear"] /\ content' = {}

DNext == (\E k \in KeySet : DAdd(k) \/ DRemove(k)) \/ DClear

DSpec == DInit /\ [][DNext]_dvars
==============================================================================
