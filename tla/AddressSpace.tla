---------------------------- MODULE AddressSpace ----------------------------
(***************************************************************************)
(* What namespace VirtMem promises: an address space is a function from    *)
(* pages to the frames they stand for (or to Unmapped).  A call of map or  *)
(* unmap changes the page it is called for and no other, no other call     *)
(* changes anything, and page 0 can be given up once and for all.          *)
(***************************************************************************)
CONSTANTS UserPages, FrameSet, Unmapped, NullPage

VARIABLES
  space,  \* the frame of each page
  null,   \* page 0 has been given up
  call    \* the last call: its name, arguments and answer

avars == <<space, null, call>>

AInit ==
  /\ space \in [UserPages -> FrameSet \cup {Unmapped}]
  /\ null = FALSE
  /\ call.op = "none"

\* A map that succeeds: never of page 0 once that is given up.
AMap(v, f) ==
  /\ ~(null /\ v = NullPage)
  /\ call' = [op |-> "map", page |-> v, frame |-> f, ok |-> TRUE]
  /\ space' = [space EXCEPT ![v] = f]
  /\ UNCHANGED null

AMapFails ==
  /\ call'.op = "map" /\ ~call'.ok
  /\ UNCHANGED <<space, null>>

AUnmap(v) ==
  /\ call' = [op |-> "unmap", page |-> v]
  /\ space' = [space EXCEPT ![v] = Unmapped]
  /\ UNCHANGED null

AEnableNull ==
  /\ call' = [op |-> "null"]
  /\ space' = [space EXCEPT ![NullPage] = Unmapped]
  /\ null' = TRUE

\* Searches, stores through pages, and what the processor does to its TLB.
AOther ==
  /\ call'.op \in {"none", "find", "store"}
  /\ UNCHANGED <<space, null>>

ANext ==
  \/ \E v \in UserPages, f \in FrameSet : AMap(v, f)
  \/ \E v \in UserPages : AUnmap(v)
  \/ AMapFails \/ AEnableNull \/ AOther

ASpec == AInit /\ [][ANext]_avars
==============================================================================
