----------------------------- MODULE PhysMemSpec -----------------------------
(***************************************************************************)
(* The physical page table under its callers: boot code marks sections of  *)
(* memory, heap code takes a frame with getUsablePage followed at once by  *)
(* setPageUsage(page, true) (allocHeap, memManager.cpp:87-88) and gives it *)
(* back with setPageUsage(page, false).  Nothing runs concurrently and     *)
(* interrupts are never enabled, so a call is one step.                        *)
(***************************************************************************)
EXTENDS PhysMem

CONSTANT Sections   \* the <<begin, size>> pairs passed to setSectionPageUsage

\* They are unsigned ints.
ASSUME SectionsAssumption == Sections \subseteq (0 .. Word - 1) \X (0 .. Word - 1)

VARIABLES
  pm,    \* state of the namespace
  held,  \* frames taken by AllocFrame and not yet given back
  physCall   \* the last call: its name, arguments and answer

physVars == <<pm, held, physCall>>

NoPhysCall == [op |-> "none"]

PhysInit ==
  /\ pm = InitPhysMem
  /\ held = {}
  /\ physCall = NoPhysCall

\* The boot code sections memory off, or returns a section of it to use.  It
\* never does the latter to memory that somebody has taken.
SetSection(begin, size, isUsing) ==
  /\ ~pm.wild
  /\ ~isUsing => {p \in held : begin <= p /\ p < SectionEnd(begin, size)} = {}
  /\ pm' = SetSectionPageUsage(pm, begin, size, isUsing)
  /\ physCall' = [op |-> "section", begin |-> begin, size |-> size,
              isUsing |-> isUsing, ok |-> SectionInRange(begin, size)]
  /\ UNCHANGED held

\* A look at the table alone: map uses the page it gets without marking it.
GetFrame ==
  /\ ~pm.wild
  /\ LET r == GetUsablePage(pm) IN
       /\ pm' = r.pm
       /\ physCall' = [op |-> "get", ret |-> r.ret]
  /\ UNCHANGED held

AllocFrame ==
  /\ ~pm.wild
  /\ LET r == GetUsablePage(pm) IN
       /\ pm' = SetPageUsage(r.pm, r.ret, TRUE)
       /\ held' = held \cup ({r.ret} \cap Frames)
       /\ physCall' = [op |-> "alloc", ret |-> r.ret]

FreeFrame(page) ==
  /\ ~pm.wild
  /\ page \in held
  /\ pm' = SetPageUsage(pm, page, FALSE)
  /\ held' = held \ {page}
  /\ physCall' = [op |-> "free", ret |-> page]

PhysNext ==
  \/ \E s \in Sections, isUsing \in BOOLEAN : SetSection(s[1], s[2], isUsing)
  \/ GetFrame
  \/ AllocFrame
  \/ \E page \in Frames : FreeFrame(page)

PhysSpec == PhysInit /\ [][PhysNext]_physVars
------------------------------------------------------------------------------
\* Every variable has its type, and a frame that is held is marked as used.
PhysTypeOK ==
  /\ pm \in [used : SUBSET Frames, last : Frames, upiDir : BOOLEAN, wild : BOOLEAN]
  /\ held \subseteq Frames
  /\ physCall.op \in {"none", "section", "get", "alloc", "free"}

\* getUsablePage answers -1 only when every frame is in use, whatever the
\* direction the search had and wherever it last stopped; any other answer is
\* a frame that is not in use and is where the next search starts.
GetFindsUnusedPage ==
  physCall.op = "get" =>
    IF physCall.ret = NoPage THEN pm.used = Frames
    ELSE physCall.ret \in Frames \ pm.used /\ pm.last = physCall.ret

\* A frame that is held is marked, so that no search can answer it.
HeldIsUsed == held \subseteq pm.used

\* No frame is handed out while somebody holds it, and an allocation fails
\* only when no frame is left.
AllocIsFresh ==
  [][physCall'.op = "alloc" =>
       IF physCall'.ret = NoPage THEN pm.used = Frames
       ELSE physCall'.ret \in Frames \ pm.used /\ physCall'.ret \notin held]_physVars

\* A call of setSectionPageUsage that succeeds changes exactly the frames of
\* its section (physMem.h:29-37) and stays inside the bitmap.
SectionIsExact ==
  [][physCall'.op = "section" /\ physCall'.ok =>
       /\ pm'.used = Mark(pm.used, physCall'.begin .. physCall'.begin + physCall'.size - 1,
                          physCall'.isUsing)
       /\ ~pm'.wild]_physVars
==============================================================================
