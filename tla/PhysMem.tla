------------------------------- MODULE PhysMem -------------------------------
(***************************************************************************)
(* The physical page table of the kernel: namespace PhysMem of             *)
(* kernel/src/memManager/physMem.cpp.  The bitmap physPageUsageTable is    *)
(* the set `used' of the frames whose bit is 1.  Each function is an       *)
(* operator from the state of the namespace, a record                      *)
(*     pm = [used, last, upiDir, wild]                                     *)
(* and its arguments to the new record, or to a record [pm, ret] when the  *)
(* function returns something its callers use.  `wild' is set when a       *)
(* function has written past the end of the bitmap: the kernel has         *)
(* destroyed its own memory and nothing it does later is meaningful.       *)
(***************************************************************************)
EXTENDS Integers, FiniteSetsExt

CONSTANTS
  NFrames,  \* number of page frames: 1048576
  Word      \* 2^32: the values of an unsigned int are 0 .. Word - 1

\* The bitmap is an array of whole bytes.  Two indices of the bitmap never
\* overflow an unsigned int.
ASSUME PhysMemAssumption ==
  /\ NFrames \in Nat \ {0}
  /\ Word \in Nat
  /\ NFrames % 8 = 0
  /\ 2 * NFrames < Word

Frames == 0 .. NFrames - 1
NoPage == -1

\* Sums and differences of two unsigned ints.
Wrap(x) == IF x < 0 THEN x + Word ELSE IF x >= Word THEN x - Word ELSE x

InitPhysMem == [used |-> {}, last |-> 0, upiDir |-> FALSE, wild |-> FALSE]

PhysPageIsUsing(pm, page) == page \notin Frames \/ page \in pm.used

Mark(S, T, isUsing) == IF isUsing THEN S \cup T ELSE S \ T

\* A page number out of range is refused and changes nothing.
SetPageUsage(pm, page, isUsing) ==
  [pm EXCEPT !.used = Mark(@, {page} \cap Frames, isUsing)]

(***************************************************************************)
(* setSectionPageUsage writes bits in three passes: from `begin' to the    *)
(* end of its byte, then whole bytes, then the remaining bits.  The first  *)
(* pass does not look at `size', and the subtraction that follows it wraps *)
(* when the section ends inside that first byte.                           *)
(***************************************************************************)
SectionInRange(begin, size) ==
  begin < NFrames /\ Wrap(begin + size) <= NFrames

ByteEnd(begin) == 8 * (begin \div 8) + 8

\* Mutant: the bits written by the first pass are not subtracted.
SectionEnd_NoSubtraction(begin, size) == ByteEnd(begin) + size

SectionEnd(begin, size) ==
  ByteEnd(begin) + Wrap(size - (8 - (begin % 8)))

SetSectionPageUsage(pm, begin, size, isUsing) ==
  IF ~SectionInRange(begin, size) THEN pm
  ELSE LET end == SectionEnd(begin, size)
           written == {p \in Frames : begin <= p /\ p < end}
       IN  [pm EXCEPT !.used = Mark(@, written, isUsing),
                      !.wild = @ \/ end > NFrames]

(***************************************************************************)
(* getUsablePage looks at 64 frames at a time, from the group of the last  *)
(* answer in the current direction to the end of the table, then, once,    *)
(* from the same group in the other direction.                             *)
(***************************************************************************)
Group(page) == page \div 64
Unused(pm) == Frames \ pm.used
OpenGroups(pm) == {Group(p) : p \in Unused(pm)}

Ahead(pm, down) ==
  {g \in OpenGroups(pm) : IF down THEN g <= Group(pm.last) ELSE g >= Group(pm.last)}

\* Mutant: the first frame of the group, whether it is in use or not.
FirstIn_AnyFrame(pm, g) == Min({p \in Frames : Group(p) = g})

FirstIn(pm, g) == Min({p \in Unused(pm) : Group(p) = g})

Take(pm, down) ==
  LET g == IF down THEN Max(Ahead(pm, down)) ELSE Min(Ahead(pm, down))
      page == FirstIn(pm, g)
  IN  [pm |-> [pm EXCEPT !.last = page, !.upiDir = down], ret |-> page]

\* Mutant: the search gives up at the end of the table without turning round.
GetUsablePage_OneWay(pm) ==
  IF Ahead(pm, pm.upiDir) # {} THEN Take(pm, pm.upiDir)
  ELSE [pm |-> [pm EXCEPT !.upiDir = ~@], ret |-> NoPage]

GetUsablePage(pm) ==
  IF Ahead(pm, pm.upiDir) # {} THEN Take(pm, pm.upiDir)
  ELSE IF Ahead(pm, ~pm.upiDir) # {} THEN Take(pm, ~pm.upiDir)
  ELSE [pm |-> [pm EXCEPT !.upiDir = ~@], ret |-> NoPage]
==============================================================================
