---------------------------- MODULE PhysMemProofs ----------------------------
(***************************************************************************)
(* Proofs about the physical page table, for every number of frames.       *)
(***************************************************************************)
EXTENDS PhysMemSpec, PhysMemLemmas
------------------------------------------------------------------------------
IInv == PhysTypeOK /\ HeldIsUsed

\* Marking frames keeps the type of the namespace.
LEMMA MarkType ==
  ASSUME NEW S \in SUBSET Frames, NEW T \in SUBSET Frames, NEW isUsing \in BOOLEAN
  PROVE  Mark(S, T, isUsing) \in SUBSET Frames
BY DEF Mark

LEMMA InvInit == PhysInit => IInv
<1>. USE PhysMemAssumption
<1>. QED  BY DEF PhysInit, InitPhysMem, NoPhysCall, IInv, PhysTypeOK, HeldIsUsed, Frames

LEMMA InvNext == IInv /\ [PhysNext]_physVars => IInv'
<1>. USE PhysMemAssumption
<1>. SUFFICES ASSUME IInv, [PhysNext]_physVars PROVE IInv'
  OBVIOUS
<1>0. pm \in PMType /\ held \subseteq Frames /\ held \subseteq pm.used
  BY DEF IInv, PhysTypeOK, HeldIsUsed, PMType
<1>1. ASSUME NEW s \in Sections, NEW isUsing \in BOOLEAN,
             SetSection(s[1], s[2], isUsing)
      PROVE  IInv'
  <2> DEFINE W == {p \in Frames : s[1] <= p /\ p < SectionEnd(s[1], s[2])}
  <2>1. pm' = pm \/ \E w \in BOOLEAN :
                       pm' = [pm EXCEPT !.used = Mark(@, W, isUsing), !.wild = w]
    <3>1. (pm.wild \/ SectionEnd(s[1], s[2]) > NFrames) \in BOOLEAN
      BY <1>0 DEF PMType
    <3>. QED  BY <1>1, <3>1 DEF SetSection, SetSectionPageUsage
  <2>2. Mark(pm.used, W, isUsing) \in SUBSET Frames
    BY <1>0, MarkType DEF PMType
  <2>3. pm' \in PMType
    BY <1>0, <2>1, <2>2 DEF PMType
  <2>4. held \subseteq Mark(pm.used, W, isUsing)
    <3>1. ~isUsing => held \cap W = {}
      BY <1>0, <1>1 DEF SetSection
    <3>. HIDE DEF W
    <3>. QED  BY <1>0, <3>1 DEF Mark
  <2>5. held \subseteq pm'.used
    <3>. HIDE DEF W
    <3>. QED  BY <1>0, <2>1, <2>4 DEF PMType
  <2>6. held' = held /\ physCall'.op = "section"
    BY <1>1 DEF SetSection
  <2>. QED  BY <1>0, <2>3, <2>5, <2>6 DEF IInv, PhysTypeOK, HeldIsUsed, PMType
<1>2. ASSUME GetFrame PROVE IInv'
  <2> DEFINE r == GetUsablePage(pm)
  <2>1. r.pm \in PMType /\ r.pm.used = pm.used
    BY <1>0, GetUsablePageComplete
  <2>. HIDE DEF r
  <2>2. pm' = r.pm /\ physCall'.op = "get" /\ held' = held
    BY <1>2 DEF GetFrame, r
  <2>. QED  BY <1>0, <2>1, <2>2 DEF IInv, PhysTypeOK, HeldIsUsed, PMType
<1>3. ASSUME AllocFrame PROVE IInv'
  <2> DEFINE r == GetUsablePage(pm)
             T == {r.ret} \cap Frames
  <2>1. r.pm \in PMType /\ r.pm.used = pm.used
    BY <1>0, GetUsablePageComplete
  <2>. HIDE DEF r
  <2>2. /\ pm' = [r.pm EXCEPT !.used = Mark(@, T, TRUE)]
        /\ physCall'.op = "alloc" /\ held' = held \cup T
    BY <1>3 DEF AllocFrame, SetPageUsage, r
  <2>3. Mark(pm.used, T, TRUE) = pm.used \cup T
    BY DEF Mark
  <2>4. pm' \in PMType /\ pm'.used = pm.used \cup T
    BY <1>0, <2>1, <2>2, <2>3 DEF PMType
  <2>. HIDE DEF T
  <2>. QED  BY <1>0, <2>2, <2>4 DEF IInv, PhysTypeOK, HeldIsUsed, PMType
<1>4. ASSUME NEW page \in Frames, FreeFrame(page) PROVE IInv'
  <2>1. /\ pm' = [pm EXCEPT !.used = pm.used \ {page}]
        /\ physCall'.op = "free" /\ held' = held \ {page}
    BY <1>4 DEF FreeFrame, SetPageUsage, Mark
  <2>2. pm' \in PMType /\ pm'.used = pm.used \ {page}
    BY <1>0, <2>1 DEF PMType
  <2>. QED  BY <1>0, <2>1, <2>2 DEF IInv, PhysTypeOK, HeldIsUsed, PMType
<1>5. ASSUME UNCHANGED physVars PROVE IInv'
  BY <1>5 DEF physVars, IInv, PhysTypeOK, HeldIsUsed
<1>. QED  BY <1>1, <1>2, <1>3, <1>4, <1>5 DEF PhysNext

\* The variables always have their types (kernel/src/memManager/physMem.cpp:4-6).
THEOREM TypeCorrect == PhysSpec => []PhysTypeOK
<1>1. IInv => PhysTypeOK
  BY DEF IInv
<1>. QED  BY InvInit, InvNext, <1>1, PTL DEF PhysSpec

\* A frame that is held is marked in the bitmap, whoever else calls the namespace.
THEOREM HeldFramesAreUsed == PhysSpec => []HeldIsUsed
<1>1. IInv => HeldIsUsed
  BY DEF IInv
<1>. QED  BY InvInit, InvNext, <1>1, PTL DEF PhysSpec

\* getUsablePage never misses a free frame and never answers one in use.
THEOREM SearchIsComplete == PhysSpec => []GetFindsUnusedPage
<1>1. PhysInit => GetFindsUnusedPage
  BY DEF PhysInit, NoPhysCall, GetFindsUnusedPage
<1>2. IInv /\ GetFindsUnusedPage /\ [PhysNext]_physVars => GetFindsUnusedPage'
  <2>. SUFFICES ASSUME IInv, GetFindsUnusedPage, [PhysNext]_physVars
                PROVE  GetFindsUnusedPage'
    OBVIOUS
  <2>1. ASSUME GetFrame PROVE GetFindsUnusedPage'
    <3> DEFINE r == GetUsablePage(pm)
    <3>1. pm \in PMType
      BY DEF IInv, PhysTypeOK, PMType
    <3>2. /\ r.pm.used = pm.used
          /\ \/ r.ret = NoPage /\ pm.used = Frames
             \/ r.ret \in Frames \ pm.used /\ r.pm.last = r.ret
      BY <3>1, GetUsablePageComplete
    <3>. HIDE DEF r
    <3>3. pm' = r.pm /\ physCall'.ret = r.ret
      BY <2>1 DEF GetFrame, r
    <3>4. NoPage \notin Frames
      BY PhysMemAssumption DEF NoPage, Frames
    <3>. QED  BY <3>2, <3>3, <3>4 DEF GetFindsUnusedPage
  <2>2. ASSUME NEW s \in Sections, NEW isUsing \in BOOLEAN,
               SetSection(s[1], s[2], isUsing)
        PROVE  GetFindsUnusedPage'
    BY <2>2 DEF SetSection, GetFindsUnusedPage
  <2>3. ASSUME AllocFrame PROVE GetFindsUnusedPage'
    BY <2>3 DEF AllocFrame, GetFindsUnusedPage
  <2>4. ASSUME NEW page \in Frames, FreeFrame(page) PROVE GetFindsUnusedPage'
    BY <2>4 DEF FreeFrame, GetFindsUnusedPage
  <2>5. ASSUME UNCHANGED physVars PROVE GetFindsUnusedPage'
    BY <2>5 DEF physVars, GetFindsUnusedPage
  <2>. QED  BY <2>1, <2>2, <2>3, <2>4, <2>5 DEF PhysNext
<1>. QED  BY InvInit, InvNext, <1>1, <1>2, PTL DEF PhysSpec

\* A frame is never handed out twice before it is given back, and an allocation
\* fails only when there is no frame left.
THEOREM AllocationsAreFresh == PhysSpec => AllocIsFresh
<1> DEFINE A == physCall'.op = "alloc" =>
                  IF physCall'.ret = NoPage THEN pm.used = Frames
                  ELSE physCall'.ret \in Frames \ pm.used /\ physCall'.ret \notin held
<1>1. IInv /\ [PhysNext]_physVars => [A]_physVars
  <2>. SUFFICES ASSUME IInv, PhysNext PROVE A
    OBVIOUS
  <2>1. CASE AllocFrame
    <3> DEFINE r == GetUsablePage(pm)
    <3>1. pm \in PMType /\ held \subseteq pm.used
      BY DEF IInv, PhysTypeOK, HeldIsUsed, PMType
    <3>2. \/ r.ret = NoPage /\ pm.used = Frames
          \/ r.ret \in Frames \ pm.used
      BY <3>1, GetUsablePageComplete
    <3>. HIDE DEF r
    <3>3. physCall'.ret = r.ret
      BY <2>1 DEF AllocFrame, r
    <3>4. NoPage \notin Frames
      BY PhysMemAssumption DEF NoPage, Frames
    <3>. QED  BY <3>1, <3>2, <3>3, <3>4
  <2>2. ASSUME NEW s \in Sections, NEW isUsing \in BOOLEAN,
               SetSection(s[1], s[2], isUsing)
        PROVE  A
    BY <2>2 DEF SetSection
  <2>3. CASE GetFrame
    BY <2>3 DEF GetFrame
  <2>4. ASSUME NEW page \in Frames, FreeFrame(page) PROVE A
    BY <2>4 DEF FreeFrame
  <2>. HIDE DEF A
  <2>. QED  BY <2>1, <2>2, <2>3, <2>4 DEF PhysNext
<1>. QED  BY InvInit, InvNext, <1>1, PTL DEF PhysSpec, AllocIsFresh

\* Where no section ends inside the byte it starts in, setSectionPageUsage does
\* what its comment says (physMem.h:29-37).
THEOREM SectionsAreExact ==
  ASSUME \A s \in Sections : /\ s[1] + s[2] < Word
                             /\ 8 - (s[1] % 8) <= s[2]
  PROVE  PhysSpec => SectionIsExact
<1> DEFINE A == physCall'.op = "section" /\ physCall'.ok =>
                  /\ pm'.used = Mark(pm.used, physCall'.begin .. physCall'.begin + physCall'.size - 1,
                                     physCall'.isUsing)
                  /\ ~pm'.wild
<1>1. IInv /\ [PhysNext]_physVars => [A]_physVars
  <2>. SUFFICES ASSUME IInv, PhysNext PROVE A
    OBVIOUS
  <2>1. ASSUME NEW s \in Sections, NEW isUsing \in BOOLEAN,
               SetSection(s[1], s[2], isUsing), SectionInRange(s[1], s[2])
        PROVE  A
    <3>1. pm \in PMType
      BY DEF IInv, PhysTypeOK, PMType
    <3>2. s[1] \in Nat /\ s[2] \in Nat
      BY SectionsAssumption, PhysMemAssumption
    <3>3. s[1] + s[2] <= NFrames /\ s[1] < NFrames /\ 8 - (s[1] % 8) <= s[2]
      BY <2>1, <3>2, PhysMemAssumption DEF SectionInRange, Wrap
    <3>4. pm' = [pm EXCEPT !.used = Mark(@, s[1] .. s[1] + s[2] - 1, isUsing)]
      BY <2>1, <3>1, <3>2, <3>3, SectionWrittenExactly DEF SetSection
    <3>5. ~pm.wild /\ physCall' = [op |-> "section", begin |-> s[1], size |-> s[2],
                               isUsing |-> isUsing, ok |-> SectionInRange(s[1], s[2])]
      BY <2>1 DEF SetSection
    <3>. QED  BY <3>1, <3>4, <3>5 DEF PMType
  <2>2. ASSUME NEW s \in Sections, NEW isUsing \in BOOLEAN,
               SetSection(s[1], s[2], isUsing), ~SectionInRange(s[1], s[2])
        PROVE  A
    BY <2>2 DEF SetSection
  <2>3. CASE GetFrame
    BY <2>3 DEF GetFrame
  <2>4. CASE AllocFrame
    BY <2>4 DEF AllocFrame
  <2>5. ASSUME NEW page \in Frames, FreeFrame(page) PROVE A
    BY <2>5 DEF FreeFrame
  <2>. HIDE DEF A
  <2>. QED  BY <2>1, <2>2, <2>3, <2>4, <2>5 DEF PhysNext
<1>. QED  BY InvInit, InvNext, <1>1, PTL DEF PhysSpec, SectionIsExact
==============================================================================
