---------------------------- MODULE PhysMemLemmas ----------------------------
(***************************************************************************)
(* What the functions of PhysMem do to the bitmap, for every number of     *)
(* frames and every state of the namespace.                                *)
(***************************************************************************)
EXTENDS PhysMem, SetLemmas

PMType == [used : SUBSET Frames, last : Frames, upiDir : BOOLEAN, wild : BOOLEAN]

\* A group ahead of the last answer yields a frame that is not in use.
LEMMA TakeType ==
  ASSUME NEW pm0 \in PMType, NEW down \in BOOLEAN, Ahead(pm0, down) # {}
  PROVE  /\ Take(pm0, down).ret \in Unused(pm0)
         /\ Take(pm0, down).pm =
              [pm0 EXCEPT !.last = Take(pm0, down).ret, !.upiDir = down]
<1> DEFINE A == Ahead(pm0, down)
           g == IF down THEN Max(A) ELSE Min(A)
           P == {p \in Unused(pm0) : Group(p) = g}
<1>. USE PhysMemAssumption
<1>1. A \subseteq 0 .. NFrames
  BY DEF Ahead, OpenGroups, Unused, Frames, Group
<1>2. g \in A
  <2>1. A \subseteq Nat /\ A # {}
    BY <1>1
  <2>. HIDE DEF A
  <2>2. Min(A) \in A
    BY <2>1, MinOfNaturals
  <2>3. Max(A) \in A
    BY <1>1, <2>1, MaxOfNaturals
  <2>. QED  BY <2>2, <2>3
<1>3. P # {}
  BY <1>2 DEF Ahead, OpenGroups
<1>4. P \subseteq Nat
  BY DEF Unused, Frames
<1>5. Min(P) \in P
  <2>. HIDE DEF P
  <2>. QED  BY <1>3, <1>4, MinOfNaturals
<1>. QED  BY <1>5 DEF Take, FirstIn

\* getUsablePage changes neither the bitmap nor the flag; it answers -1 exactly
\* when every frame is in use, and otherwise a frame that is not.
THEOREM GetUsablePageComplete ==
  ASSUME NEW pm0 \in PMType
  PROVE  LET r == GetUsablePage(pm0) IN
         /\ r.pm \in PMType
         /\ r.pm.used = pm0.used /\ r.pm.wild = pm0.wild
         /\ \/ r.ret = NoPage /\ pm0.used = Frames
            \/ r.ret \in Frames \ pm0.used /\ r.pm.last = r.ret
<1>. USE PhysMemAssumption
<1>1. CASE Ahead(pm0, pm0.upiDir) # {}
  <2>1. pm0.upiDir \in BOOLEAN
    BY DEF PMType
  <2>2. Take(pm0, pm0.upiDir).ret \in Unused(pm0)
    BY <1>1, <2>1, TakeType
  <2>3. Take(pm0, pm0.upiDir).pm =
          [pm0 EXCEPT !.last = Take(pm0, pm0.upiDir).ret, !.upiDir = pm0.upiDir]
    BY <1>1, <2>1, TakeType
  <2>. QED  BY <1>1, <2>1, <2>2, <2>3 DEF GetUsablePage, PMType, Unused
<1>2. CASE Ahead(pm0, pm0.upiDir) = {} /\ Ahead(pm0, ~pm0.upiDir) # {}
  <2>1. (~pm0.upiDir) \in BOOLEAN
    BY DEF PMType
  <2>2. Take(pm0, ~pm0.upiDir).ret \in Unused(pm0)
    BY <1>2, <2>1, TakeType
  <2>3. Take(pm0, ~pm0.upiDir).pm =
          [pm0 EXCEPT !.last = Take(pm0, ~pm0.upiDir).ret, !.upiDir = ~pm0.upiDir]
    BY <1>2, <2>1, TakeType
  <2>. QED  BY <1>2, <2>1, <2>2, <2>3 DEF GetUsablePage, PMType, Unused
<1>3. CASE Ahead(pm0, pm0.upiDir) = {} /\ Ahead(pm0, ~pm0.upiDir) = {}
  <2>1. pm0.used = Frames
    <3>1. ASSUME NEW p \in Frames, p \notin pm0.used
          PROVE  FALSE
      <4>1. Group(p) \in OpenGroups(pm0)
        BY <3>1 DEF OpenGroups, Unused
      <4>2. Group(p) \in Int /\ Group(pm0.last) \in Int
        BY DEF Group, Frames, PMType
      <4>3. Group(p) \in Ahead(pm0, TRUE) \/ Group(p) \in Ahead(pm0, FALSE)
        BY <4>1, <4>2 DEF Ahead
      <4>4. pm0.upiDir \in BOOLEAN
        BY DEF PMType
      <4>. QED  BY <1>3, <4>3, <4>4
    <3>. QED  BY <3>1 DEF PMType
  <2>. QED  BY <1>3, <2>1 DEF GetUsablePage, PMType
<1>. QED  BY <1>1, <1>2, <1>3

\* A section whose last frame lies in a later byte, or at the end of the byte
\* of its first frame, is written exactly and inside the bitmap.
THEOREM SectionWrittenExactly ==
  ASSUME NEW pm0 \in PMType, NEW begin \in Nat, NEW size \in Nat,
         NEW isUsing \in BOOLEAN,
         begin + size <= NFrames, begin < NFrames, 8 - (begin % 8) <= size
  PROVE  SetSectionPageUsage(pm0, begin, size, isUsing) =
           [pm0 EXCEPT !.used = Mark(@, begin .. begin + size - 1, isUsing)]
<1>. USE PhysMemAssumption
<1>1. SectionInRange(begin, size)
  BY DEF SectionInRange, Wrap
<1>2. SectionEnd(begin, size) = begin + size
  BY DEF SectionEnd, ByteEnd, Wrap
<1>3. {p \in Frames : begin <= p /\ p < begin + size} = begin .. begin + size - 1
  BY DEF Frames
<1>4. (pm0.wild \/ begin + size > NFrames) = pm0.wild
  BY DEF PMType
<1>. QED  BY <1>1, <1>2, <1>3, <1>4 DEF SetSectionPageUsage, PMType
==============================================================================
