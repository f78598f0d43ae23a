---------------------------- MODULE LibraryProofs ----------------------------
(***************************************************************************)
(* What the parts of the library, the interrupts and the loader do in      *)
(* every state, for any number of pointers and arrays, any screen and any  *)
(* disk: none of the five properties is inductive, and each section states *)
(* first what is true besides.                                             *)
(***************************************************************************)
EXTENDS SharedPtr, ByteArray, Tty, Interrupts, Loader, SetLemmas, SequenceTheorems, TLAPS
------------------------------------------------------------------------------
(***************************************************************************)
(* SharedPtr.  The counts do not say which deletions a call has begun: they *)
(* form a chain, and each pointer in it but the first is the member of the *)
(* object that the one before it deletes.                                  *)
(***************************************************************************)
InCall == call.op \in {"destroy", "unRef", "assign"}

\* Every call has its pointer, and only a call deletes.
CallIsSound ==
  /\ call.op = "none" => call = NoCall /\ dying = <<>>
  /\ InCall => call.self \in live \cap Handles
  /\ call.op = "destroy" => call.self \in Variables
  /\ call.op = "assign" => call.from \in Handles \ {call.self}

Chain ==
  /\ dying # <<>> => dying[1] = call.self
  /\ \A i \in DOMAIN dying :
       /\ i # 1 => dying[i] = ptr[dying[i - 1]] /\ dying[i] \notin live
       /\ ptr[dying[i]] \in alive
       /\ count[ptr[dying[i]]] = 0
       /\ \A j \in DOMAIN dying : i # j => dying[i] # dying[j] /\ ptr[dying[i]] # ptr[dying[j]]

\* unRef leaves its pointer null, or its object torn.
UnRefIsSound ==
  call.op = "unRef" =>
    dying # <<>> \/ ptr[call.self] \in torn \cup {Null}

\* Once the argument of an assignment is gone, no further pointer will go, and what it
\* points to has still a holder.
SourceIsGone ==
  /\ call.from \notin live
  /\ dying # <<>> => ptr[Innermost] \notin live
  /\ \/ ptr[call.from] = Null /\ call.to \notin alive
     \/ /\ ptr[call.from] = call.to
        /\ call.to = Null \/ call.to \in torn \/ count[call.to] # 0

SourceIsSound ==
  call.op = "assign" =>
    \/ ptr[call.from] = call.to /\ (call.from \in live \/ Within(call.from))
    \/ SourceIsGone

PtrInv ==
  /\ PtrTypeOK
  /\ CountsAreRight
  /\ call.op # "stopped" =>
       /\ live \cap Objects \subseteq alive
       /\ CallIsSound
       /\ Chain
       /\ UnRefIsSound
       /\ SourceIsSound
------------------------------------------------------------------------------
\* The pointers to an object are finitely many; one more or one less changes their
\* number by one.
LEMMA HoldersAreFinite ==
  ASSUME PtrTypeOK, NEW o
  PROVE  /\ IsFiniteSet(Holders(o))
         /\ Cardinality(Holders(o)) \in Nat
         /\ Cardinality(Holders(o)) = 0 <=> Holders(o) = {}
         /\ \A h : Cardinality(Holders(o) \cup {h}) =
                    IF h \in Holders(o) THEN Cardinality(Holders(o))
                    ELSE Cardinality(Holders(o)) + 1
         /\ \A h : Cardinality(Holders(o) \ {h}) =
                    IF h \in Holders(o) THEN Cardinality(Holders(o)) - 1
                    ELSE Cardinality(Holders(o))
<1>1. IsFiniteSet(Handles)
  BY SharedPtrAssumption, FS_Union DEF Handles
<1>2. Holders(o) \subseteq Handles
  BY DEF Holders, PtrTypeOK
<1>3. IsFiniteSet(Holders(o))
  BY <1>1, <1>2, FS_Subset
<1>. QED  BY <1>3, FS_CardinalityType, FS_EmptySet, FS_AddElement, FS_RemoveElement

LEMMA InitHolds == PtrInit => PtrInv
<1>. SUFFICES ASSUME PtrInit  PROVE PtrInv
  OBVIOUS
<1>. USE DEF PtrInit, NoCall
<1>1. PtrTypeOK
  BY DEF PtrTypeOK, Ops
<1>2. CountsAreRight
  <2>1. \A o : Holders(o) = {} /\ Cardinality(Holders(o)) = 0
    BY FS_EmptySet DEF Holders
  <2>2. DOMAIN dying = {}
    OBVIOUS
  <2>. QED  BY <2>1, <2>2 DEF CountsAreRight
<1>. QED  BY <1>1, <1>2 DEF PtrInv, CallIsSound, InCall, Chain, UnRefIsSound, SourceIsSound

LEMMA MakeKeeps ==
  ASSUME PtrInv, NEW v \in Variables, NEW o \in Objects, Make(v, o)
  PROVE  PtrInv'
<1>. USE SharedPtrAssumption DEF Make, Handles
<1>0. /\ PtrTypeOK /\ CountsAreRight /\ live \cap Objects \subseteq alive
      /\ call = NoCall /\ dying = <<>> /\ call' = NoCall /\ dying' = <<>>
  BY DEF PtrInv, CallIsSound, InCall
<1>1. PtrTypeOK'
  BY <1>0 DEF PtrTypeOK, Counted1
<1>2. ASSUME NEW x \in Objects \ torn
      PROVE  /\ count'[x] = Cardinality(Holders(x)')
             /\ x \in alive' <=> Holders(x)' # {}
  <2>0. count[x] = Cardinality(Holders(x)) /\ (x \in alive <=> Holders(x) # {})
    BY <1>0, <1>2 DEF CountsAreRight, NoCall
  <2>1. CASE x = o
    <3>1. Holders(x) = {}
      BY <2>0, <2>1
    <3>2. Holders(x)' = Holders(x) \cup {v}
      BY <1>0, <2>1, <3>1 DEF Holders, PtrTypeOK, NoCall
    <3>3. Cardinality(Holders(x)') = Cardinality(Holders(x)) + 1
      BY <1>0, <3>1, <3>2, HoldersAreFinite
    <3>4. count'[x] = count[x] + 1 /\ x \in alive' /\ v \in Holders(x)'
      BY <1>0, <2>1, <3>2 DEF PtrTypeOK, Counted1
    <3>. QED  BY <2>0, <3>3, <3>4
  <2>2. CASE x # o
    <3>1. Holders(x)' = Holders(x)
      BY <1>0, <2>2 DEF Holders, PtrTypeOK, NoCall
    <3>. QED  BY <1>0, <2>0, <2>2, <3>1 DEF PtrTypeOK, Counted1
  <2>. QED  BY <2>1, <2>2
<1>3. CountsAreRight'
  BY <1>0, <1>2 DEF CountsAreRight
<1>4. (live \cap Objects \subseteq alive)'
  BY <1>0
<1>. QED  BY <1>0, <1>1, <1>3, <1>4
          DEF PtrInv, CallIsSound, InCall, Chain, UnRefIsSound, SourceIsSound, NoCall

LEMMA AdoptKeeps ==
  ASSUME PtrInv, NEW v \in Variables, NEW o \in Objects \cup {Null}, Adopt(v, o)
  PROVE  PtrInv'
<1>. USE SharedPtrAssumption DEF Adopt, Handles
<1>0. /\ PtrTypeOK /\ CountsAreRight /\ live \cap Objects \subseteq alive
      /\ call = NoCall /\ dying = <<>> /\ call' = NoCall /\ dying' = <<>>
  BY DEF PtrInv, CallIsSound, InCall
<1>1. PtrTypeOK'
  BY <1>0 DEF PtrTypeOK, Counted1
<1>2. ASSUME NEW x \in Objects \ torn
      PROVE  /\ count'[x] = Cardinality(Holders(x)')
             /\ x \in alive' <=> Holders(x)' # {}
  <2>0. count[x] = Cardinality(Holders(x)) /\ (x \in alive <=> Holders(x) # {})
    BY <1>0, <1>2 DEF CountsAreRight, NoCall
  <2>1. CASE x = o
    <3>1. x \in alive
      BY <1>0, <2>0, <2>1 DEF Holders, NoCall, Named, PtrTypeOK
    <3>2. v \notin Holders(x) /\ Holders(x)' = Holders(x) \cup {v}
      BY <1>0, <2>1 DEF Holders, PtrTypeOK, NoCall
    <3>. QED  BY <1>0, <2>0, <2>1, <3>1, <3>2, HoldersAreFinite DEF PtrTypeOK, Counted1
  <2>2. CASE x # o
    <3>1. Holders(x)' = Holders(x)
      BY <1>0, <2>2 DEF Holders, PtrTypeOK, NoCall
    <3>. QED  BY <1>0, <2>0, <2>2, <3>1 DEF PtrTypeOK, Counted1
  <2>. QED  BY <2>1, <2>2
<1>3. CountsAreRight'
  BY <1>0, <1>2 DEF CountsAreRight
<1>. QED  BY <1>0, <1>1, <1>3
          DEF PtrInv, CallIsSound, InCall, Chain, UnRefIsSound, SourceIsSound, NoCall
------------------------------------------------------------------------------
\* What unRef does up to the deletion: one pointer less to the object, and one
\* deletion more when it was the last.
LEMMA UnRefKeeps ==
  ASSUME PtrInv, PtrTypeOK', call.op # "stopped",
         NEW h \in live, h # call.self, UnRef(h), ~Undefined(h),
         ptr' = ptr, alive' = alive, torn \subseteq torn', live' \subseteq live,
         \A o : Holders(o)' = Holders(o) \ {h},
         dying = <<>> => h = call'.self,
         dying # <<>> => h = ptr[Innermost] /\ h \notin live' /\ call'.self = call.self
  PROVE  CountsAreRight' /\ Chain'
<1>. USE SharedPtrAssumption DEF Handles
<1>0. /\ PtrTypeOK /\ CountsAreRight /\ Chain
      /\ h \in Handles /\ ptr[h] \in Objects \cup {Null}
  BY DEF PtrInv, PtrTypeOK
<1>1. dying' = IF IsLast(h) THEN Append(dying, h) ELSE dying
  BY DEF UnRef
<1>2. \A x \in Objects : count'[x] = IF x = ptr[h] /\ count[x] # 0 THEN count[x] - 1 ELSE count[x]
  BY <1>0 DEF UnRef, PtrTypeOK
<1>3. /\ Len(dying) \in Nat /\ DOMAIN dying = 1..Len(dying)
      /\ \A i \in DOMAIN dying : dying[i] \in Handles
  BY <1>0 DEF PtrTypeOK
<1>4. IsLast(h) => /\ DOMAIN dying' = 1..(Len(dying) + 1)
                   /\ dying'[Len(dying) + 1] = h
                   /\ \A i \in DOMAIN dying : dying'[i] = dying[i]
  BY <1>0, <1>1, <1>3 DEF PtrTypeOK
<1>5. CountsAreRight'
  <2>. SUFFICES ASSUME NEW x \in Objects \ torn'
                PROVE  /\ count'[x] = Cardinality(Holders(x)')
                       /\ x \in alive <=> \/ Holders(x)' # {}
                                          \/ \E i \in DOMAIN dying' : ptr[dying'[i]] = x
    BY DEF CountsAreRight
  <2>1. /\ count[x] = Cardinality(Holders(x))
        /\ x \in alive <=> Holders(x) # {} \/ \E i \in DOMAIN dying : ptr[dying[i]] = x
    BY <1>0 DEF CountsAreRight
  <2>2. CASE x # ptr[h]
    <3>1. Holders(x)' = Holders(x)
      BY <2>2 DEF Holders
    <3>2. (\E i \in DOMAIN dying' : ptr[dying'[i]] = x) <=> \E i \in DOMAIN dying : ptr[dying[i]] = x
      BY <1>1, <1>3, <1>4, <2>2
    <3>. QED  BY <1>2, <2>1, <2>2, <3>1, <3>2
  <2>3. CASE x = ptr[h]
    <3>1. h \in Holders(x)
      BY <2>3 DEF Holders
    <3>2. /\ count[x] \in Nat \ {0}
          /\ count'[x] = count[x] - 1
          /\ Cardinality(Holders(x)') = count[x] - 1
          /\ Cardinality(Holders(x)') = 0 <=> Holders(x)' = {}
      <4>1. Cardinality(Holders(x)) # 0 /\ Cardinality(Holders(x) \ {h}) = Cardinality(Holders(x)) - 1
        BY <1>0, <3>1, HoldersAreFinite
      <4>2. Cardinality(Holders(x)') = 0 <=> Holders(x)' = {}
        <5>1. IsFiniteSet(Holders(x) \ {h})
          BY <1>0, HoldersAreFinite, FS_RemoveElement
        <5>. QED  BY <5>1, FS_EmptySet
      <4>. QED  BY <1>0, <1>2, <2>1, <2>3, <4>1, <4>2 DEF PtrTypeOK
    <3>3. CASE count[x] = 1
      <4>1. IsLast(h) /\ x \in alive
        BY <2>3, <3>3 DEF IsLast, Undefined
      <4>. QED  BY <1>3, <1>4, <2>3, <3>2, <3>3, <4>1
    <3>4. CASE count[x] # 1
      BY <2>1, <3>1, <3>2, <3>4
    <3>. QED  BY <3>3, <3>4
  <2>. QED  BY <2>2, <2>3
<1>6. \A i \in DOMAIN dying : count'[ptr[dying[i]]] = 0 /\ ptr[dying[i]] \in Objects
  BY <1>0, <1>2 DEF Chain, PtrTypeOK
<1>7. \A i \in DOMAIN dying : dying[i] # h
  BY DEF Undefined, Within
<1>8. CASE IsLast(h)
  <2>1. /\ count[ptr[h]] = 1 /\ ptr[h] \in Objects /\ ptr[h] \in alive
        /\ count'[ptr[h]] = 0
    BY <1>0, <1>2, <1>8 DEF IsLast, Undefined
  <2>2. \A i \in DOMAIN dying : ptr[dying[i]] # ptr[h]
    BY <1>0, <2>1 DEF Chain
  <2>3. dying # <<>> => Len(dying) \in DOMAIN dying /\ dying[Len(dying)] = Innermost
    BY <1>0, <1>3 DEF PtrTypeOK, Innermost
  <2>4. dying'[1] = call'.self
    <3>1. CASE dying = <<>>
      BY <1>4, <1>8, <3>1
    <3>2. CASE dying # <<>>
      BY <1>0, <1>3, <1>4, <1>8, <2>3, <3>2 DEF Chain
    <3>. QED  BY <3>1, <3>2
  <2>5. ASSUME NEW i \in DOMAIN dying', i # 1
        PROVE  dying'[i] = ptr[dying'[i - 1]] /\ dying'[i] \notin live'
    <3>1. CASE i \in DOMAIN dying
      <4>1. i - 1 \in DOMAIN dying
        BY <1>3, <2>5, <3>1
      <4>. QED  BY <1>0, <1>4, <1>8, <2>5, <3>1, <4>1 DEF Chain
    <3>2. CASE i \notin DOMAIN dying
      <4>1. i = Len(dying) + 1 /\ dying # <<>>
        BY <1>3, <1>4, <1>8, <2>5, <3>2
      <4>. QED  BY <1>3, <1>4, <1>8, <2>3, <4>1
    <3>. QED  BY <3>1, <3>2
  <2>6. ASSUME NEW i \in DOMAIN dying'
        PROVE  ptr[dying'[i]] \in alive /\ count'[ptr[dying'[i]]] = 0
    BY <1>0, <1>3, <1>4, <1>6, <1>8, <2>1 DEF Chain
  <2>7. ASSUME NEW i \in DOMAIN dying', NEW j \in DOMAIN dying', i # j
        PROVE  dying'[i] # dying'[j] /\ ptr[dying'[i]] # ptr[dying'[j]]
    BY <1>0, <1>3, <1>4, <1>7, <1>8, <2>2, <2>7 DEF Chain
  <2>. SUFFICES ASSUME NEW i \in DOMAIN dying'
                PROVE  /\ i # 1 => dying'[i] = ptr'[dying'[i - 1]] /\ dying'[i] \notin live'
                       /\ ptr'[dying'[i]] \in alive'
                       /\ count'[ptr'[dying'[i]]] = 0
                       /\ \A j \in DOMAIN dying' :
                            i # j => dying'[i] # dying'[j] /\ ptr'[dying'[i]] # ptr'[dying'[j]]
    BY <1>5, <2>4 DEF Chain
  <2>. QED  BY <2>5, <2>6, <2>7
<1>9. CASE ~IsLast(h)
  <2>1. dying' = dying
    BY <1>1, <1>9
  <2>. QED  BY <1>0, <1>5, <1>6, <2>1 DEF Chain
<1>. QED  BY <1>5, <1>8, <1>9

LEMMA BeginKeeps ==
  ASSUME PtrInv,
         NEW h \in live, NEW op \in {"destroy", "unRef", "assign"},
         op = "destroy" => h \in Variables,
         NEW from \in Handles \cup {Null}, NEW to \in Objects \cup {Null},
         op = "assign" => from \in live \ {h} /\ to = ptr[from],
         Begin(op, h, from, to),
         torn' = IF op = "unRef" /\ ptr[h] # Null /\ count[ptr[h]] # 1
                 THEN torn \cup {ptr[h]} ELSE torn
  PROVE  PtrInv'
<1>. USE SharedPtrAssumption DEF Handles
<1>0. /\ PtrTypeOK /\ CountsAreRight /\ live \cap Objects \subseteq alive
      /\ call.op = "none" /\ call = NoCall /\ dying = <<>>
      /\ ptr' = ptr /\ live' = live /\ alive' = alive
      /\ h \in Handles /\ h # call.self
      /\ call' = IF Undefined(h) THEN Stopped ELSE [op |-> op, self |-> h, from |-> from, to |-> to]
  BY DEF PtrInv, PtrTypeOK, CallIsSound, InCall, Begin, NoCall
<1>1. PtrTypeOK'
  <2>1. count' \in [Objects -> Nat]
    BY <1>0 DEF PtrTypeOK, Begin, UnRef
  <2>4. dying' \in Seq(Handles)
    <3>1. Append(dying, h) \in Seq(Handles) /\ dying \in Seq(Handles)
      BY <1>0 DEF PtrTypeOK
    <3>. QED  BY <3>1 DEF Begin, UnRef
  <2>2. call' \in [op : Ops, self : Handles \cup {Null}, from : Handles \cup {Null},
                   to : Objects \cup {Null}]
    BY <1>0 DEF Stopped, NoCall, Ops
  <2>3. torn' \subseteq Objects
    BY <1>0 DEF PtrTypeOK
  <2>. QED  BY <1>0, <2>1, <2>2, <2>3, <2>4 DEF PtrTypeOK
<1>2. CASE Undefined(h)
  BY <1>0, <1>1, <1>2 DEF PtrInv, CountsAreRight, Stopped, NoCall
<1>3. CASE ~Undefined(h)
  <2>0. call' = [op |-> op, self |-> h, from |-> from, to |-> to]
    BY <1>0, <1>3
  <2>1. \A o : Holders(o)' = Holders(o) \ {h}
    BY <1>0, <2>0 DEF Holders, NoCall, PtrTypeOK
  <2>2. CountsAreRight' /\ Chain'
    BY <1>0, <1>1, <1>3, <2>0, <2>1, UnRefKeeps DEF Begin
  <2>3. CallIsSound'
    BY <1>0, <2>0 DEF CallIsSound, PtrTypeOK, InCall
  <2>4. UnRefIsSound'
    <3>1. IsLast(h) => dying' # <<>>
      BY <1>0 DEF Begin, UnRef
    <3>. QED  BY <1>0, <2>0, <3>1 DEF UnRefIsSound, IsLast
  <2>5. SourceIsSound'
    BY <1>0, <2>0 DEF SourceIsSound
  <2>. QED  BY <1>0, <1>1, <2>2, <2>3, <2>4, <2>5 DEF PtrInv
<1>. QED  BY <1>2, <1>3

LEMMA DescendKeeps ==
  ASSUME PtrInv, call.op # "stopped", Descend
  PROVE  PtrInv'
<1>. USE SharedPtrAssumption DEF Handles
<1>. PICK m \in live : m = ptr[Innermost]
  BY DEF Descend
<1>0. /\ PtrTypeOK /\ CountsAreRight /\ live \cap Objects \subseteq alive
      /\ CallIsSound /\ Chain /\ UnRefIsSound /\ SourceIsSound
      /\ dying # <<>> /\ m \in Handles /\ live' = live \ {m} /\ UnRef(m)
      /\ call' = IF Undefined(m) THEN Stopped ELSE call
      /\ ptr' = ptr /\ alive' = alive /\ torn' = torn
  BY DEF PtrInv, PtrTypeOK, Descend
<1>1. PtrTypeOK'
  BY <1>0 DEF PtrTypeOK, UnRef, Stopped, NoCall, Ops
<1>2. CASE Undefined(m)
  BY <1>0, <1>1, <1>2 DEF PtrInv, CountsAreRight, Stopped, NoCall
<1>3. CASE ~Undefined(m)
  <2>0. call' = call
    BY <1>0, <1>3
  <2>1. m # call.self
    <3>1. 1 \in DOMAIN dying
      BY <1>0 DEF PtrTypeOK
    <3>. QED  BY <1>0, <1>3, <3>1 DEF Undefined, Within, Chain
  <2>2. \A o : Holders(o)' = Holders(o) \ {m}
    BY <1>0, <2>0 DEF Holders
  <2>3. CountsAreRight' /\ Chain'
    BY <1>0, <1>1, <1>3, <2>0, <2>1, <2>2, UnRefKeeps
  <2>4. dying' # <<>> /\ \A g : Within(g) => \E i \in DOMAIN dying' : dying'[i] = g
    <3>1. /\ Append(dying, m) # <<>> /\ Append(dying, m) \in Seq(Handles)
          /\ DOMAIN dying \subseteq DOMAIN Append(dying, m)
          /\ \A i \in DOMAIN dying : Append(dying, m)[i] = dying[i]
      BY <1>0 DEF PtrTypeOK
    <3>. QED  BY <1>0, <3>1 DEF UnRef, Within
  <2>5. CallIsSound' /\ UnRefIsSound'
    BY <1>0, <2>0, <2>1, <2>4 DEF CallIsSound, InCall, UnRefIsSound, NoCall
  <2>6. ASSUME call.op = "assign"
        PROVE  \/ ptr[call.from] = call.to /\ (call.from \in live' \/ \E i \in DOMAIN dying' : dying'[i] = call.from)
               \/ SourceIsGone'
    <3>1. ptr[call.from] = call.to /\ (call.from \in live \/ Within(call.from))
      BY <1>0, <2>6 DEF SourceIsSound, SourceIsGone
    <3>2. CASE call.from # m
      BY <1>0, <2>4, <3>1, <3>2
    <3>3. CASE call.from = m /\ IsLast(m)
      <4>1. \E i \in DOMAIN dying' : dying'[i] = m
        <5>1. Len(dying) + 1 \in DOMAIN Append(dying, m) /\ Append(dying, m)[Len(dying) + 1] = m
          BY <1>0 DEF PtrTypeOK
        <5>. QED  BY <1>0, <3>3, <5>1 DEF UnRef, Within
      <4>. QED  BY <3>1, <3>3, <4>1
    <3>4. CASE call.from = m /\ ~IsLast(m)
      <4>1. dying' = dying /\ Innermost' = Innermost
        BY <1>0, <3>4 DEF UnRef, Innermost
      <4>2. ASSUME call.to # Null, call.to \notin torn
            PROVE  count'[call.to] # 0
        <5>1. call.to \in Objects
          BY <1>0, <4>2 DEF PtrTypeOK
        <5>2. m \in Holders(call.to)
          BY <1>0, <2>1, <3>1, <3>4 DEF Holders
        <5>3. count[call.to] # 0 /\ count[call.to] \in Nat
          BY <1>0, <4>2, <5>1, <5>2, HoldersAreFinite DEF CountsAreRight, PtrTypeOK
        <5>4. count[call.to] # 1
          BY <3>1, <3>4, <4>2 DEF IsLast
        <5>5. count' = [count EXCEPT ![call.to] = @ - 1]
          BY <1>0, <3>1, <3>4, <4>2, <5>3 DEF UnRef
        <5>. QED  BY <1>0, <5>1, <5>3, <5>4, <5>5 DEF PtrTypeOK
      <4>. QED  BY <1>0, <2>0, <3>1, <3>4, <4>1, <4>2 DEF SourceIsGone
    <3>. QED  BY <3>2, <3>3, <3>4
  <2>7. SourceIsSound'
    BY <1>0, <2>0, <2>6 DEF SourceIsSound, Within
  <2>. QED  BY <1>0, <1>1, <2>3, <2>5, <2>7 DEF PtrInv
<1>. QED  BY <1>2, <1>3

\* The object that is given back had its last pointer already.
LEMMA FreeKeeps ==
  ASSUME PtrInv, call.op # "stopped", Free
  PROVE  PtrInv'
<1>. USE SharedPtrAssumption DEF Handles
<1>. DEFINE n == Len(dying)
<1>. PICK d \in Handles : d = Innermost
  BY DEF PtrInv, PtrTypeOK, Free, Innermost
<1>. PICK a \in Objects : a = ptr[d]
  BY DEF PtrInv, PtrTypeOK, Free, Innermost, Chain
<1>0. /\ PtrTypeOK /\ CountsAreRight /\ live \cap Objects \subseteq alive
      /\ CallIsSound /\ Chain /\ UnRefIsSound /\ SourceIsSound
      /\ a \notin live /\ alive' = alive \ {a} /\ ptr' = [ptr EXCEPT ![d] = Null]
      /\ live' = live /\ count' = count /\ call' = call /\ torn' = torn
  BY DEF PtrInv, Free
<1>1. /\ n \in Nat \ {0} /\ DOMAIN dying = 1..n /\ dying[n] = d
      /\ dying' = SubSeq(dying, 1, n - 1) /\ dying' \in Seq(Handles)
      /\ DOMAIN dying' = 1..(n - 1)
      /\ \A i \in DOMAIN dying' : dying'[i] = dying[i]
  BY DEF PtrInv, PtrTypeOK, Free, Innermost
<1>15. DOMAIN dying = DOMAIN dying' \cup {n}
  BY <1>1
<1>2. PtrTypeOK'
  BY <1>0, <1>1 DEF PtrTypeOK
<1>3. \A h \in Handles \ {d} : ptr'[h] = ptr[h]
  BY <1>0 DEF PtrTypeOK
<1>4. ptr'[d] = Null
  BY <1>0 DEF PtrTypeOK
<1>5. d = call.self \/ d \notin live
  BY <1>0, <1>1 DEF Chain
<1>6. \A i \in DOMAIN dying' : dying[i] # d /\ ptr'[dying[i]] = ptr[dying[i]] /\ ptr[dying[i]] # a
  <2>. SUFFICES ASSUME NEW i \in 1..(n - 1)
                PROVE  dying[i] # d /\ dying[i] \in Handles /\ ptr[dying[i]] # a
    BY <1>1, <1>3
  <2>. QED  BY <1>0, <1>1 DEF Chain, PtrTypeOK
<1>7. CountsAreRight'
  <2>. SUFFICES ASSUME NEW x \in Objects \ torn
                PROVE  /\ count[x] = Cardinality(Holders(x)')
                       /\ x \in alive' <=> \/ Holders(x)' # {}
                                           \/ \E i \in DOMAIN dying' : ptr'[dying'[i]] = x
    BY <1>0 DEF CountsAreRight
  <2>1. Holders(x)' = Holders(x)
    BY <1>0, <1>3, <1>5 DEF Holders, PtrTypeOK
  <2>2. /\ count[x] = Cardinality(Holders(x))
        /\ x \in alive <=> Holders(x) # {} \/ \E i \in DOMAIN dying : ptr[dying[i]] = x
    BY <1>0 DEF CountsAreRight
  <2>3. CASE x = a
    <3>1. Holders(x) = {}
      BY <1>0, <1>1, <2>2, <2>3, HoldersAreFinite DEF Chain
    <3>. QED  BY <1>0, <1>1, <1>6, <2>1, <2>2, <2>3, <3>1
  <2>4. CASE x # a
    <3>1. (\E i \in DOMAIN dying : ptr[dying[i]] = x) <=> \E i \in DOMAIN dying' : ptr'[dying'[i]] = x
      <4>1. \A i \in DOMAIN dying' : ptr'[dying'[i]] = ptr[dying[i]] /\ i \in DOMAIN dying
        BY <1>1, <1>6
      <4>2. \A i \in DOMAIN dying : ptr[dying[i]] = x => i \in DOMAIN dying'
        BY <1>1, <1>15, <2>4
      <4>. QED  BY <4>1, <4>2, Zenon
    <3>. QED  BY <1>0, <2>1, <2>2, <2>4, <3>1
  <2>. QED  BY <2>3, <2>4
<1>8. Chain'
  <2>1. dying' # <<>> => dying'[1] = call'.self
    BY <1>0, <1>1 DEF Chain
  <2>. SUFFICES ASSUME NEW i \in DOMAIN dying'
                PROVE  /\ i # 1 => dying'[i] = ptr'[dying'[i - 1]] /\ dying'[i] \notin live'
                       /\ ptr'[dying'[i]] \in alive'
                       /\ count'[ptr'[dying'[i]]] = 0
                       /\ \A j \in DOMAIN dying' :
                            i # j => dying'[i] # dying'[j] /\ ptr'[dying'[i]] # ptr'[dying'[j]]
    BY <1>0, <2>1 DEF Chain
  <2>2. i \in DOMAIN dying /\ (i # 1 => i - 1 \in DOMAIN dying')
    BY <1>1
  <2>3. i # 1 => dying'[i] = ptr'[dying'[i - 1]] /\ dying'[i] \notin live'
    BY <1>0, <1>1, <1>6, <2>2 DEF Chain
  <2>4. ptr'[dying'[i]] \in alive' /\ count'[ptr'[dying'[i]]] = 0
    BY <1>0, <1>1, <1>6, <2>2 DEF Chain
  <2>5. ASSUME NEW j \in DOMAIN dying', i # j
        PROVE  dying'[i] # dying'[j] /\ ptr'[dying'[i]] # ptr'[dying'[j]]
    BY <1>0, <1>1, <1>6, <2>5 DEF Chain
  <2>. QED  BY <2>3, <2>4, <2>5
<1>9. dying' # <<>> => dying'[n - 1] = Innermost' /\ d = ptr'[Innermost'] /\ d \notin live
  <2>1. dying' # <<>> => n - 1 \in DOMAIN dying' /\ Len(dying') = n - 1 /\ n # 1
    BY <1>1
  <2>. QED  BY <1>0, <1>1, <1>6, <2>1 DEF Innermost, Chain
<1>10. UnRefIsSound'
  <2>1. dying' = <<>> => d = call.self
    BY <1>0, <1>1 DEF Chain
  <2>. QED  BY <1>0, <1>4, <2>1 DEF UnRefIsSound
<1>11. ASSUME call.op = "assign"
       PROVE  \/ /\ ptr'[call.from] = call.to
                 /\ call.from \in live \/ \E i \in DOMAIN dying' : dying'[i] = call.from
              \/ SourceIsGone'
  <2>1. call.from \in Handles /\ call.from # call.self
    BY <1>0, <1>11 DEF CallIsSound
  <2>2. CASE call.from = d
    <3>1. d \notin live /\ ptr'[call.from] = Null
      BY <1>4, <1>5, <2>1, <2>2
    <3>2. call.to \notin alive'
      BY <1>0, <1>1, <1>11, <2>2, <3>1 DEF SourceIsSound, SourceIsGone, Within, PtrTypeOK, Chain
    <3>. QED  BY <1>0, <1>9, <2>2, <3>1, <3>2 DEF SourceIsGone
  <2>3. CASE call.from # d
    <3>1. ptr'[call.from] = ptr[call.from]
      BY <1>3, <2>1, <2>3
    <3>2. CASE ptr[call.from] = call.to /\ call.from \in live
      BY <3>1, <3>2
    <3>3. CASE ptr[call.from] = call.to /\ Within(call.from)
      <4>1. PICK i \in DOMAIN dying : dying[i] = call.from
        BY <3>3 DEF Within
      <4>2. i \in DOMAIN dying' /\ dying'[i] = call.from
        BY <1>1, <1>15, <2>3, <4>1
      <4>. QED  BY <3>1, <3>3, <4>2
    <3>4. CASE SourceIsGone
      BY <1>0, <1>9, <3>1, <3>4 DEF SourceIsGone
    <3>. QED  BY <1>0, <1>11, <3>2, <3>3, <3>4 DEF SourceIsSound
  <2>. QED  BY <2>2, <2>3
<1>12. SourceIsSound'
  BY <1>0, <1>11 DEF SourceIsSound, Within
<1>13. (live \cap Objects \subseteq alive)'
  BY <1>0
<1>14. CallIsSound'
  <2>1. call.op # "none"
    BY <1>0, <1>1 DEF CallIsSound
  <2>. QED  BY <1>0, <2>1 DEF CallIsSound, InCall
<1>. QED  BY <1>2, <1>7, <1>8, <1>10, <1>12, <1>13, <1>14 DEF PtrInv

LEMMA EndDestroyKeeps ==
  ASSUME PtrInv, EndDestroy
  PROVE  PtrInv'
<1>. USE SharedPtrAssumption DEF Handles, EndDestroy
<1>0. /\ PtrTypeOK /\ CountsAreRight /\ live \cap Objects \subseteq alive
      /\ call.self \in Variables /\ call' = NoCall
  BY DEF PtrInv, CallIsSound
<1>1. PtrTypeOK'
  BY <1>0 DEF PtrTypeOK, NoCall, Ops
<1>2. \A x \in Objects : Holders(x)' = Holders(x)
  BY <1>0 DEF Holders, PtrTypeOK, NoCall
<1>3. CountsAreRight'
  BY <1>0, <1>2 DEF CountsAreRight
<1>. QED  BY <1>0, <1>1, <1>3
          DEF PtrInv, CallIsSound, InCall, Chain, UnRefIsSound, SourceIsSound, NoCall

LEMMA EndUnRefKeeps ==
  ASSUME PtrInv, EndUnRef
  PROVE  PtrInv'
<1>. USE SharedPtrAssumption DEF Handles, EndUnRef
<1>0. /\ PtrTypeOK /\ CountsAreRight /\ live \cap Objects \subseteq alive
      /\ call.self \in Handles /\ ptr[call.self] \in torn \cup {Null} /\ call' = NoCall
  BY DEF PtrInv, CallIsSound, InCall, UnRefIsSound
<1>1. PtrTypeOK'
  BY <1>0 DEF PtrTypeOK, NoCall, Ops
<1>2. \A x \in Objects \ torn : Holders(x)' = Holders(x)
  BY <1>0 DEF Holders, PtrTypeOK, NoCall
<1>3. CountsAreRight'
  BY <1>0, <1>2 DEF CountsAreRight
<1>. QED  BY <1>0, <1>1, <1>3
          DEF PtrInv, CallIsSound, InCall, Chain, UnRefIsSound, SourceIsSound, NoCall

\* What an assignment finds in its argument: the object it was to share, which still
\* exists, or null when that object is no more.
LEMMA SourceIsRight ==
  ASSUME PtrInv, call.op = "assign", dying = <<>>
  PROVE  /\ Source(call.from) \in Objects \cup {Null}
         /\ Source(call.from) \in alive \cup torn \cup {Null}
         /\ call.to \notin torn =>
              Source(call.from) = IF call.to \in alive THEN call.to ELSE Null
<1>. USE SharedPtrAssumption DEF Handles, Source
<1>0. /\ PtrTypeOK /\ CountsAreRight /\ ~Within(call.from)
      /\ call.from \in Handles \ {call.self} /\ SourceIsSound
      /\ call.to \in Objects \cup {Null}
  BY DEF PtrInv, CallIsSound, PtrTypeOK, Within
<1>1. ptr[call.from] \in Objects \cup {Null}
  BY <1>0 DEF PtrTypeOK
<1>2. Null \notin alive
  BY <1>0 DEF PtrTypeOK
<1>3. CASE ptr[call.from] = call.to /\ call.from \in live
  <2>1. ASSUME call.to \in Objects \ torn  PROVE call.to \in alive
    <3>1. call.from \in Holders(call.to)
      BY <1>0, <1>3 DEF Holders
    <3>. QED  BY <1>0, <2>1, <3>1 DEF CountsAreRight
  <2>. QED  BY <1>0, <1>1, <1>2, <1>3, <2>1
<1>4. CASE SourceIsGone
  <2>1. ASSUME call.to \in Objects \ torn, count[call.to] # 0  PROVE call.to \in alive
    <3>1. Holders(call.to) # {}
      BY <1>0, <2>1, HoldersAreFinite DEF CountsAreRight
    <3>. QED  BY <1>0, <2>1, <3>1 DEF CountsAreRight
  <2>. QED  BY <1>0, <1>1, <1>2, <1>4, <2>1 DEF SourceIsGone
<1>. QED  BY <1>0, <1>3, <1>4 DEF SourceIsSound

LEMMA EndAssignKeeps ==
  ASSUME PtrInv, EndAssign
  PROVE  PtrInv'
<1>. USE SharedPtrAssumption DEF Handles
<1>. PICK s : s = Source(call.from)
  OBVIOUS
<1>0. /\ PtrTypeOK /\ CountsAreRight /\ live \cap Objects \subseteq alive
      /\ call.op = "assign" /\ dying = <<>> /\ call.self \in live \cap Handles
      /\ live' = live /\ alive' = alive /\ dying' = dying /\ torn' = torn
  BY DEF PtrInv, CallIsSound, InCall, EndAssign
<1>1. s \in Objects \cup {Null} /\ s \in alive \cup torn \cup {Null}
  BY <1>0, SourceIsRight
<1>2. /\ ptr' = [ptr EXCEPT ![call.self] = s] /\ count' = Counted1(s) /\ call' = NoCall
  BY <1>0 DEF EndAssign, Shared
<1>3. PtrTypeOK'
  BY <1>0, <1>1, <1>2 DEF PtrTypeOK, NoCall, Ops, Counted1
<1>4. ASSUME NEW x \in Objects \ torn
      PROVE  /\ count'[x] = Cardinality(Holders(x)')
             /\ x \in alive <=> Holders(x)' # {}
  <2>0. count[x] = Cardinality(Holders(x)) /\ (x \in alive <=> Holders(x) # {})
    BY <1>0, <1>4 DEF CountsAreRight
  <2>1. CASE x = s
    <3>1. x \in alive
      BY <1>1, <1>4, <2>1
    <3>2. call.self \notin Holders(x) /\ Holders(x)' = Holders(x) \cup {call.self}
      BY <1>0, <1>2, <2>1 DEF Holders, PtrTypeOK, NoCall
    <3>. QED  BY <1>0, <1>2, <2>0, <2>1, <3>1, <3>2, HoldersAreFinite DEF PtrTypeOK, Counted1
  <2>2. CASE x # s
    <3>1. Holders(x)' = Holders(x)
      BY <1>0, <1>2, <2>2 DEF Holders, PtrTypeOK, NoCall
    <3>. QED  BY <1>0, <1>1, <1>2, <2>0, <2>2, <3>1 DEF PtrTypeOK, Counted1
  <2>. QED  BY <2>1, <2>2
<1>5. CountsAreRight'
  BY <1>0, <1>4 DEF CountsAreRight
<1>. QED  BY <1>0, <1>2, <1>3, <1>5
          DEF PtrInv, CallIsSound, InCall, Chain, UnRefIsSound, SourceIsSound, NoCall
------------------------------------------------------------------------------
LEMMA NextKeeps ==
  ASSUME PtrInv, [PtrNext]_ptrVars
  PROVE  PtrInv'
<1>1. CASE UNCHANGED ptrVars
  <2>0. /\ ptr' = ptr /\ live' = live /\ alive' = alive /\ count' = count
        /\ dying' = dying /\ call' = call /\ torn' = torn
    BY <1>1 DEF ptrVars
  <2>1. PtrTypeOK' /\ CountsAreRight'
    <3>1. PtrTypeOK'
      BY <2>0 DEF PtrInv, PtrTypeOK
    <3>2. \A o : Holders(o)' = Holders(o)
      BY <2>0 DEF Holders
    <3>. QED  BY <2>0, <3>1, <3>2 DEF PtrInv, CountsAreRight
  <2>2. CallIsSound' <=> CallIsSound
    BY <2>0 DEF CallIsSound, InCall
  <2>3. Chain => Chain'
    <3>1. (dying # <<>> => dying[1] = call.self) => (dying' # <<>> => dying'[1] = call'.self)
      BY <2>0
    <3>2. ASSUME NEW i \in DOMAIN dying',
                 /\ i # 1 => dying[i] = ptr[dying[i - 1]] /\ dying[i] \notin live
                 /\ ptr[dying[i]] \in alive
                 /\ count[ptr[dying[i]]] = 0
                 /\ \A j \in DOMAIN dying : i # j => dying[i] # dying[j] /\ ptr[dying[i]] # ptr[dying[j]]
          PROVE  /\ i # 1 => dying'[i] = ptr'[dying'[i - 1]] /\ dying'[i] \notin live'
                 /\ ptr'[dying'[i]] \in alive'
                 /\ count'[ptr'[dying'[i]]] = 0
                 /\ \A j \in DOMAIN dying' :
                      i # j => dying'[i] # dying'[j] /\ ptr'[dying'[i]] # ptr'[dying'[j]]
      BY <2>0, <3>2
    <3>3. DOMAIN dying' = DOMAIN dying
      BY <2>0
    <3>. QED  BY <3>1, <3>2, <3>3, Zenon DEF Chain
  <2>4. (UnRefIsSound' <=> UnRefIsSound) /\ (SourceIsSound' <=> SourceIsSound)
    BY <2>0 DEF UnRefIsSound, SourceIsSound, SourceIsGone, Within, Innermost
  <2>. QED  BY <2>0, <2>1, <2>2, <2>3, <2>4 DEF PtrInv
<1>2. ASSUME NEW v \in Variables, NEW o \in Objects \cup {Null}, Make(v, o) \/ Adopt(v, o)
      PROVE  PtrInv'
  <2>1. Make(v, o) => o \in Objects
    BY DEF Make
  <2>. QED  BY <1>2, <2>1, MakeKeeps, AdoptKeeps
<1>3. ASSUME NEW v \in Variables, Destroy(v)  PROVE PtrInv'
  BY <1>3, BeginKeeps DEF Destroy, Handles
<1>4. ASSUME NEW h \in Handles, CallUnRef(h)  PROVE PtrInv'
  BY <1>4, BeginKeeps DEF CallUnRef, Named
<1>5. ASSUME NEW h \in Handles, NEW g \in Handles, Assign(h, g)  PROVE PtrInv'
  <2>1. ptr[g] \in Objects \cup {Null}
    BY DEF PtrInv, PtrTypeOK
  <2>. QED  BY <1>5, <2>1, BeginKeeps DEF Assign, Named
<1>6. CASE CallStep
  BY <1>6, DescendKeeps, FreeKeeps, EndDestroyKeeps, EndUnRefKeeps, EndAssignKeeps DEF CallStep
<1>7. CASE Halt
  BY <1>1, <1>7 DEF Halt
<1>. QED  BY <1>1, <1>2, <1>3, <1>4, <1>5, <1>6, <1>7 DEF PtrNext

\* The types of the state, and the strengthened invariant, in every reachable state.
THEOREM PtrInvariant == PtrSpec => []PtrInv
<1>1. PtrInit => PtrInv
  BY InitHolds
<1>2. PtrInv /\ [PtrNext]_ptrVars => PtrInv'
  BY NextKeeps
<1>. QED  BY <1>1, <1>2, PTL DEF PtrSpec

\* In every step of every call the counts are the numbers of pointers, and an object
\* exists as long as there is a pointer to it (SharedPtr.h:27-71), for any number of
\* objects, and of pointers to them and between them.
THEOREM CountsStayRight == PtrSpec => []CountsAreRight
<1>1. PtrInv => CountsAreRight
  BY DEF PtrInv
<1>. QED  BY <1>1, PtrInvariant, PTL

\* An assignment makes its pointer share the argument's object (SharedPtr.h:65-71), for
\* any number of objects, also when it deletes the object that holds the argument.
THEOREM AssignmentsShare == PtrSpec => AssignShares
<1>. DEFINE Shares == call.op = "assign" /\ call'.op = "none" /\ call.to \notin torn =>
                        ptr'[call.self] = IF call.to \in alive THEN call.to ELSE Null
<1>1. ASSUME PtrInv, PtrNext, call.op = "assign", call'.op = "none", call.to \notin torn
      PROVE  ptr'[call.self] = IF call.to \in alive THEN call.to ELSE Null
  <2>1. EndAssign
    BY <1>1 DEF PtrNext, Make, Adopt, Destroy, CallUnRef, Assign, Begin, CallStep, Descend, Free,
                EndDestroy, EndUnRef, Halt, Stopped, NoCall
  <2>2. call.self \in Handles /\ dying = <<>> /\ ptr' = [ptr EXCEPT ![call.self] = Source(call.from)]
    BY <1>1, <2>1 DEF EndAssign, PtrInv, CallIsSound, InCall
  <2>3. ptr'[call.self] = Source(call.from)
    BY <1>1, <2>2 DEF PtrInv, PtrTypeOK
  <2>. QED  BY <1>1, <2>2, <2>3, SourceIsRight
<1>2. PtrInv /\ [PtrNext]_ptrVars => [Shares]_ptrVars
  BY <1>1
<1>. QED  BY <1>2, PtrInvariant, PTL DEF PtrSpec, AssignShares
------------------------------------------------------------------------------
(***************************************************************************)
(* ByteArray.  Two arrays in one buffer may hold the right texts for a     *)
(* while: no array is ever in another's buffer, and what is in a buffer is *)
(* as long as the array is.                                                *)
(***************************************************************************)
\* Every array has a buffer of its own, which holds its text and nothing else, or none
\* and no text; no other buffers are in use.
ArraysInv ==
  /\ content \in [Arrays -> Buffers \cup {NoBuffer}] /\ length \in [Arrays -> Nat]
  /\ mem \in [Buffers -> Seq(Chars)]
  /\ used = {content[a] : a \in Arrays} \ {NoBuffer}
  /\ \A a \in Arrays : IF content[a] = NoBuffer THEN length[a] = 0 ELSE Len(mem[content[a]]) = length[a]
  /\ \A a, g \in Arrays : a # g /\ content[a] # NoBuffer => content[a] # content[g]

LEMMA TextIs ==
  ASSUME ArraysInv, NEW a \in Arrays
  PROVE  /\ TextOf(a) = IF content[a] = NoBuffer THEN <<>> ELSE mem[content[a]]
         /\ TextOf(a) \in Seq(Chars) /\ Len(TextOf(a)) = length[a]
         /\ Texts[a] = TextOf(a)
<1>1. CASE content[a] = NoBuffer
  <2>1. length[a] = 0
    BY <1>1 DEF ArraysInv
  <2>2. TextOf(a) = <<>>
    BY <2>1 DEF TextOf
  <2>. QED  BY <1>1, <2>1, <2>2 DEF Texts
<1>2. CASE content[a] # NoBuffer
  <2>1. PICK t \in Seq(Chars) : t = mem[content[a]]
    BY <1>2 DEF ArraysInv
  <2>2. Len(t) = length[a] /\ DOMAIN t = 1..length[a]
    BY <1>2, <2>1 DEF ArraysInv
  <2>3. TextOf(a) = [i \in 1..length[a] |-> t[i]]
    BY <2>1, <2>2 DEF TextOf
  <2>4. t = [i \in 1..length[a] |-> t[i]]
    BY <2>2
  <2>. QED  BY <1>2, <2>1, <2>2, <2>3, <2>4 DEF Texts
<1>. QED  BY <1>1, <1>2

\* When array a is in buffer b, and the others where they were, all is well if no other
\* array has b.
LEMMA OneMoves ==
  ASSUME ArraysInv, NEW a \in Arrays, NEW t \in Seq(Chars), NEW b \in Buffers \cup {NoBuffer},
         b = NoBuffer => t = <<>>,
         \A g \in Arrays \ {a} : b # NoBuffer => content[g] # b,
         content' = [content EXCEPT ![a] = b],
         length' = [length EXCEPT ![a] = Len(t)],
         mem' \in [Buffers -> Seq(Chars)],
         b # NoBuffer => mem'[b] = t,
         \A g \in Arrays \ {a} : content[g] # NoBuffer => mem'[content[g]] = mem[content[g]],
         used' = (used \ {content[a]}) \cup ({b} \ {NoBuffer})
  PROVE  ArraysInv' /\ Texts' = [Texts EXCEPT ![a] = t]
<1>1. /\ content \in [Arrays -> Buffers \cup {NoBuffer}] /\ length \in [Arrays -> Nat]
      /\ content' \in [Arrays -> Buffers \cup {NoBuffer}] /\ length' \in [Arrays -> Nat]
      /\ content'[a] = b /\ length'[a] = Len(t)
      /\ \A g \in Arrays \ {a} : content'[g] = content[g] /\ length'[g] = length[g]
  BY DEF ArraysInv
<1>2. \A g \in Arrays : IF content'[g] = NoBuffer THEN length'[g] = 0 ELSE Len(mem'[content'[g]]) = length'[g]
  <2>1. IF content'[a] = NoBuffer THEN length'[a] = 0 ELSE Len(mem'[content'[a]]) = length'[a]
    BY <1>1
  <2>2. ASSUME NEW g \in Arrays \ {a}
        PROVE  IF content'[g] = NoBuffer THEN length'[g] = 0 ELSE Len(mem'[content'[g]]) = length'[g]
    BY <1>1 DEF ArraysInv
  <2>. QED  BY <2>1, <2>2
<1>3. \A g, h \in Arrays : g # h /\ content'[g] # NoBuffer => content'[g] # content'[h]
  BY <1>1 DEF ArraysInv
<1>4. used' = {content'[g] : g \in Arrays} \ {NoBuffer}
  BY <1>1 DEF ArraysInv
<1>5. ArraysInv'
  BY <1>1, <1>2, <1>3, <1>4 DEF ArraysInv
<1>6. ASSUME NEW g \in Arrays
      PROVE  TextOf(g)' = IF content'[g] = NoBuffer THEN <<>> ELSE mem'[content'[g]]
  <2>1. CASE content'[g] = NoBuffer
    <3>1. length'[g] = 0
      BY <1>2, <2>1
    <3>. QED  BY <2>1, <3>1 DEF TextOf
  <2>2. CASE content'[g] # NoBuffer
    <3>1. PICK u \in Seq(Chars) : u = mem'[content'[g]]
      BY <1>1, <2>2
    <3>2. DOMAIN u = 1..length'[g]
      BY <1>2, <2>2, <3>1
    <3>3. TextOf(g)' = [i \in 1..length'[g] |-> u[i]]
      BY <3>1, <3>2 DEF TextOf
    <3>4. u = [i \in 1..length'[g] |-> u[i]]
      BY <3>2
    <3>. QED  BY <2>2, <3>1, <3>3, <3>4
  <2>. QED  BY <2>1, <2>2
<1>7. \A g \in Arrays : TextOf(g)' = IF g = a THEN t ELSE TextOf(g)
  <2>1. TextOf(a)' = t
    BY <1>1, <1>6
  <2>2. ASSUME NEW g \in Arrays \ {a}
        PROVE  TextOf(g)' = TextOf(g)
    <3>1. TextOf(g) = IF content[g] = NoBuffer THEN <<>> ELSE mem[content[g]]
      BY TextIs
    <3>2. TextOf(g)' = IF content[g] = NoBuffer THEN <<>> ELSE mem'[content[g]]
      BY <1>1, <1>6
    <3>. QED  BY <3>1, <3>2
  <2>. QED  BY <2>1, <2>2
<1>8. Texts' = [g \in Arrays |-> TextOf(g)'] /\ Texts = [g \in Arrays |-> TextOf(g)]
  BY DEF Texts, TextOf
<1>9. Texts' = [Texts EXCEPT ![a] = t]
  BY <1>7, <1>8
<1>. QED  BY <1>5, <1>9

LEMMA MoveMoves ==
  ASSUME ArraysInv, NEW a \in Arrays, NEW t \in Seq(Chars), NEW free, Move(a, t, free),
         free \subseteq Unused \cup ({content[a]} \ {NoBuffer})
  PROVE  ArraysInv' /\ Texts' = [Texts EXCEPT ![a] = t]
<1>1. PICK b \in New(Len(t), free) :
       /\ content' = [content EXCEPT ![a] = b]
       /\ length' = [length EXCEPT ![a] = Len(t)]
       /\ mem' = [c \in Buffers |-> IF c = b THEN t ELSE IF c = content[a] THEN <<>> ELSE mem[c]]
       /\ used' = (used \ {content[a]}) \cup ({b} \ {NoBuffer})
  BY DEF Move
<1>2. b \in Buffers \cup {NoBuffer} /\ (b = NoBuffer => t = <<>>)
  <2>1. content[a] \in Buffers \cup {NoBuffer}
    BY DEF ArraysInv
  <2>2. b \in free => b \in Buffers
    BY <2>1 DEF Unused
  <2>3. b = NoBuffer => Len(t) = 0
    BY <2>2, ByteArrayAssumption DEF New
  <2>. QED  BY <2>2, <2>3 DEF New
<1>3. \A g \in Arrays \ {a} : b # NoBuffer => content[g] # b
  <2>1. b # NoBuffer => b \in free
    BY DEF New
  <2>2. b # NoBuffer /\ b \in Unused => \A g \in Arrays : content[g] # b
    BY DEF Unused, ArraysInv
  <2>. QED  BY <2>1, <2>2 DEF ArraysInv
<1>4. mem' \in [Buffers -> Seq(Chars)] /\ (b # NoBuffer => mem'[b] = t)
  <2>1. mem \in [Buffers -> Seq(Chars)] /\ <<>> \in Seq(Chars)
    BY DEF ArraysInv
  <2>. QED  BY <1>1, <1>2, <2>1
<1>5. \A g \in Arrays \ {a} : content[g] # NoBuffer => mem'[content[g]] = mem[content[g]]
  <2>1. \A g \in Arrays \ {a} : content[g] # NoBuffer =>
          content[g] \in Buffers /\ content[g] # content[a] /\ content[g] # b
    BY <1>3 DEF ArraysInv
  <2>. QED  BY <1>1, <2>1
<1>. QED  BY <1>1, <1>2, <1>3, <1>4, <1>5, OneMoves

\* A call that leaves an array with the text it had.
LEMMA StayStays ==
  ASSUME ArraysInv, NEW a \in Arrays, Stay
  PROVE  ArraysInv' /\ Texts' = [Texts EXCEPT ![a] = TextOf(a)]
<1>1. ArraysInv'
  BY DEF ArraysInv, Stay
<1>2. Texts' = Texts
  BY DEF Texts, TextOf, Stay
<1>3. Texts = [Texts EXCEPT ![a] = TextOf(a)]
  <2>1. Texts[a] = TextOf(a) /\ Texts = [g \in Arrays |-> Texts[g]]
    BY TextIs DEF Texts
  <2>. QED  BY <2>1
<1>. QED  BY <1>1, <1>2, <1>3

LEMMA LiteralsAre ==
  ASSUME NEW t \in Literals
  PROVE  /\ t \in Seq(Chars) /\ t \in Taken
         /\ \A n \in 0 .. Len(t) + 1 :
              SubSeq(Append(t, Zero), 1, n) \in Seq(Chars) /\ SubSeq(Append(t, Zero), 1, n) \in Taken
         /\ SubSeq(Append(t, Zero), 1, 0) = <<>>
<1>1. t \in Seq(Chars) /\ Zero \in Chars
  <2>1. t \in Seq(Chars \ {Zero})
    BY ByteArrayAssumption
  <2>. QED  BY <2>1, ByteArrayAssumption
<1>2. PICK m \in Nat : m = Len(t)
  BY <1>1
<1>3. PICK u \in Seq(Chars) : u = Append(t, Zero)
  <2>1. Append(t, Zero) \in Seq(Chars)
    BY <1>1, AppendProperties
  <2>. QED  BY <2>1
<1>4. Len(u) = m + 1 /\ \A i \in 1 .. m : u[i] = t[i]
  BY <1>1, <1>2, <1>3
<1>5. \A n \in 0 .. m + 1 : SubSeq(u, 1, n) \in Seq(Chars) /\ Len(SubSeq(u, 1, n)) = n
                            /\ \A i \in 1 .. n : SubSeq(u, 1, n)[i] = u[i]
  BY <1>2, <1>3, <1>4
<1>6. SubSeq(u, 1, m) = t
  <2>1. SubSeq(u, 1, m) \in Seq(Chars) /\ Len(SubSeq(u, 1, m)) = m /\ \A i \in 1 .. m : SubSeq(u, 1, m)[i] = t[i]
    BY <1>2, <1>4, <1>5
  <2>. HIDE <1>2
  <2>2. Len(t) = m
    BY <1>2
  <2>. QED  BY <1>1, <2>1, <2>2, SeqEqual
<1>7. SubSeq(u, 1, 0) = <<>>
  BY <1>5
<1>8. \A n \in 0 .. m + 1 : SubSeq(u, 1, n) \in Taken
  BY <1>2, <1>3 DEF Taken
<1>9. t \in Taken
  <2>1. m \in 0 .. m + 1
    BY <1>2
  <2>2. SubSeq(u, 1, m) \in Taken
    BY <1>8, <2>1
  <2>. QED  BY <1>6, <2>2
<1>. QED  BY <1>1, <1>2, <1>3, <1>5, <1>7, <1>8, <1>9
------------------------------------------------------------------------------
LEMMA DiscardClears ==
  ASSUME ArraysInv, NEW a \in Arrays, Discard(a)
  PROVE  ArraysInv' /\ Abstract!StrNext
<1>1. /\ content' = [content EXCEPT ![a] = NoBuffer] /\ length' = [length EXCEPT ![a] = Len(<<>>)]
      /\ used' = (used \ {content[a]}) \cup ({NoBuffer} \ {NoBuffer})
      /\ mem' = [b \in Buffers |-> IF b = content[a] THEN <<>> ELSE mem[b]]
  BY DEF Discard
<1>2. mem' \in [Buffers -> Seq(Chars)]
  <2>1. mem \in [Buffers -> Seq(Chars)] /\ <<>> \in Seq(Chars)
    BY DEF ArraysInv
  <2>. QED  BY <1>1, <2>1
<1>3. \A g \in Arrays \ {a} : content[g] # NoBuffer => mem'[content[g]] = mem[content[g]]
  BY <1>1 DEF ArraysInv
<1>4. <<>> \in Seq(Chars)
  OBVIOUS
<1>5. ArraysInv' /\ Texts' = [Texts EXCEPT ![a] = <<>>]
  BY <1>1, <1>2, <1>3, <1>4, OneMoves
<1>. QED  BY <1>5 DEF Discard, Abstract!StrNext, Abstract!Call

LEMMA SetSets ==
  ASSUME ArraysInv, NEW a \in Arrays, NEW t \in Literals
  PROVE  /\ FromText(a, t) => ArraysInv' /\ Abstract!StrNext
         /\ AssignText(a, t) => ArraysInv' /\ Abstract!StrNext
         /\ \A size \in 0 .. Len(t) + 1 : FromBytes(a, t, size) => ArraysInv' /\ Abstract!StrNext
<1>1. t \in Seq(Chars) /\ t \in Taken
  BY LiteralsAre
<1>2. Unused \subseteq Unused \cup ({content[a]} \ {NoBuffer})
  OBVIOUS
<1>3. ASSUME NEW u \in Taken, request' = <<"set", a, u>>, Texts' = [Texts EXCEPT ![a] = u]
      PROVE  Abstract!StrNext
  BY <1>3 DEF Abstract!StrNext, Abstract!Call
<1>4. ASSUME FromText(a, t)
      PROVE  ArraysInv' /\ Abstract!StrNext
  BY <1>1, <1>2, <1>3, <1>4, MoveMoves DEF FromText
<1>5. ASSUME AssignText(a, t)
      PROVE  ArraysInv' /\ Abstract!StrNext
  BY <1>1, <1>2, <1>3, <1>5, MoveMoves DEF AssignText
<1>6. ASSUME NEW size \in 0 .. Len(t) + 1, FromBytes(a, t, size)
      PROVE  ArraysInv' /\ Abstract!StrNext
  <2>1. PICK u : u = SubSeq(Append(t, Zero), 1, size)
    OBVIOUS
  <2>2. u \in Seq(Chars) /\ u \in Taken /\ request' = <<"set", a, u>>
    BY <1>6, <2>1, LiteralsAre DEF FromBytes
  <2>3. CASE size <= 0
    <3>1. size = 0 /\ u = <<>>
      <4>1. size = 0
        BY <1>1, <2>3
      <4>. QED  BY <2>1, <4>1, LiteralsAre
    <3>2. Fresh(a) /\ Stay
      BY <1>6, <2>3 DEF FromBytes
    <3>3. TextOf(a) = u
      BY <3>1, <3>2, TextIs DEF Fresh
    <3>. QED  BY <1>3, <2>2, <3>2, <3>3, StayStays
  <2>4. CASE ~(size <= 0)
    <3>1. Move(a, u, Unused)
      BY <1>6, <2>1, <2>4 DEF FromBytes
    <3>. QED  BY <1>2, <1>3, <2>2, <3>1, MoveMoves
  <2>. QED  BY <2>3, <2>4
<1>. QED  BY <1>4, <1>5, <1>6

LEMMA CopyCopies ==
  ASSUME ArraysInv, NEW a \in Arrays, NEW g \in Arrays
  PROVE  /\ CopyArray(a, g) => ArraysInv' /\ Abstract!StrNext
         /\ AssignArray(a, g) => ArraysInv' /\ Abstract!StrNext
<1>1. PICK t \in Seq(Chars) : t = TextOf(g)
  BY TextIs
<1>2. ASSUME request' = <<"copy", a, g>>, Texts' = [Texts EXCEPT ![a] = TextOf(g)]
      PROVE  Abstract!StrNext
  <2>1. Texts[g] = TextOf(g)
    BY TextIs
  <2>. QED  BY <1>2, <2>1 DEF Abstract!StrNext, Abstract!Call
<1>3. ASSUME CopyArray(a, g)
      PROVE  ArraysInv' /\ Abstract!StrNext
  <2>1. Fresh(a) /\ request' = <<"copy", a, g>>
    BY <1>3 DEF CopyArray
  <2>2. CASE length[g] = 0 \/ content[g] = NoBuffer
    <3>1. Stay
      BY <1>3, <2>2 DEF CopyArray
    <3>2. TextOf(a) = <<>> /\ TextOf(g) = <<>>
      BY <2>1, <2>2, TextIs DEF Fresh
    <3>. QED  BY <1>2, <2>1, <3>1, <3>2, StayStays
  <2>3. CASE ~(length[g] = 0 \/ content[g] = NoBuffer)
    <3>1. Move(a, t, Unused) /\ Unused \subseteq Unused \cup ({content[a]} \ {NoBuffer})
      BY <1>1, <1>3, <2>3 DEF CopyArray
    <3>. QED  BY <1>1, <1>2, <2>1, <3>1, MoveMoves
  <2>. QED  BY <2>2, <2>3
<1>4. ASSUME AssignArray(a, g)
      PROVE  ArraysInv' /\ Abstract!StrNext
  <2>1. request' = <<"copy", a, g>>
    BY <1>4 DEF AssignArray
  <2>2. CASE a = g
    BY <1>2, <1>4, <2>1, <2>2, StayStays DEF AssignArray
  <2>3. CASE a # g
    <3>1. Move(a, t, Unused \cup ({content[a]} \ {NoBuffer}))
      BY <1>1, <1>4, <2>3 DEF AssignArray
    <3>. QED  BY <1>1, <1>2, <2>1, <3>1, MoveMoves
  <2>. QED  BY <2>2, <2>3
<1>. QED  BY <1>3, <1>4

\* An array joined with another has both texts; with itself, nothing is promised but how
\* long it is.
LEMMA JoinJoins ==
  ASSUME ArraysInv, NEW a \in Arrays, NEW g \in Arrays, Join(a, g)
  PROVE  ArraysInv' /\ Abstract!StrNext
<1>1. PICK t \in Seq(Chars), u \in Seq(Chars) :
        /\ t = TextOf(a) /\ u = TextOf(g) /\ t = Texts[a] /\ u = Texts[g]
        /\ Len(t) = length[a] /\ Len(u) = length[g]
  BY TextIs
<1>2. request' = <<"join", a, g>>
  BY DEF Join
<1>3. CASE length[g] = 0 \/ content[g] = NoBuffer
  <2>1. ArraysInv' /\ Texts' = [Texts EXCEPT ![a] = t]
    BY <1>1, <1>3, StayStays DEF Join
  <2>2. u = <<>>
    BY <1>1, <1>3, TextIs
  <2>3. CASE a # g
    <3>1. t \o u = t
      BY <2>2
    <3>2. Texts' = [Texts EXCEPT ![a] = Texts[a] \o Texts[g]]
      BY <1>1, <2>1, <3>1
    <3>. QED  BY <1>2, <2>1, <2>3, <3>2 DEF Abstract!StrNext, Abstract!Call
  <2>4. CASE a = g
    <3>1. t = <<>> /\ Len(t) = 0
      BY <1>1, <2>2, <2>4
    <3>2. t \in [1 .. 2 * Len(Texts[a]) -> Chars]
      BY <1>1, <3>1
    <3>. QED  BY <1>2, <2>1, <2>4, <3>2 DEF Abstract!StrNext, Abstract!Call, Abstract!Anything
  <2>. QED  BY <2>3, <2>4
<1>4. CASE ~(length[g] = 0 \/ content[g] = NoBuffer) /\ a = g
  <2>1. PICK junk \in [1 .. 2 * length[a] -> Chars] : Move(a, junk, Unused)
    BY <1>4 DEF Join
  <2>2. junk \in Seq(Chars) /\ junk \in [1 .. 2 * Len(Texts[a]) -> Chars]
    <3>1. PICK n \in Nat : n = 2 * length[a]
      BY DEF ArraysInv
    <3>2. junk \in [1 .. n -> Chars]
      BY <2>1, <3>1
    <3>3. junk \in Seq(Chars)
      BY <3>2
    <3>. QED  BY <1>1, <3>1, <3>2, <3>3
  <2>3. ArraysInv' /\ Texts' = [Texts EXCEPT ![a] = junk]
    <3>1. Unused \subseteq Unused \cup ({content[a]} \ {NoBuffer})
      OBVIOUS
    <3>. QED  BY <2>1, <2>2, <3>1, MoveMoves
  <2>4. Abstract!Call(<<"join", a, a>>, a, junk)
    BY <1>2, <1>4, <2>3 DEF Abstract!Call
  <2>5. \E w \in Abstract!Anything(2 * Len(Texts[a])) : Abstract!Call(<<"join", a, a>>, a, w)
    BY <2>2, <2>4 DEF Abstract!Anything
  <2>. QED  BY <2>3, <2>5 DEF Abstract!StrNext
<1>5. CASE ~(length[g] = 0 \/ content[g] = NoBuffer) /\ a # g
  <2>1. PICK v : v = t \o u
    OBVIOUS
  <2>2. v \in Seq(Chars)
    BY <1>1, <2>1
  <2>3. Move(a, v, Unused) /\ Unused \subseteq Unused \cup ({content[a]} \ {NoBuffer})
    BY <1>1, <1>5, <2>1 DEF Join
  <2>4. ArraysInv' /\ Texts' = [Texts EXCEPT ![a] = Texts[a] \o Texts[g]]
    BY <1>1, <2>1, <2>2, <2>3, MoveMoves
  <2>. QED  BY <1>2, <1>5, <2>4 DEF Abstract!StrNext, Abstract!Call
<1>. QED  BY <1>3, <1>4, <1>5

LEMMA AddAdds ==
  ASSUME ArraysInv, NEW a \in Arrays, NEW t \in Literals, JoinText(a, t)
  PROVE  ArraysInv' /\ Abstract!StrNext
<1>1. PICK u \in Seq(Chars) : u = TextOf(a) /\ u = Texts[a]
  BY TextIs
<1>2. t \in Seq(Chars) /\ t \in Taken /\ request' = <<"add", a, t>>
  BY LiteralsAre DEF JoinText
<1>3. PICK v : v = u \o t
  OBVIOUS
<1>4. v \in Seq(Chars)
  BY <1>2, <1>3
<1>5. ArraysInv' /\ Texts' = [Texts EXCEPT ![a] = v]
  <2>1. CASE t = <<>>
    <3>1. v = u /\ Stay
      BY <1>3, <2>1 DEF JoinText
    <3>. QED  BY <1>1, <3>1, StayStays
  <2>2. CASE t # <<>>
    <3>1. Move(a, v, Unused) /\ Unused \subseteq Unused \cup ({content[a]} \ {NoBuffer})
      BY <1>1, <1>3, <2>2 DEF JoinText
    <3>. QED  BY <1>4, <3>1, MoveMoves
  <2>. QED  BY <2>1, <2>2
<1>6. Texts' = [Texts EXCEPT ![a] = Texts[a] \o t]
  BY <1>1, <1>3, <1>5
<1>. QED  BY <1>2, <1>5, <1>6 DEF Abstract!StrNext, Abstract!Call

LEMMA ConcatConcats ==
  ASSUME ArraysInv, NEW a \in Arrays, NEW g \in Arrays, NEW h \in Arrays, Concat(a, g, h)
  PROVE  ArraysInv' /\ Abstract!StrNext
<1>1. PICK t \in Seq(Chars), u \in Seq(Chars) : t = TextOf(g) /\ u = TextOf(h) /\ t = Texts[g] /\ u = Texts[h]
  BY TextIs
<1>2. PICK v : v = t \o u
  OBVIOUS
<1>3. v \in Seq(Chars)
  BY <1>2
<1>4. Move(a, v, Unused \cup ({content[a]} \ {NoBuffer})) /\ request' = <<"concat", a, g, h>>
  BY <1>1, <1>2 DEF Concat
<1>5. ArraysInv' /\ Texts' = [Texts EXCEPT ![a] = Texts[g] \o Texts[h]]
  BY <1>1, <1>2, <1>3, <1>4, MoveMoves
<1>. QED  BY <1>4, <1>5 DEF Abstract!StrNext, Abstract!Call

LEMMA PutPuts ==
  ASSUME ArraysInv, NEW a \in Arrays, NEW i \in 1..MaxLength, NEW c \in Chars, PutByte(a, i, c)
  PROVE  ArraysInv' /\ Abstract!StrNext
<1>1. PICK b \in Buffers : b = content[a]
  <2>1. content[a] # NoBuffer
    BY DEF PutByte, ArraysInv
  <2>. QED  BY <2>1 DEF ArraysInv
<1>2. PICK t \in Seq(Chars) : t = mem[b]
  BY DEF ArraysInv
<1>3. Texts[a] = t /\ i \in 1 .. Len(t)
  <2>1. content[a] # NoBuffer
    BY <1>1, ByteArrayAssumption
  <2>. QED  BY <1>1, <1>2, <2>1, TextIs DEF PutByte
<1>4. PICK u : u = [t EXCEPT ![i] = c]
  OBVIOUS
<1>5. u \in Seq(Chars) /\ Len(u) = Len(t)
  BY <1>3, <1>4, ExceptSeq
<1>6. mem' = [mem EXCEPT ![b] = u] /\ UNCHANGED <<content, length, used>> /\ request' = <<"put", a, i, c>>
  BY <1>1, <1>2, <1>4 DEF PutByte, ArraysInv
<1>7. mem' \in [Buffers -> Seq(Chars)] /\ mem'[b] = u
  BY <1>5, <1>6 DEF ArraysInv
<1>8. content' = [content EXCEPT ![a] = b] /\ length' = [length EXCEPT ![a] = Len(u)]
  <2>1. length[a] = Len(t)
    BY <1>1, <1>2, ByteArrayAssumption DEF ArraysInv
  <2>. QED  BY <1>1, <1>5, <1>6, <2>1 DEF ArraysInv
<1>9. \A g \in Arrays \ {a} : content[g] # b
  BY <1>1, ByteArrayAssumption DEF ArraysInv
<1>10. \A g \in Arrays \ {a} : content[g] # NoBuffer => mem'[content[g]] = mem[content[g]]
  BY <1>6, <1>9 DEF ArraysInv
<1>11. used' = (used \ {content[a]}) \cup ({b} \ {NoBuffer})
  BY <1>1, <1>6, ByteArrayAssumption DEF ArraysInv
<1>12. ArraysInv' /\ Texts' = [Texts EXCEPT ![a] = u]
  BY <1>1, <1>5, <1>7, <1>8, <1>9, <1>10, <1>11, ByteArrayAssumption, OneMoves
<1>13. i \in DOMAIN Texts[a] /\ Texts' = [Texts EXCEPT ![a] = [Texts[a] EXCEPT ![i] = c]]
  BY <1>3, <1>4, <1>12
<1>14. \E j \in DOMAIN Texts[a], d \in Chars :
         request' = <<"put", a, j, d>> /\ Texts' = [Texts EXCEPT ![a] = [Texts[a] EXCEPT ![j] = d]]
  <2>. i \in DOMAIN Texts[a]
    BY <1>13
  <2>. WITNESS i \in DOMAIN Texts[a], c \in Chars
  <2>. QED  BY <1>6, <1>13
<1>. QED  BY <1>12, <1>14 DEF Abstract!StrNext, Abstract!Call

LEMMA CompareCompares ==
  ASSUME ArraysInv, NEW a \in Arrays, NEW g \in Arrays, Compare(a, g)
  PROVE  ArraysInv' /\ Abstract!StrNext
<1>1. PICK t \in Seq(Chars), u \in Seq(Chars) :
        /\ t = TextOf(a) /\ u = TextOf(g) /\ t = Texts[a] /\ u = Texts[g]
        /\ Len(t) = length[a] /\ Len(u) = length[g]
  BY TextIs
<1>2. Same(a, g) = (t = u)
  <2>1. ASSUME length[a] = length[g], \A i \in 1..length[a] : TextOf(a)[i] = TextOf(g)[i]
        PROVE  t = u
    BY <1>1, <2>1, SeqEqual
  <2>2. a = g => t = u
    BY <1>1
  <2>3. t = u => length[a] = length[g] /\ \A i \in 1..length[a] : TextOf(a)[i] = TextOf(g)[i]
    BY <1>1
  <2>. QED  BY <2>1, <2>2, <2>3 DEF Same
<1>3. request' = <<"equal", a, g, Texts[a] = Texts[g]>>
  BY <1>1, <1>2 DEF Compare
<1>4. ArraysInv' /\ Texts' = [Texts EXCEPT ![a] = Texts[a]]
  BY <1>1, StayStays DEF Compare
<1>. QED  BY <1>3, <1>4 DEF Abstract!StrNext, Abstract!Call

LEMMA ArraysInitHolds ==
  ASSUME ArraysInit
  PROVE  ArraysInv /\ Abstract!StrInit
<1>1. ArraysInv
  BY DEF ArraysInit, ArraysInv
<1>2. \A a \in Arrays : TextOf(a) = <<>>
  BY <1>1, TextIs DEF ArraysInit
<1>. QED  BY <1>1, <1>2 DEF ArraysInit, Abstract!StrInit, Texts

LEMMA ArraysStep ==
  ASSUME ArraysInv, ArraysNext
  PROVE  ArraysInv' /\ Abstract!StrNext
BY DiscardClears, SetSets, CopyCopies, JoinJoins, AddAdds, ConcatConcats, PutPuts, CompareCompares DEF ArraysNext

\* The arrays are texts, each of its own, for any number of arrays and of buffers
\* (ByteArray.cpp).
THEOREM ArraysAreTexts == ArraysSpec => ImplementsStrings
<1>1. ArraysInit => ArraysInv /\ Abstract!StrInit
  BY ArraysInitHolds
<1>2. ArraysInv /\ [ArraysNext]_arrayVars => ArraysInv' /\ [Abstract!StrNext]_<<Texts, request>>
  <2>1. ASSUME ArraysInv, UNCHANGED arrayVars
        PROVE  ArraysInv' /\ UNCHANGED <<Texts, request>>
    BY <2>1 DEF ArraysInv, arrayVars, Texts, TextOf
  <2>. QED  BY <2>1, ArraysStep
<1>. QED  BY <1>1, <1>2, PTL DEF ArraysSpec, ImplementsStrings, Abstract!StrSpec
------------------------------------------------------------------------------
(***************************************************************************)
(* Tty.  What the next call does to the screen depends on the offset: it   *)
(* never leaves the screen, and the controller is always told of it.       *)
(***************************************************************************)
TtyCells == [ch : Printable \cup {Empty}, theme : Themes]

TtyInv ==
  /\ tty \in [cells : [0..Last -> TtyCells], offset : 0..Last, vga : 0..Last, theme : Themes]
  /\ tty.vga = tty.offset

\* The lines of a screen.
LinesOf(cells) == [r \in 1..Height |-> [c \in 1..Width |-> cells[(r - 1) * Width + c - 1]]]

\* A row more is a line's width more.
LEMMA RowsAreWide ==
  /\ Width \in Nat /\ Width > 0 /\ Height \in Nat /\ Height >= 3
  /\ \A a \in Int : a * Width \in Int /\ (a + 1) * Width = a * Width + Width /\ (a - 1) * Width = a * Width - Width
  /\ \A a, b \in Int : a <= b => a * Width <= b * Width
  /\ \A a \in Nat : a * Width \in Nat
  /\ Size = Height * Width /\ Size \in Nat
<1>1. Width \in Nat /\ Width > 0 /\ Height \in Nat /\ Height >= 3
  BY TtyAssumption
<1>2. \A a \in Int : a * Width \in Int /\ (a + 1) * Width = a * Width + Width /\ (a - 1) * Width = a * Width - Width
  BY <1>1
<1>3. \A a, b \in Int : a <= b => a * Width <= b * Width
  BY <1>1
<1>4. \A a \in Nat : a * Width \in Nat
  BY <1>1
<1>5. Size = Height * Width /\ Size \in Nat
  BY <1>1, <1>4 DEF Size
<1>. QED  BY <1>1, <1>2, <1>3, <1>4, <1>5

LEMMA Division ==
  ASSUME NEW o \in Nat
  PROVE  /\ o \div Width \in Nat /\ o % Width \in 0 .. Width - 1
         /\ o = (o \div Width) * Width + (o % Width)
  BY TtyAssumption

LEMMA DivisionIsUnique ==
  ASSUME NEW a \in Nat, NEW b \in 0 .. Width - 1
  PROVE  (a * Width + b) \div Width = a /\ (a * Width + b) % Width = b
<1>. PICK o \in Nat : o = a * Width + b
  BY RowsAreWide
<1>. PICK q \in Nat, m \in 0 .. Width - 1 : q = o \div Width /\ m = o % Width
  BY Division
<1>1. o = q * Width + m
  BY Division
<1>2. ~(q + 1 <= a)
  BY <1>1, RowsAreWide
<1>3. ~(a + 1 <= q)
  BY <1>1, RowsAreWide
<1>4. q = a
  BY <1>2, <1>3
<1>. QED  BY <1>1, <1>4, RowsAreWide

\* Every place on the screen has its offset, and every offset its place.
LEMMA PlaceIsOn ==
  ASSUME NEW r \in 1..Height, NEW c \in 1..Width
  PROVE  /\ (r - 1) * Width + c - 1 \in 0..Last
         /\ PlaceAt((r - 1) * Width + c - 1) = [row |-> r, col |-> c]
<1>1. r - 1 \in Nat /\ c - 1 \in 0 .. Width - 1 /\ r \in Int /\ r <= Height
  BY RowsAreWide
<1>2. (r - 1) * Width \in Nat /\ (r - 1) * Width + Width <= Size
  BY <1>1, RowsAreWide
<1>3. (r - 1) * Width + c - 1 = (r - 1) * Width + (c - 1)
  BY <1>1, <1>2
<1>4. (r - 1) * Width + c - 1 \in 0..Last
  BY <1>1, <1>2, RowsAreWide DEF Last
<1>. HIDE <1>2
<1>. QED  BY <1>1, <1>3, <1>4, DivisionIsUnique DEF PlaceAt

LEMMA OffsetIsOn ==
  ASSUME NEW o \in 0..Last
  PROVE  /\ PlaceAt(o).row \in 1..Height /\ PlaceAt(o).col \in 1..Width
         /\ o = (PlaceAt(o).row - 1) * Width + PlaceAt(o).col - 1
<1>1. o \in Nat /\ o < Size
  BY RowsAreWide DEF Last
<1>. PICK q \in Nat, m \in 0 .. Width - 1 : q = o \div Width /\ m = o % Width
  BY <1>1, Division
<1>2. o = q * Width + m
  BY <1>1, Division
<1>3. ~(Height <= q)
  BY <1>1, <1>2, RowsAreWide
<1>4. PlaceAt(o) = [row |-> q + 1, col |-> m + 1]
  BY DEF PlaceAt
<1>5. q * Width \in Nat /\ (q + 1) - 1 = q
  BY RowsAreWide
<1>6. q + 1 \in 1..Height /\ m + 1 \in 1..Width
  BY <1>3, RowsAreWide
<1>7. o = q * Width + (m + 1) - 1
  BY <1>2, <1>5
<1>. QED  BY <1>4, <1>5, <1>6, <1>7

\* A line further up.
LEMMA RowAbove ==
  ASSUME NEW o \in Nat
  PROVE  /\ o >= Width => /\ o - Width \in Nat /\ (o - Width) \div Width = (o \div Width) - 1
                          /\ (o - Width) % Width = o % Width /\ o \div Width > 0
         /\ o < Width => o \div Width = 0 /\ o % Width = o
<1>. PICK q \in Nat, m \in 0 .. Width - 1 : q = o \div Width /\ m = o % Width
  BY Division
<1>1. o = q * Width + m
  BY Division
<1>2. CASE o >= Width
  <2>1. q > 0
    BY <1>1, <1>2, RowsAreWide
  <2>2. o - Width = (q - 1) * Width + m /\ q - 1 \in Nat
    BY <1>1, <2>1, RowsAreWide
  <2>3. o - Width \in Nat
    BY <1>2, RowsAreWide
  <2>4. (o - Width) \div Width = q - 1 /\ (o - Width) % Width = m
    BY <2>2, DivisionIsUnique
  <2>. QED  BY <1>2, <2>1, <2>3, <2>4, RowsAreWide
<1>3. CASE o < Width
  <2>1. ~(1 <= q)
    BY <1>1, <1>3, RowsAreWide
  <2>2. q = 0
    BY <2>1
  <2>. QED  BY <1>1, <1>3, <2>2, RowsAreWide
<1>. QED  BY <1>2, <1>3, RowsAreWide
------------------------------------------------------------------------------
LEMMA LinesAreTyped ==
  ASSUME NEW cells \in [0..Last -> TtyCells]
  PROVE  LinesOf(cells) \in [1..Height -> [1..Width -> TtyCells]]
BY PlaceIsOn DEF LinesOf

\* A cell is written at its place and at no other.
LEMMA CellIsWritten ==
  ASSUME NEW cells \in [0..Last -> TtyCells], NEW o \in 0..Last, NEW cell \in TtyCells
  PROVE  LinesOf([cells EXCEPT ![o] = cell]) =
           [LinesOf(cells) EXCEPT ![PlaceAt(o).row][PlaceAt(o).col] = cell]
<1>. DEFINE row == PlaceAt(o).row
            col == PlaceAt(o).col
            at(r, c) == (r - 1) * Width + c - 1
<1>1. row \in 1..Height /\ col \in 1..Width /\ o = at(row, col)
  BY OffsetIsOn
<1>2. \A r \in 1..Height, c \in 1..Width : at(r, c) \in 0..Last /\ (at(r, c) = o => r = row /\ c = col)
  <2>. TAKE r \in 1..Height, c \in 1..Width
  <2>1. at(r, c) \in 0..Last /\ PlaceAt(at(r, c)) = [row |-> r, col |-> c]
    BY PlaceIsOn
  <2>. QED  BY <2>1
<1>. HIDE DEF row, col, at
<1>3. \A cs : LinesOf(cs) = [r \in 1..Height |-> [c \in 1..Width |-> cs[at(r, c)]]]
  BY DEF LinesOf, at
<1>4. ASSUME NEW r \in 1..Height, NEW c \in 1..Width
      PROVE  [cells EXCEPT ![o] = cell][at(r, c)] = IF r = row /\ c = col THEN cell ELSE cells[at(r, c)]
  BY <1>1, <1>2
<1>5. [LinesOf(cells) EXCEPT ![row][col] = cell] =
        [r \in 1..Height |-> [c \in 1..Width |-> IF r = row /\ c = col THEN cell ELSE cells[at(r, c)]]]
  BY <1>1, <1>3
<1>6. LinesOf([cells EXCEPT ![o] = cell]) =
        [r \in 1..Height |-> [c \in 1..Width |-> IF r = row /\ c = col THEN cell ELSE cells[at(r, c)]]]
  <2>. PICK new : new = [cells EXCEPT ![o] = cell]
    OBVIOUS
  <2>1. \A r \in 1..Height : [c \in 1..Width |-> new[at(r, c)]]
                            = [c \in 1..Width |-> IF r = row /\ c = col THEN cell ELSE cells[at(r, c)]]
    BY <1>4
  <2>2. LinesOf(new) = [r \in 1..Height |-> [c \in 1..Width |-> new[at(r, c)]]]
    BY <1>3
  <2>. HIDE <1>4
  <2>. QED  BY <2>1, <2>2
<1>. QED  BY <1>5, <1>6 DEF row, col

MovedCells(cells, theme) ==
  [i \in 0..Last |-> IF i < Size - Width THEN cells[i + Width] ELSE [ch |-> Empty, theme |-> theme]]

LEMMA LinesMoveUp ==
  ASSUME NEW cells \in [0..Last -> TtyCells], NEW theme \in Themes
  PROVE  /\ MovedCells(cells, theme) \in [0..Last -> TtyCells]
         /\ LinesOf(MovedCells(cells, theme)) = Sheet!MovedUp(LinesOf(cells), theme)
<1>. DEFINE at(r, c) == (r - 1) * Width + c - 1
            blank == [ch |-> Empty, theme |-> theme]
            lines == LinesOf(cells)
            empty == [c \in 1..Width |-> blank]
            moved == MovedCells(cells, theme)
<1>1. blank \in TtyCells
  BY DEF TtyCells
<1>2. moved \in [0..Last -> TtyCells]
  <2>1. \A i \in 0..Last : i < Size - Width => i + Width \in 0..Last
    BY RowsAreWide DEF Last
  <2>. QED  BY <1>1, <2>1 DEF MovedCells
<1>3. ASSUME NEW r \in 1..Height, NEW c \in 1..Width
      PROVE  moved[at(r, c)] = IF r < Height THEN cells[at(r + 1, c)] ELSE blank
  <2>1. at(r, c) \in 0..Last /\ r \in Int /\ c \in Int
    <3>1. at(r, c) \in 0..Last
      BY PlaceIsOn
    <3>. QED  BY <3>1, RowsAreWide
  <2>2. CASE r < Height
    <3>1. r + 1 \in 1..Height
      BY <2>2, RowsAreWide
    <3>2. at(r + 1, c) \in 0..Last
      BY <3>1, PlaceIsOn
    <3>3. at(r + 1, c) = at(r, c) + Width
      <4>1. (r + 1) - 1 = r /\ (r - 1) * Width = r * Width - Width /\ r * Width \in Int
        BY <2>1, RowsAreWide
      <4>. QED  BY <2>1, <4>1, RowsAreWide
    <3>. HIDE DEF at
    <3>4. at(r, c) < Size - Width
      BY <2>1, <3>2, <3>3, RowsAreWide DEF Last
    <3>. QED  BY <2>1, <2>2, <3>3, <3>4 DEF MovedCells
  <2>3. CASE r = Height
    <3>1. (r - 1) * Width = Size - Width
      BY <2>1, <2>3, RowsAreWide
    <3>2. ~(at(r, c) < Size - Width)
      BY <2>1, <3>1, RowsAreWide
    <3>. QED  BY <2>1, <2>3, <3>2 DEF MovedCells
  <2>. QED  BY <2>2, <2>3, RowsAreWide
<1>4. lines \in Seq([1..Width -> TtyCells]) /\ Len(lines) = Height
  BY LinesAreTyped, RowsAreWide
<1>5. empty \in [1..Width -> TtyCells]
  BY <1>1
<1>6. ASSUME NEW r \in 1..Height, r < Height, NEW c \in 1..Width
      PROVE  lines[r + 1][c] = cells[at(r + 1, c)]
  <2>1. r + 1 \in 1..Height
    BY <1>6, RowsAreWide
  <2>. QED  BY <2>1 DEF LinesOf
<1>7. LinesOf(moved) \in Seq([1..Width -> TtyCells]) /\ Len(LinesOf(moved)) = Height
  BY <1>2, LinesAreTyped, RowsAreWide
<1>8. \A r \in 1..Height : LinesOf(moved)[r] = [c \in 1..Width |-> moved[at(r, c)]]
  BY DEF LinesOf
<1>9. \A r \in 1..Height : LinesOf(moved)[r] \in [1..Width -> TtyCells] /\ lines[r] \in [1..Width -> TtyCells]
  BY <1>2, LinesAreTyped
<1>. HIDE DEF lines, empty, moved, at, blank
<1>10. ASSUME NEW r \in 1..Height
       PROVE  LinesOf(moved)[r] = IF r < Height THEN lines[r + 1] ELSE empty
  <2>1. CASE r < Height
    <3>1. r + 1 \in 1..Height
      BY <2>1, RowsAreWide
    <3>2. lines[r + 1] = [c \in 1..Width |-> cells[at(r + 1, c)]]
      BY <1>6, <1>9, <2>1, <3>1
    <3>. QED  BY <1>3, <1>8, <2>1, <3>2
  <2>2. CASE ~(r < Height)
    BY <1>3, <1>8, <2>2 DEF empty
  <2>. QED  BY <2>1, <2>2
<1>11. Tail(lines) \in Seq([1..Width -> TtyCells]) /\ Len(Tail(lines)) = Height - 1
       /\ \A r \in 1..Height - 1 : Tail(lines)[r] = lines[r + 1]
  BY <1>4, RowsAreWide
<1>12. /\ Append(Tail(lines), empty) \in Seq([1..Width -> TtyCells])
       /\ Len(Append(Tail(lines), empty)) = Height
       /\ \A r \in 1..Height - 1 : Append(Tail(lines), empty)[r] = lines[r + 1]
       /\ Append(Tail(lines), empty)[Height] = empty
  BY <1>5, <1>11, RowsAreWide
<1>13. \A r \in 1..Height : LinesOf(moved)[r] = Append(Tail(lines), empty)[r]
  BY <1>10, <1>12, RowsAreWide
<1>14. LinesOf(moved) = Append(Tail(lines), empty)
  BY <1>7, <1>12, <1>13, SeqEqual
<1>. QED  BY <1>2, <1>14 DEF Sheet!MovedUp, moved, lines, empty, blank
------------------------------------------------------------------------------
\* The terminals that a call has between its steps: the offset may be below the screen.
Ttys == [cells : [0..Last -> TtyCells], offset : 0..Size, vga : 0..Last, theme : Themes]

LEMMA CursorGoes ==
  ASSUME NEW t \in Ttys, NEW o \in 0..Last
  PROVE  /\ SetCursor(t, o % Width, o \div Width) =
              [cells |-> t.cells, offset |-> o, vga |-> o, theme |-> t.theme]
         /\ o \in 0..Size /\ o \in Nat
<1>1. o \in Nat /\ o < Size /\ o \in 0..Size
  BY RowsAreWide DEF Last
<1>2. (o \div Width) * Width + (o % Width) = o
  BY <1>1, Division
<1>3. ~(o >= Size)
  BY <1>1, RowsAreWide
<1>. QED  BY <1>1, <1>2, <1>3 DEF SetCursor, Ttys

LEMMA CursorStays ==
  ASSUME NEW t \in Ttys, t.vga = t.offset, NEW x \in Nat, NEW y \in Nat
  PROVE  \E o \in 0..Last : SetCursor(t, x, y) =
            [cells |-> t.cells, offset |-> o, vga |-> o, theme |-> t.theme]
<1>1. y * Width + x \in Nat
  BY RowsAreWide
<1>2. CASE y * Width + x >= Size
  <2>1. t.offset \in 0..Last /\ t = [cells |-> t.cells, offset |-> t.offset, vga |-> t.offset, theme |-> t.theme]
    BY DEF Ttys
  <2>. QED  BY <1>2, <2>1 DEF SetCursor
<1>3. CASE ~(y * Width + x >= Size)
  <2>1. y * Width + x \in 0..Last
    BY <1>1, <1>3, RowsAreWide DEF Last
  <2>. QED  BY <1>3, <2>1 DEF SetCursor, Ttys
<1>. QED  BY <1>2, <1>3

\* Where the offset is after the lines have moved up.
Above(o) == IF o >= Width THEN o - Width ELSE 0

LEMMA ScrollIs ==
  ASSUME NEW t \in Ttys
  PROVE  /\ Above(t.offset) \in 0..Last
         /\ ScrollUp(t) = [cells |-> MovedCells(t.cells, t.theme), offset |-> Above(t.offset),
                           vga |-> Above(t.offset), theme |-> t.theme]
         /\ PlaceAt(Above(t.offset)) =
              IF PlaceAt(t.offset).row > 1
              THEN [row |-> PlaceAt(t.offset).row - 1, col |-> PlaceAt(t.offset).col]
              ELSE [row |-> 1, col |-> 1]
<1>. DEFINE u == [t EXCEPT !.cells = MovedCells(t.cells, t.theme)]
<1>. PICK o \in Nat : o = t.offset
  BY DEF Ttys
<1>1. o \in Nat /\ o <= Size /\ Size > Width /\ Width \in Nat /\ Width > 0 /\ Size \in Nat
  <2>1. Width <= 2 * Width /\ 2 * Width <= Height * Width /\ 2 * Width = Width + Width
    BY RowsAreWide
  <2>. QED  BY <2>1, RowsAreWide DEF Ttys
<1>2. Above(o) \in 0..Last
  BY <1>1 DEF Above, Last
<1>3. u \in Ttys
  BY LinesMoveUp DEF Ttys
<1>4. /\ o \div Width > 0 => Above(o) % Width = o % Width /\ Above(o) \div Width = (o \div Width) - 1
      /\ ~(o \div Width > 0) => Above(o) = 0 /\ 0 % Width = 0 /\ 0 \div Width = 0
  BY <1>1, RowAbove DEF Above
<1>5. SetCursor(u, Above(o) % Width, Above(o) \div Width) =
        [cells |-> u.cells, offset |-> Above(o), vga |-> Above(o), theme |-> u.theme]
  <2>. HIDE DEF u
  <2>. QED  BY <1>2, <1>3, CursorGoes
<1>6. ScrollUp(t) = SetCursor(u, Above(o) % Width, Above(o) \div Width)
  BY <1>4 DEF ScrollUp, X, Y, MovedCells
<1>7. u.cells = MovedCells(t.cells, t.theme) /\ u.theme = t.theme
  BY DEF Ttys
<1>8. PlaceAt(Above(o)) = IF PlaceAt(o).row > 1
                          THEN [row |-> PlaceAt(o).row - 1, col |-> PlaceAt(o).col] ELSE [row |-> 1, col |-> 1]
  <2>1. PICK q \in Nat : q = o \div Width
    BY Division
  <2>2. PICK a \in Nat : a = Above(o) \div Width
    BY <1>2, Division
  <2>3. (q + 1 > 1) = (q > 0) /\ (q + 1) - 1 = q /\ (q - 1) + 1 = q
    OBVIOUS
  <2>. QED  BY <1>4, <2>1, <2>3 DEF PlaceAt
<1>. QED  BY <1>2, <1>5, <1>6, <1>7, <1>8

\* What the last steps of ttyPutChar make of a screen: the cursor is shown, and at the
\* last cell the lines move up.
LEMMA PutSettles ==
  ASSUME NEW t \in Ttys, t.offset > 0
  PROVE  LET s == Settled(t)
             u == SetCursor(s, X(s), Y(s))
             cells == IF t.offset >= Last THEN MovedCells(t.cells, t.theme) ELSE t.cells
             o == IF t.offset >= Last THEN t.offset - 2 * Width ELSE t.offset
         IN  /\ o \in 0..Last
             /\ u = [cells |-> cells, offset |-> o, vga |-> o, theme |-> t.theme]
             /\ Sheet!Beyond(PlaceAt(t.offset)) <=> t.offset >= Last
             /\ t.offset >= Last => PlaceAt(o) = [row |-> PlaceAt(t.offset).row - 2, col |-> PlaceAt(t.offset).col]
<1>. DEFINE s == Settled(t)
            u == SetCursor(s, X(s), Y(s))
            cells == IF t.offset >= Last THEN MovedCells(t.cells, t.theme) ELSE t.cells
            last == IF t.offset >= Last THEN t.offset - 2 * Width ELSE t.offset
<1>. PICK o \in Nat : o = t.offset
  BY DEF Ttys
<1>1. /\ o <= Size /\ Width \in Nat /\ Width > 0 /\ Height \in Nat /\ Size \in Nat /\ Last = Size - 1
      /\ 2 * Width = Width + Width /\ Size >= (Width + Width) + Width
  <2>1. 3 * Width <= Height * Width /\ 3 * Width = (Width + Width) + Width
    BY RowsAreWide
  <2>. QED  BY <2>1, RowsAreWide DEF Ttys, Last
<1>2. last \in 0..Last
  BY <1>1
<1>3. s \in Ttys /\ s = [cells |-> cells, offset |-> last, vga |-> s.vga, theme |-> t.theme]
  <2>1. CASE o >= Last
    <3>1. Above(o) = o - Width /\ Above(o) - Width = last
      BY <1>1, <2>1 DEF Above
    <3>2. ScrollUp(t) = [cells |-> MovedCells(t.cells, t.theme), offset |-> Above(o), vga |-> Above(o), theme |-> t.theme]
          /\ Above(o) \in 0..Last
      BY ScrollIs
    <3>3. s = [cells |-> cells, offset |-> last, vga |-> Above(o), theme |-> t.theme]
      BY <2>1, <3>1, <3>2 DEF Settled
    <3>4. cells \in [0..Last -> TtyCells] /\ t.theme \in Themes
      BY <2>1, LinesMoveUp DEF Ttys
    <3>5. last \in 0..Size
      BY <1>1, <1>2
    <3>. HIDE DEF s, cells, last
    <3>. QED  BY <3>2, <3>3, <3>4, <3>5 DEF Ttys
  <2>2. CASE ~(o >= Last)
    BY <2>2 DEF Settled, Ttys
  <2>. QED  BY <2>1, <2>2
<1>4. u = [cells |-> cells, offset |-> last, vga |-> last, theme |-> t.theme]
  <2>. HIDE DEF s, cells, last
  <2>1. u = SetCursor(s, last % Width, last \div Width)
    BY <1>3 DEF X, Y
  <2>2. u = [cells |-> s.cells, offset |-> last, vga |-> last, theme |-> s.theme]
    BY <1>2, <1>3, <2>1, CursorGoes
  <2>. HIDE DEF u
  <2>. QED  BY <1>3, <2>2
<1>5. Sheet!Beyond(PlaceAt(o)) <=> o >= Last
  <2>1. CASE o < Last
    <3>1. o \in 0..Last
      BY <1>1, <2>1
    <3>2. PlaceAt(o).row \in 1..Height /\ o = (PlaceAt(o).row - 1) * Width + PlaceAt(o).col - 1
      BY <3>1, OffsetIsOn
    <3>3. (Height - 1) * Width + Width - 1 = Last
      BY <1>1, RowsAreWide
    <3>4. PlaceAt(o) # [row |-> Height, col |-> Width]
      BY <2>1, <3>2, <3>3
    <3>. QED  BY <1>1, <2>1, <3>2, <3>4 DEF Sheet!Beyond, Sheet!Place
  <2>2. CASE o = Last
    <3>1. (Height - 1) * Width + Width - 1 = o /\ Height \in 1..Height /\ Width \in 1..Width
      BY <1>1, <2>2, RowsAreWide
    <3>2. PlaceAt(o) = [row |-> Height, col |-> Width]
      BY <3>1, PlaceIsOn
    <3>. QED  BY <1>1, <2>2, <3>2 DEF Sheet!Beyond, Sheet!Place
  <2>3. CASE o = Size
    <3>1. 0 \in 0 .. Width - 1 /\ Height * Width + 0 = o
      BY <1>1, <2>3, RowsAreWide
    <3>2. o \div Width = Height
      BY <1>1, <3>1, DivisionIsUnique
    <3>3. PlaceAt(o).row = Height + 1
      BY <3>2 DEF PlaceAt
    <3>. QED  BY <1>1, <2>3, <3>3 DEF Sheet!Beyond
  <2>. QED  BY <1>1, <2>1, <2>2, <2>3
<1>6. ASSUME o >= Last
      PROVE  PlaceAt(last) = [row |-> PlaceAt(o).row - 2, col |-> PlaceAt(o).col]
  <2>1. PICK m \in Nat : m = o - Width
    BY <1>1, <1>6
  <2>2. o >= Width /\ m >= Width /\ last = m - Width
    BY <1>1, <1>6, <2>1
  <2>. HIDE DEF last
  <2>3. PICK q \in Nat : q = o \div Width
    BY Division
  <2>4. m \div Width = q - 1 /\ m % Width = o % Width
    BY <2>1, <2>2, <2>3, RowAbove
  <2>5. last \div Width = (m \div Width) - 1 /\ last % Width = m % Width
    BY <2>2, RowAbove
  <2>6. ((q - 1) - 1) + 1 = (q + 1) - 2
    OBVIOUS
  <2>. QED  BY <2>3, <2>4, <2>5, <2>6 DEF PlaceAt
<1>. QED  BY <1>2, <1>4, <1>5, <1>6
------------------------------------------------------------------------------
\* The place moves, and the lines if it is beyond the sheet.
LEMMA SettledGoes ==
  ASSUME NEW t \in Ttys, t.offset > 0, done' = "put",
         tty' = SetCursor(Settled(t), X(Settled(t)), Y(Settled(t)))
  PROVE  TtyInv' /\ Sheet!Go(LinesOf(t.cells), PlaceAt(t.offset))
<1>. DEFINE s == Settled(t)
            cells == IF t.offset >= Last THEN MovedCells(t.cells, t.theme) ELSE t.cells
            last == IF t.offset >= Last THEN t.offset - 2 * Width ELSE t.offset
<1>1. tty' = SetCursor(s, X(s), Y(s))
  OBVIOUS
<1>2. /\ last \in 0..Last /\ tty' = [cells |-> cells, offset |-> last, vga |-> last, theme |-> t.theme]
      /\ Sheet!Beyond(PlaceAt(t.offset)) <=> t.offset >= Last
      /\ t.offset >= Last => PlaceAt(last) = [row |-> PlaceAt(t.offset).row - 2, col |-> PlaceAt(t.offset).col]
  BY <1>1, PutSettles
<1>3. cells \in [0..Last -> TtyCells] /\ t.theme \in Themes
  BY LinesMoveUp DEF Ttys
<1>. HIDE DEF s, cells, last
<1>4. TtyInv'
  BY <1>2, <1>3 DEF TtyInv
<1>5. t.offset >= Last => LinesOf(tty'.cells) = Sheet!MovedUp(LinesOf(t.cells), t.theme)
  BY <1>2, LinesMoveUp DEF cells, Ttys
<1>6. ~(t.offset >= Last) => LinesOf(tty'.cells) = LinesOf(t.cells) /\ last = t.offset
  BY <1>2 DEF cells, last
<1>7. PlaceAt(tty'.vga) = PlaceAt(tty'.offset) /\ PlaceAt(tty'.offset) = PlaceAt(last)
  BY <1>2
<1>8. Sheet!Go(LinesOf(t.cells), PlaceAt(t.offset))
  <2>0. PlaceAt(last).row \in 1..Height /\ PlaceAt(last) = [row |-> PlaceAt(last).row, col |-> PlaceAt(last).col]
    BY <1>2, OffsetIsOn DEF PlaceAt
  <2>1. CASE t.offset >= Last
    <3>1. PICK row \in 1..Height : row = PlaceAt(last).row
      BY <2>0
    <3>2. PlaceAt(t.offset).row \in Int
      <4>. PICK o \in Nat : o = t.offset
        BY DEF Ttys
      <4>1. o \div Width \in Nat
        BY Division
      <4>. QED  BY <4>1 DEF PlaceAt
    <3>3. row < PlaceAt(t.offset).row /\ PlaceAt(last) = [row |-> row, col |-> PlaceAt(t.offset).col]
      BY <1>2, <2>1, <3>1, <3>2
    <3>4. Sheet!Beyond(PlaceAt(t.offset)) /\ PlaceAt(tty'.offset) = Sheet!Place(row, PlaceAt(t.offset).col)
      BY <1>2, <1>7, <2>1, <3>3 DEF Sheet!Place
    <3>. QED  BY <1>3, <1>5, <1>7, <2>1, <3>3, <3>4 DEF Sheet!Go, LinesOf
  <2>2. CASE ~(t.offset >= Last)
    BY <1>2, <1>6, <1>7, <2>0, <2>2 DEF Sheet!Go, LinesOf
  <2>. QED  BY <2>1, <2>2
<1>. QED  BY <1>4, <1>8

\* The place after a character, and the start of the next line.
LEMMA NextPlaces ==
  ASSUME NEW o \in 0..Last
  PROVE  /\ o + 1 \in 0..Size /\ o + 1 > 0 /\ PlaceAt(o + 1) = Sheet!Follows(PlaceAt(o))
         /\ ((o \div Width) + 1) * Width \in 0..Size /\ ((o \div Width) + 1) * Width > 0
         /\ PlaceAt(((o \div Width) + 1) * Width) = Sheet!NextLine(PlaceAt(o))
<1>1. o \in Nat /\ o < Size
  BY RowsAreWide DEF Last
<1>. PICK q \in Nat, m \in 0 .. Width - 1 : q = o \div Width /\ m = o % Width
  BY <1>1, Division
<1>2. PlaceAt(o) = [row |-> q + 1, col |-> m + 1]
  BY DEF PlaceAt
<1>3. o = q * Width + m /\ q + 1 <= Height
  <2>1. q + 1 \in 1..Height
    BY <1>2, OffsetIsOn
  <2>. QED  BY <1>1, <2>1, Division
<1>4. q * Width \in Nat /\ (q + 1) * Width = q * Width + Width /\ (q + 1) * Width <= Size
  BY <1>3, RowsAreWide
<1>5. PlaceAt((q + 1) * Width) = [row |-> q + 2, col |-> 1]
  <2>1. 0 \in 0 .. Width - 1 /\ (q + 1) * Width + 0 = (q + 1) * Width /\ q + 1 \in Nat
    BY <1>4, RowsAreWide
  <2>2. ((q + 1) * Width) \div Width = q + 1 /\ ((q + 1) * Width) % Width = 0
    BY <2>1, DivisionIsUnique
  <2>. QED  BY <2>2 DEF PlaceAt
<1>6. PlaceAt(o + 1) = Sheet!Follows(PlaceAt(o))
  <2>1. CASE m + 1 < Width
    <3>1. m + 1 \in 0 .. Width - 1 /\ o + 1 = q * Width + (m + 1)
      BY <1>3, <1>4, <2>1, RowsAreWide
    <3>2. (o + 1) \div Width = q /\ (o + 1) % Width = m + 1
      BY <3>1, DivisionIsUnique
    <3>3. PlaceAt(o + 1) = [row |-> q + 1, col |-> (m + 1) + 1]
      BY <3>2 DEF PlaceAt
    <3>. QED  BY <1>2, <2>1, <3>3 DEF Sheet!Follows, Sheet!Place
  <2>2. CASE m + 1 = Width
    <3>1. o + 1 = (q + 1) * Width
      BY <1>3, <1>4, <2>2, RowsAreWide
    <3>. QED  BY <1>2, <1>5, <2>2, <3>1, RowsAreWide DEF Sheet!Follows, Sheet!Place
  <2>. QED  BY <2>1, <2>2, RowsAreWide
<1>7. Sheet!NextLine(PlaceAt(o)) = [row |-> q + 2, col |-> 1]
  BY <1>2 DEF Sheet!NextLine, Sheet!Place
<1>8. (q + 1) * Width \in 0..Size /\ (q + 1) * Width > 0 /\ o + 1 \in 0..Size /\ o + 1 > 0
  BY <1>1, <1>4, RowsAreWide
<1>. QED  BY <1>5, <1>6, <1>7, <1>8

LEMMA PutIsPut ==
  ASSUME TtyInv, NEW ch \in Printable \cup {NewLine}, NEW theme \in Themes, done' = "put",
         tty' = Put(tty, [ch |-> ch, theme |-> theme])
  PROVE  TtyInv' /\ Sheet!TypeNext
<1>. DEFINE cell == [ch |-> ch, theme |-> theme]
<1>0. PICK t : t = Written(tty, cell)
  OBVIOUS
<1>. PICK o \in 0..Last : o = tty.offset
  BY DEF TtyInv
<1>1. tty \in Ttys /\ tty = [cells |-> tty.cells, offset |-> o, vga |-> tty.vga, theme |-> tty.theme]
  BY RowsAreWide DEF TtyInv, Ttys, Last
<1>2. tty' = SetCursor(Settled(t), X(Settled(t)), Y(Settled(t)))
  BY <1>0 DEF Put
<1>3. CASE ch = NewLine
  <2>1. t = [cells |-> tty.cells, offset |-> ((o \div Width) + 1) * Width, vga |-> tty.vga, theme |-> tty.theme]
    BY <1>0, <1>1, <1>3 DEF Written, Y
  <2>2. t \in Ttys /\ t.offset > 0
    BY <1>1, <2>1, NextPlaces DEF Ttys
  <2>3. PlaceAt(t.offset) = Sheet!NextLine(PlaceAt(o)) /\ t.cells = tty.cells
    BY <2>1, NextPlaces
  <2>4. TtyInv' /\ Sheet!Go(LinesOf(tty.cells), Sheet!NextLine(PlaceAt(o)))
    <3>1. TtyInv' /\ Sheet!Go(LinesOf(t.cells), PlaceAt(t.offset))
      BY <1>2, <2>2, SettledGoes
    <3>. QED  BY <2>3, <3>1 DEF Sheet!Go
  <2>5. Sheet!Break
    BY <2>4 DEF Sheet!Break, Sheet!Go, LinesOf
  <2>. QED  BY <2>4, <2>5 DEF Sheet!TypeNext
<1>4. CASE ch # NewLine
  <2>1. cell \in TtyCells /\ cell \in Sheet!Cells /\ cell.ch # Empty
    BY <1>4, TtyAssumption DEF TtyCells, Sheet!Cells
  <2>2. t = [cells |-> [tty.cells EXCEPT ![o] = cell], offset |-> o + 1, vga |-> tty.vga, theme |-> tty.theme]
    BY <1>0, <1>1, <1>4 DEF Written
  <2>3. tty.cells \in [0..Last -> TtyCells]
    BY DEF TtyInv
  <2>4. [tty.cells EXCEPT ![o] = cell] \in [0..Last -> TtyCells]
    BY <2>1, <2>3
  <2>5. t \in Ttys /\ t.offset > 0
    <3>1. o + 1 \in 0..Size /\ o + 1 > 0
      BY NextPlaces
    <3>2. tty.vga \in 0..Last /\ tty.theme \in Themes
      BY <1>1 DEF Ttys
    <3>. HIDE DEF cell
    <3>. QED  BY <2>2, <2>4, <3>1, <3>2 DEF Ttys
  <2>6. PlaceAt(t.offset) = Sheet!Follows(PlaceAt(o))
    BY <2>2, NextPlaces
  <2>7. LinesOf(t.cells) = [LinesOf(tty.cells) EXCEPT ![PlaceAt(o).row][PlaceAt(o).col] = cell]
    BY <2>1, <2>2, <2>3, CellIsWritten
  <2>. HIDE DEF cell
  <2>8. TtyInv' /\ Sheet!Go([LinesOf(tty.cells) EXCEPT ![PlaceAt(o).row][PlaceAt(o).col] = cell],
                            Sheet!Follows(PlaceAt(o)))
    <3>1. TtyInv' /\ Sheet!Go(LinesOf(t.cells), PlaceAt(t.offset))
      BY <1>2, <2>5, SettledGoes
    <3>. QED  BY <2>6, <2>7, <3>1 DEF Sheet!Go
  <2>9. Sheet!Put
    <3>1. Sheet!Go([LinesOf(tty.cells) EXCEPT ![PlaceAt(tty.offset).row][PlaceAt(tty.offset).col] = cell],
                   Sheet!Follows(PlaceAt(tty.offset)))
      BY <2>8 DEF Sheet!Go
    <3>. QED  BY <2>1, <3>1 DEF Sheet!Put, Sheet!Go, LinesOf
  <2>. QED  BY <2>8, <2>9 DEF Sheet!TypeNext
<1>. QED  BY <1>3, <1>4
------------------------------------------------------------------------------
LEMMA ThemesAre ==
  ASSUME NEW colour
  PROVE  Theme(colour) \in Themes
BY TtyAssumption DEF Theme

\* The screen as the cursor is shown.
LEMMA TtyIs ==
  ASSUME TtyInv
  PROVE  /\ tty \in Ttys /\ tty.offset \in 0..Last /\ tty.vga = tty.offset
         /\ tty.cells \in [0..Last -> TtyCells] /\ tty.theme \in Themes
         /\ tty.offset \in 0..Size /\ tty.offset \in Nat
         /\ tty = [cells |-> tty.cells, offset |-> tty.offset, vga |-> tty.offset, theme |-> tty.theme]
BY RowsAreWide DEF TtyInv, Ttys, Last

LEMMA MoveCursorIsMoveTo ==
  ASSUME TtyInv, NEW p \in Places, MoveCursor(p[1], p[2])
  PROVE  TtyInv' /\ Sheet!TypeNext
<1>1. p[1] \in Nat /\ p[2] \in Nat
  BY TtyAssumption
<1>2. PICK o \in 0..Last : tty' = [cells |-> tty.cells, offset |-> o, vga |-> o, theme |-> tty.theme]
  BY <1>1, TtyIs, CursorStays DEF MoveCursor
<1>3. TtyInv'
  BY <1>2, TtyIs DEF TtyInv
<1>4. PlaceAt(o) = [row |-> PlaceAt(o).row, col |-> PlaceAt(o).col]
      /\ PlaceAt(o).row \in 1..Height /\ PlaceAt(o).col \in 1..Width
  BY OffsetIsOn DEF PlaceAt
<1>5. PlaceAt(tty'.offset) = PlaceAt(o) /\ PlaceAt(tty'.vga) = PlaceAt(o) /\ tty'.cells = tty.cells /\ done' = "move"
  BY <1>2 DEF MoveCursor
<1>6. Sheet!MoveTo
  BY <1>4, <1>5 DEF Sheet!MoveTo, Sheet!Place
<1>. QED  BY <1>3, <1>6 DEF Sheet!TypeNext

\* A cell is written somewhere, and the cursor is back where it was.
LEMMA AtPlaceIsSetOne ==
  ASSUME TtyInv, NEW p \in Places, NEW cell, cell \in TtyCells, AtPlace(p[1], p[2], cell)
  PROVE  TtyInv' /\ Sheet!TypeNext
<1>1. p[1] \in Nat /\ p[2] \in Nat
  BY TtyAssumption
<1>2. PICK o \in 0..Last : SetCursor(tty, p[1], p[2]) = [cells |-> tty.cells, offset |-> o, vga |-> o, theme |-> tty.theme]
  BY <1>1, TtyIs, CursorStays
<1>3. Sent(p[1], p[2]) = o
  BY <1>2 DEF Sent
<1>4. PICK cells : cells = [tty.cells EXCEPT ![o] = cell]
  OBVIOUS
<1>5. cells \in [0..Last -> TtyCells]
  BY <1>4, TtyIs
<1>6. PICK t : t = [cells |-> cells, offset |-> o, vga |-> o, theme |-> tty.theme]
  OBVIOUS
<1>7. t \in Ttys
  <2>1. o \in 0..Size
    BY RowsAreWide DEF Last
  <2>. QED  BY <1>5, <1>6, <2>1, TtyIs DEF Ttys
<1>8. tty' = SetCursor(t, tty.offset % Width, tty.offset \div Width)
  <2>1. [SetCursor(tty, p[1], p[2]) EXCEPT !.cells[Sent(p[1], p[2])] = cell] = t
    BY <1>2, <1>3, <1>4, <1>6
  <2>. QED  BY <2>1 DEF AtPlace, X, Y
<1>9. tty' = [cells |-> cells, offset |-> tty.offset, vga |-> tty.offset, theme |-> tty.theme]
  <2>1. PICK a \in 0..Last : a = tty.offset
    BY TtyIs
  <2>2. SetCursor(t, a % Width, a \div Width) = [cells |-> t.cells, offset |-> a, vga |-> a, theme |-> t.theme]
    BY <1>7, CursorGoes
  <2>. QED  BY <1>6, <1>8, <2>1, <2>2
<1>10. TtyInv'
  BY <1>5, <1>9, TtyIs DEF TtyInv
<1>11. LinesOf(tty'.cells) = [LinesOf(tty.cells) EXCEPT ![PlaceAt(o).row][PlaceAt(o).col] = cell]
  <2>1. LinesOf(cells) = [LinesOf(tty.cells) EXCEPT ![PlaceAt(o).row][PlaceAt(o).col] = cell]
    BY <1>4, TtyIs, CellIsWritten
  <2>. QED  BY <1>9, <2>1
<1>12. PlaceAt(tty'.offset) = PlaceAt(tty.offset) /\ PlaceAt(tty'.vga) = PlaceAt(tty.vga)
  BY <1>9, TtyIs
<1>13. PlaceAt(o).row \in 1..Height /\ PlaceAt(o).col \in 1..Width /\ cell \in Sheet!Cells /\ done' = "edit"
  BY OffsetIsOn DEF TtyCells, Sheet!Cells, AtPlace
<1>14. Sheet!SetOne
  <2>1. PICK row \in 1..Height, col \in 1..Width : row = PlaceAt(o).row /\ col = PlaceAt(o).col
    BY <1>13
  <2>2. LinesOf(tty'.cells) = [LinesOf(tty.cells) EXCEPT ![row][col] = cell]
    BY <1>11, <2>1
  <2>3. done' = "edit" /\ UNCHANGED <<PlaceAt(tty.offset), PlaceAt(tty.vga)>>
    BY <1>12, <1>13
  <2>. cell \in Sheet!Cells
    BY <1>13
  <2>. SUFFICES \E r \in 1..Height, c \in 1..Width, d \in Sheet!Cells :
         /\ done' = "edit" /\ UNCHANGED <<PlaceAt(tty.offset), PlaceAt(tty.vga)>>
         /\ LinesOf(tty'.cells) = [LinesOf(tty.cells) EXCEPT ![r][c] = d]
    BY DEF Sheet!SetOne, Sheet!Edit, LinesOf
  <2>. WITNESS row \in 1..Height, col \in 1..Width, cell \in Sheet!Cells
  <2>. QED  BY <2>2, <2>3
<1>. QED  BY <1>10, <1>14 DEF Sheet!TypeNext

LEMMA PlaceIsEdited ==
  ASSUME TtyInv, NEW p \in Places
  PROVE  /\ \A c \in Printable : SetChar(p[1], p[2], c) => TtyInv' /\ Sheet!TypeNext
         /\ \A colour \in Colours : SetTheme(p[1], p[2], colour) => TtyInv' /\ Sheet!TypeNext
<1>1. p[1] \in Nat /\ p[2] \in Nat
  BY TtyAssumption
<1>2. PICK o \in 0..Last : SetCursor(tty, p[1], p[2]) = [cells |-> tty.cells, offset |-> o, vga |-> o, theme |-> tty.theme]
  BY <1>1, TtyIs, CursorStays
<1>3. tty.cells[Sent(p[1], p[2])] \in TtyCells
  <2>1. Sent(p[1], p[2]) = o
    BY <1>2 DEF Sent
  <2>. QED  BY <2>1, TtyIs
<1>4. ASSUME NEW c \in Printable, SetChar(p[1], p[2], c)
      PROVE  TtyInv' /\ Sheet!TypeNext
  <2>1. PICK cell : cell = [tty.cells[Sent(p[1], p[2])] EXCEPT !.ch = c]
    OBVIOUS
  <2>2. cell \in TtyCells /\ AtPlace(p[1], p[2], cell)
    BY <1>3, <1>4, <2>1 DEF SetChar, TtyCells
  <2>. QED  BY <2>2, AtPlaceIsSetOne
<1>5. ASSUME NEW colour \in Colours, SetTheme(p[1], p[2], colour)
      PROVE  TtyInv' /\ Sheet!TypeNext
  <2>1. PICK cell : cell = [tty.cells[Sent(p[1], p[2])] EXCEPT !.theme = Theme(colour)]
    OBVIOUS
  <2>2. cell \in TtyCells /\ AtPlace(p[1], p[2], cell)
    BY <1>3, <1>5, <2>1, ThemesAre DEF SetTheme, TtyCells
  <2>. QED  BY <2>2, AtPlaceIsSetOne
<1>. QED  BY <1>4, <1>5

LEMMA ScrollIsScroll ==
  ASSUME TtyInv, ScrollScreen
  PROVE  TtyInv' /\ Sheet!TypeNext
<1>1. PICK o : o = Above(tty.offset)
  OBVIOUS
<1>2. /\ o \in 0..Last
      /\ tty' = [cells |-> MovedCells(tty.cells, tty.theme), offset |-> o, vga |-> o, theme |-> tty.theme]
      /\ PlaceAt(o) = IF PlaceAt(tty.offset).row > 1
                      THEN [row |-> PlaceAt(tty.offset).row - 1, col |-> PlaceAt(tty.offset).col]
                      ELSE [row |-> 1, col |-> 1]
  BY <1>1, TtyIs, ScrollIs DEF ScrollScreen
<1>3. /\ MovedCells(tty.cells, tty.theme) \in [0..Last -> TtyCells]
      /\ LinesOf(MovedCells(tty.cells, tty.theme)) = Sheet!MovedUp(LinesOf(tty.cells), tty.theme)
  BY TtyIs, LinesMoveUp
<1>4. TtyInv'
  BY <1>2, <1>3, TtyIs DEF TtyInv
<1>5. /\ LinesOf(tty'.cells) = Sheet!MovedUp(LinesOf(tty.cells), tty.theme) /\ tty.theme \in Themes
      /\ PlaceAt(tty'.offset) = PlaceAt(o) /\ PlaceAt(tty'.vga) = PlaceAt(o) /\ done' = "scroll"
  BY <1>2, <1>3, TtyIs DEF ScrollScreen
<1>6. Sheet!Scroll
  BY <1>2, <1>5 DEF Sheet!Scroll, Sheet!Place, LinesOf
<1>. QED  BY <1>4, <1>6 DEF Sheet!TypeNext

LEMMA ClearIsClear ==
  ASSUME TtyInv, ClearScreen
  PROVE  TtyInv' /\ Sheet!TypeNext
<1>1. PICK cells : cells = [i \in 0..Last |-> [tty.cells[i] EXCEPT !.ch = Empty]]
  OBVIOUS
<1>2. cells \in [0..Last -> TtyCells]
  BY <1>1, TtyIs DEF TtyCells
<1>3. PICK t : t = [tty EXCEPT !.cells = cells]
  OBVIOUS
<1>4. t \in Ttys /\ t.cells = cells /\ t.theme = tty.theme
  BY <1>2, <1>3, TtyIs DEF Ttys
<1>5. 0 \in 0..Last /\ 0 % Width = 0 /\ 0 \div Width = 0
  <2>1. 1 * Width <= Height * Width /\ 1 * Width = Width
    BY RowsAreWide
  <2>2. 0 \in 0..Last /\ 0 < Width /\ 0 \in Nat
    BY <2>1, RowsAreWide DEF Last
  <2>. QED  BY <2>2, RowAbove
<1>6. tty' = [cells |-> cells, offset |-> 0, vga |-> 0, theme |-> tty.theme]
  <2>1. tty' = SetCursor(t, 0, 0)
    BY <1>1, <1>3 DEF ClearScreen
  <2>2. SetCursor(t, 0 % Width, 0 \div Width) = [cells |-> t.cells, offset |-> 0, vga |-> 0, theme |-> t.theme]
    BY <1>4, <1>5, CursorGoes
  <2>. QED  BY <1>4, <1>5, <2>1, <2>2
<1>7. TtyInv'
  BY <1>2, <1>5, <1>6, TtyIs DEF TtyInv
<1>8. PlaceAt(tty'.offset) = [row |-> 1, col |-> 1] /\ PlaceAt(tty'.vga) = [row |-> 1, col |-> 1] /\ done' = "clear"
  BY <1>5, <1>6 DEF PlaceAt, ClearScreen
<1>9. LinesOf(tty'.cells) = [r \in 1..Height |-> [c \in 1..Width |-> [LinesOf(tty.cells)[r][c] EXCEPT !.ch = Empty]]]
  BY <1>1, <1>6, PlaceIsOn DEF LinesOf
<1>10. Sheet!Clear
  BY <1>8, <1>9 DEF Sheet!Clear, Sheet!Place, LinesOf
<1>. QED  BY <1>7, <1>10 DEF Sheet!TypeNext

LEMMA GlobalThemeIsPaint ==
  ASSUME TtyInv, NEW colour \in Colours, SetGlobalTheme(colour)
  PROVE  TtyInv' /\ Sheet!TypeNext
<1>1. PICK theme \in Themes : theme = Theme(colour)
  BY ThemesAre
<1>2. PICK cells : cells = [i \in 0..Last |-> [tty.cells[i] EXCEPT !.theme = theme]]
  OBVIOUS
<1>3. cells \in [0..Last -> TtyCells]
  BY <1>2, TtyIs DEF TtyCells
<1>4. tty' = [cells |-> cells, offset |-> tty.offset, vga |-> tty.offset, theme |-> theme]
  <2>1. tty' = [tty EXCEPT !.cells = cells, !.theme = theme]
    BY <1>1, <1>2 DEF SetGlobalTheme
  <2>. QED  BY <2>1, TtyIs
<1>5. TtyInv'
  BY <1>3, <1>4, TtyIs DEF TtyInv
<1>6. PlaceAt(tty'.offset) = PlaceAt(tty.offset) /\ PlaceAt(tty'.vga) = PlaceAt(tty.vga) /\ done' = "edit"
  BY <1>4, TtyIs DEF SetGlobalTheme
<1>7. LinesOf(tty'.cells) = [r \in 1..Height |-> [c \in 1..Width |-> [LinesOf(tty.cells)[r][c] EXCEPT !.theme = theme]]]
  BY <1>2, <1>4, PlaceIsOn DEF LinesOf
<1>8. Sheet!Paint
  BY <1>6, <1>7 DEF Sheet!Paint, Sheet!Edit, LinesOf
<1>. QED  BY <1>5, <1>8 DEF Sheet!TypeNext

LEMMA CharIsPut ==
  ASSUME TtyInv, NEW c \in Printable \cup Unprintable \cup {NewLine}
  PROVE  /\ PutChar(c) => TtyInv' /\ Sheet!TypeNext
         /\ \A colour \in Colours : PutColoured(c, colour) => TtyInv' /\ Sheet!TypeNext
<1>1. Shown(c) \in Printable \cup {NewLine}
  BY TtyAssumption DEF Shown
<1>2. tty.cells[tty.offset].theme \in Themes
  BY TtyIs DEF TtyCells
<1>3. ASSUME PutChar(c) PROVE TtyInv' /\ Sheet!TypeNext
  <2>1. PICK ch, theme : ch = Shown(c) /\ theme = tty.cells[tty.offset].theme
    OBVIOUS
  <2>. QED  BY <1>1, <1>2, <1>3, <2>1, PutIsPut DEF PutChar
<1>4. ASSUME NEW colour \in Colours, PutColoured(c, colour) PROVE TtyInv' /\ Sheet!TypeNext
  BY <1>1, <1>4, ThemesAre, PutIsPut DEF PutColoured
<1>. QED  BY <1>3, <1>4

LEMMA TtyInitHolds ==
  ASSUME TtyInit
  PROVE  TtyInv /\ Sheet!TypeInit
<1>1. PICK old \in Themes :
       tty = [cells |-> [i \in 0..Last |-> [ch |-> Empty, theme |-> old]],
              offset |-> 0, vga |-> 0, theme |-> DefaultTheme]
  BY DEF TtyInit
<1>2. 0 \in 0..Last /\ 0 % Width = 0 /\ 0 \div Width = 0
  <2>1. 1 * Width <= Height * Width /\ 1 * Width = Width
    BY RowsAreWide
  <2>2. 0 \in 0..Last /\ 0 < Width /\ 0 \in Nat
    BY <2>1, RowsAreWide DEF Last
  <2>. QED  BY <2>2, RowAbove
<1>3. tty.cells \in [0..Last -> TtyCells]
  BY <1>1 DEF TtyCells
<1>4. TtyInv
  BY <1>1, <1>2, <1>3, TtyAssumption DEF TtyInv
<1>5. PlaceAt(tty.offset) = [row |-> 1, col |-> 1] /\ PlaceAt(tty.vga) = [row |-> 1, col |-> 1]
  BY <1>1, <1>2 DEF PlaceAt
<1>6. LinesOf(tty.cells) \in [1..Height -> [1..Width -> [ch : {Empty}, theme : Themes]]]
  BY <1>1, PlaceIsOn DEF LinesOf
<1>7. Sheet!TypeInit
  BY <1>5, <1>6 DEF TtyInit, Sheet!TypeInit, Sheet!Place, LinesOf
<1>. QED  BY <1>4, <1>7

LEMMA TtyStep ==
  ASSUME TtyInv, TtyNext
  PROVE  TtyInv' /\ Sheet!TypeNext
BY CharIsPut, MoveCursorIsMoveTo, PlaceIsEdited, ScrollIsScroll, ClearIsClear, GlobalThemeIsPaint DEF TtyNext

\* The terminal is a sheet of lines, whatever the size of its screen: no call writes off
\* the screen or a cell that is not its own, the cursor never leaves the screen and is shown
\* where the next character goes, and what scrolls away is the first line (tty.cpp:8-144).
THEOREM ScreenStaysSheet == TtySpec => ScreenIsSheet
<1>1. TtyInit => TtyInv /\ Sheet!TypeInit
  BY TtyInitHolds
<1>2. TtyInv /\ [TtyNext]_ttyVars
        => TtyInv' /\ [Sheet!TypeNext]_<<[r \in 1..Height |-> [c \in 1..Width |-> tty.cells[(r - 1) * Width + c - 1]]],
                                         PlaceAt(tty.offset), PlaceAt(tty.vga), done>>
  <2>1. ASSUME TtyInv, UNCHANGED ttyVars
        PROVE  TtyInv'
    BY <2>1 DEF TtyInv, ttyVars
  <2>. QED  BY <2>1, TtyStep DEF ttyVars
<1>. QED  BY <1>1, <1>2, PTL DEF TtySpec, ScreenIsSheet, Sheet!TypeSpec
------------------------------------------------------------------------------
(***************************************************************************)
(* Interrupts.  An interrupt that returns takes back what lies under the   *)
(* words of its handler: those words lie where the handler's first word    *)
(* says, as long as the handler and all that interrupt it run.             *)
(***************************************************************************)
Words ==
  {"eip", "isr", "cs", "flags", "code", "vector", "word", "esp"} \X (Nat \cup BOOLEAN \cup Points)
Cpus == [eip : {"eip", "isr"} \X (Points \cup Vectors), enabled : BOOLEAN, stack : Seq(Words)]
Codes == {<<>>} \cup {<<<<"code", c>>>> : c \in Nat}
Takes == [was : Cpus, vector : Vectors, code : Codes, handled : BOOLEAN, fn : BOOLEAN]

\* The stack as the processor leaves it when it has taken t.
Pushed(t) ==
  t.was.stack \o <<<<"flags", t.was.enabled>>, <<"cs", 8>>, t.was.eip>> \o t.code

\* What a stack holds of the interrupt: the code that was interrupted, and why.
Holds(s, t) ==
  LET m == Len(t.was.stack)
  IN  /\ s \in Seq(Words) /\ m + 5 < Len(s)
      /\ s[Len(s)] = <<"esp", m + 5>>
      /\ s[m + 5] = <<"vector", t.vector>>
      /\ s[m + 4] = IF t.code = <<>> THEN <<"code", 0>> ELSE t.code[1]
      /\ s[m + 3] = t.was.eip /\ s[m + 2] = <<"cs", 8>> /\ s[m + 1] = <<"flags", t.was.enabled>>
      /\ \A i \in 1 .. m : s[i] = t.was.stack[i]

IntInv ==
  /\ idt = [v \in Vectors |-> Gate(v)]
  /\ cpu \in Cpus /\ taken \in Seq(Takes)
  /\ \A i \in DOMAIN taken : taken[i].code = <<>> <=> NoErrorCode(taken[i].vector)
  /\ \A i \in DOMAIN taken : i # Len(taken) =>
       taken[i].handled = TRUE /\ Holds(taken[i + 1].was.stack, taken[i])
  /\ taken # <<>> =>
       IF LastTaken.handled = TRUE THEN Holds(cpu.stack, LastTaken)
       ELSE cpu.eip = <<"isr", LastTaken.vector>> /\ cpu.stack = Pushed(LastTaken)

LEMMA VectorsAndCodes ==
  Vectors \subseteq Nat /\ Codes \subseteq Seq(Words)
<1>1. Vectors \subseteq Nat
  BY InterruptAssumption
<1>2. ASSUME NEW k \in Nat PROVE <<<<"code", k>>>> \in Seq(Words)
  <2>1. <<"code", k>> \in Words
    BY DEF Words
  <2>. QED  BY <2>1
<1>3. <<>> \in Seq(Words)
  OBVIOUS
<1>. QED  BY <1>1, <1>2, <1>3 DEF Codes

LEMMA EnteredHolds ==
  ASSUME NEW t \in Takes, t.code = <<>> <=> NoErrorCode(t.vector)
  PROVE  Wrapper(Stub(t.vector, Pushed(t))) \in Seq(Words) /\ Holds(Wrapper(Stub(t.vector, Pushed(t))), t)
<1> DEFINE f == <<"flags", t.was.enabled>>
           c == <<"cs", 8>>
           e == t.was.eip
           v == <<"vector", t.vector>>
           w == <<"esp", Len(t.was.stack) + 5>>
           z == <<"code", 0>>
           extra == IF NoErrorCode(t.vector) THEN <<z>> ELSE <<>>
           y == IF t.code = <<>> THEN z ELSE t.code[1]
           st == t.was.stack
           t1 == st \o <<f, c, e>>
           t2 == (t1 \o t.code) \o extra
           s3 == t2 \o <<v>>
           pad == [i \in 1..((-Len(s3)) % 4) + 3 |-> <<"word", 0>>]
           s5 == s3 \o pad
           s == s5 \o <<w>>
<1>1. t.was \in Cpus /\ t.vector \in Vectors /\ t.code \in Codes
  BY DEF Takes
<1>2. st \in Seq(Words) /\ t.was.enabled \in BOOLEAN /\ e \in {"eip", "isr"} \X (Points \cup Vectors)
  BY <1>1 DEF Cpus
<1>3. PICK m \in Nat : m = Len(st)
  BY <1>2
<1>4. f \in Words /\ c \in Words /\ z \in Words /\ <<"word", 0>> \in Words
  BY <1>2 DEF Words
<1>5. v \in Words /\ e \in Words
  <2>1. Vectors \subseteq Nat
    BY InterruptAssumption
  <2>. QED  BY <1>1, <1>2, <2>1 DEF Words
<1>6. w \in Words
  BY <1>3 DEF Words
<1>7. y \in Words /\ ((t.code = <<>> /\ extra = <<y>>) \/ (t.code = <<y>> /\ extra = <<>>))
  <2>1. CASE t.code = <<>>
    BY <1>4, <2>1
  <2>2. CASE t.code # <<>>
    <3>1. PICK k \in Nat : t.code = <<<<"code", k>>>>
      BY <1>1, <2>2 DEF Codes
    <3>2. <<"code", k>> \in Words
      BY DEF Words
    <3>3. t.code[1] = <<"code", k>>
      BY <3>1
    <3>. QED  BY <2>2, <3>1, <3>2, <3>3
  <2>. QED  BY <2>1, <2>2
<1>8. Stub(t.vector, Pushed(t)) = s3
  BY DEF Stub, Pushed
<1>. HIDE DEF f, c, e, v, w, z, extra, y, st
<1>11. /\ t1 \in Seq(Words) /\ Len(t1) = m + 3
       /\ t1[m + 1] = f /\ t1[m + 2] = c /\ t1[m + 3] = e
       /\ \A i \in 1 .. m : t1[i] = st[i]
  BY <1>2, <1>3, <1>4, <1>5
<1>. HIDE DEF t1
<1>12. /\ t2 \in Seq(Words) /\ Len(t2) = m + 4 /\ t2[m + 4] = y
       /\ \A i \in 1 .. m + 3 : t2[i] = t1[i]
  <2>1. t2 = t1 \o <<y>>
    <3>1. CASE t.code = <<>> /\ extra = <<y>>
      BY <1>11, <3>1
    <3>2. CASE t.code = <<y>> /\ extra = <<>>
      BY <1>7, <1>11, <3>2
    <3>. QED  BY <1>7, <3>1, <3>2
  <2>. HIDE DEF t2
  <2>. QED  BY <1>7, <1>11, <2>1
<1>. HIDE DEF t2
<1>13. /\ s3 \in Seq(Words) /\ Len(s3) = m + 5 /\ s3[m + 5] = v
       /\ \A i \in 1 .. m + 4 : s3[i] = t2[i]
  BY <1>5, <1>12
<1>. HIDE DEF s3
<1>14. PICK n \in Nat : n = m + 5
  OBVIOUS
<1>15. PICK k \in Nat : pad \in Seq(Words) /\ k = Len(pad)
  <2>1. \A l \in Nat : (-l) % 4 \in 0 .. 3
    OBVIOUS
  <2>2. PICK d \in Nat : d = ((-Len(s3)) % 4) + 3
    BY <1>13, <1>14, <2>1
  <2>3. [i \in 1 .. d |-> <<"word", 0>>] \in Seq(Words)
    BY <1>4
  <2>. QED  BY <2>2, <2>3
<1>. HIDE DEF pad
<1>16. s5 \in Seq(Words) /\ Len(s5) = n + k /\ \A i \in 1 .. n : s5[i] = s3[i]
  <2>1. s3 \in Seq(Words) /\ Len(s3) = n
    BY <1>13, <1>14
  <2>. QED  BY <1>15, <2>1
<1>. HIDE DEF s5
<1>17. /\ s \in Seq(Words) /\ Len(s) = n + k + 1 /\ s[n + k + 1] = w
       /\ \A i \in 1 .. n + k : s[i] = s5[i]
  BY <1>6, <1>16
<1>. HIDE DEF s
<1>18. \A i \in 1 .. n : s[i] = s3[i]
  BY <1>16, <1>17
<1>19. \A i \in 1 .. m + 4 : s[i] = t2[i]
  BY <1>13, <1>14, <1>18
<1>20. \A i \in 1 .. m + 3 : s[i] = t1[i]
  BY <1>12, <1>19
<1>21. s[m + 5] = v /\ s[m + 4] = y
  BY <1>12, <1>13, <1>14, <1>18, <1>19
<1>22. s[m + 1] = f /\ s[m + 2] = c /\ s[m + 3] = e /\ \A i \in 1 .. m : s[i] = st[i]
  BY <1>11, <1>20
<1>23. Len(s) = n + k + 1 /\ m + 5 < n + k + 1
  BY <1>14, <1>17
<1>24. Wrapper(s3) = s
  <2>1. Len(s3) = Len(st) + 5
    BY <1>3, <1>13 DEF st
  <2>. QED  BY <2>1 DEF Wrapper, pad, w, s, s5, st
<1>25. Stub(t.vector, Pushed(t)) = s3
  BY <1>8 DEF s3
<1>. QED  BY <1>3, <1>17, <1>21, <1>22, <1>23, <1>24, <1>25 DEF Holds, f, c, e, v, w, y, z, st

\* What a stack with an interrupt's frame gives back.
LEMMA HeldGivesBack ==
  ASSUME NEW s \in Seq(Words), NEW t \in Takes, Holds(s, t)
  PROVE  LET top == s[Len(s)][2] IN
         /\ [eip |-> s[top - 2], enabled |-> s[top - 4][2], stack |-> SubSeq(s, 1, top - 5)] = t.was
         /\ s[top] = <<"vector", t.vector>>
         /\ [i \in 1..5 |-> s[top + 1 - i]] =
              <<<<"vector", t.vector>>, IF t.code = <<>> THEN <<"code", 0>> ELSE t.code[1],
                t.was.eip, <<"cs", 8>>, <<"flags", t.was.enabled>>>>
<1>1. t.was \in Cpus
  BY DEF Takes
<1>2. t.was.stack \in Seq(Words) /\ t.was.enabled \in BOOLEAN
  BY <1>1 DEF Cpus
<1>3. PICK m \in Nat : m = Len(t.was.stack)
  BY <1>2
<1>4. PICK top \in Nat : top = m + 5
  OBVIOUS
<1>5. s[Len(s)][2] = top
  BY <1>3, <1>4 DEF Holds
<1>6. /\ s[top] = <<"vector", t.vector>> /\ s[top - 1] = IF t.code = <<>> THEN <<"code", 0>> ELSE t.code[1]
      /\ s[top - 2] = t.was.eip /\ s[top - 3] = <<"cs", 8>> /\ s[top - 4] = <<"flags", t.was.enabled>>
  <2>1. /\ s[m + 5] = <<"vector", t.vector>> /\ s[m + 4] = IF t.code = <<>> THEN <<"code", 0>> ELSE t.code[1]
        /\ s[m + 3] = t.was.eip /\ s[m + 2] = <<"cs", 8>> /\ s[m + 1] = <<"flags", t.was.enabled>>
    BY <1>3 DEF Holds
  <2>2. top = m + 5 /\ top - 1 = m + 4 /\ top - 2 = m + 3 /\ top - 3 = m + 2 /\ top - 4 = m + 1
    BY <1>4
  <2>. QED  BY <2>1, <2>2
<1>7. SubSeq(s, 1, top - 5) = t.was.stack
  <2>1. top - 5 = m /\ m <= Len(s) /\ \A i \in 1 .. m : s[i] = t.was.stack[i]
    BY <1>3, <1>4 DEF Holds
  <2>2. SubSeq(s, 1, m) \in Seq(Words) /\ Len(SubSeq(s, 1, m)) = m
        /\ \A i \in 1 .. m : SubSeq(s, 1, m)[i] = s[i]
    BY <2>1
  <2>. HIDE <1>3
  <2>3. m = Len(t.was.stack)
    BY <1>3
  <2>. QED  BY <1>2, <2>1, <2>2, <2>3, SeqEqual
<1>8. s[top - 4][2] = t.was.enabled
  BY <1>6
<1>9. [eip |-> t.was.eip, enabled |-> t.was.enabled, stack |-> t.was.stack] = t.was
  BY <1>1 DEF Cpus
<1>10. [i \in 1..5 |-> s[top + 1 - i]] = <<s[top], s[top - 1], s[top - 2], s[top - 3], s[top - 4]>>
  <2>1. top + 1 - 1 = top /\ top + 1 - 2 = top - 1 /\ top + 1 - 3 = top - 2
        /\ top + 1 - 4 = top - 3 /\ top + 1 - 5 = top - 4
    OBVIOUS
  <2>. QED  BY <2>1
<1>. QED  BY <1>5, <1>6, <1>7, <1>8, <1>9, <1>10
LEMMA IntInitHolds ==
  ASSUME IntInit
  PROVE  IntInv
<1>1. PICK at \in Points, depth \in 0..3, enabled \in BOOLEAN :
        cpu = [eip |-> <<"eip", at>>, enabled |-> enabled, stack |-> [i \in 1..depth |-> <<"word", 0>>]]
  BY DEF IntInit
<1>2. [i \in 1..depth |-> <<"word", 0>>] \in Seq(Words)
  <2>1. <<"word", 0>> \in Words
    BY DEF Words
  <2>. QED  BY <2>1
<1>3. cpu \in Cpus
  BY <1>1, <1>2 DEF Cpus
<1>. QED  BY <1>3 DEF IntInit, IntInv

\* The code that runs is that of the last interrupt's handler, whose frame is on the stack.
LEMMA AtCodeHolds ==
  ASSUME IntInv, taken # <<>>, InHandler
  PROVE  /\ LastTaken \in Takes /\ cpu.stack \in Seq(Words) /\ Holds(cpu.stack, LastTaken)
         /\ Len(taken) \in DOMAIN taken /\ LastTaken.handled = TRUE
<1>1. Len(taken) \in DOMAIN taken /\ LastTaken \in Takes
  BY DEF IntInv, LastTaken
<1>2. LastTaken.handled = TRUE
  BY <1>1 DEF InHandler, LastTaken, Takes
<1>. QED  BY <1>1, <1>2 DEF IntInv, Holds

LEMMA InterruptKeeps ==
  ASSUME IntInv, NEW v \in Vectors, Interrupt(v)
  PROVE  IntInv'
<1>1. PICK code \in {<<>>} \cup {<<<<"code", c>>>> : c \in ErrorCodes[v]} :
       /\ code = <<>> <=> ErrorCodes[v] = {}
       /\ taken' = Append(taken, [was |-> cpu, vector |-> v, code |-> code, handled |-> FALSE, fn |-> FALSE])
       /\ cpu' = [eip |-> <<"isr", idt[v].isr>>, enabled |-> FALSE,
                  stack |-> cpu.stack \o <<<<"flags", cpu.enabled>>, <<"cs", 8>>, cpu.eip>> \o code]
       /\ idt' = idt
  BY DEF Interrupt
<1>. PICK t : t = [was |-> cpu, vector |-> v, code |-> code, handled |-> FALSE, fn |-> FALSE]
  OBVIOUS
<1>2. t \in Takes
  <2>1. code \in Codes
    BY <1>1, InterruptAssumption DEF Codes
  <2>. QED  BY <2>1 DEF IntInv, Takes
<1>3. t.was = cpu /\ t.vector = v /\ t.code = code /\ t.handled = FALSE
  OBVIOUS
<1>. PICK n \in Nat : n = Len(taken)
  BY DEF IntInv
<1>4. /\ taken' \in Seq(Takes) /\ Len(taken') = n + 1 /\ taken'[n + 1] = t
      /\ \A i \in 1 .. n : taken'[i] = taken[i]
  BY <1>1, <1>2 DEF IntInv
<1>5. idt[v].isr = v
  BY DEF IntInv, Gate
<1>6. cpu'.stack = Pushed(t) /\ cpu'.eip = <<"isr", v>>
  BY <1>1, <1>3, <1>5 DEF Pushed
<1>7. code = <<>> <=> NoErrorCode(v)
  BY <1>1, InterruptAssumption DEF NoErrorCode
<1>8. cpu' \in Cpus
  <2>1. cpu'.stack \in Seq(Words)
    <3>1. cpu.stack \in Seq(Words) /\ cpu.enabled \in BOOLEAN /\ cpu.eip \in {"eip", "isr"} \X (Points \cup Vectors)
      BY DEF IntInv, Cpus
    <3>2. Vectors \subseteq Nat
      BY VectorsAndCodes
    <3>3. <<"flags", cpu.enabled>> \in Words /\ <<"cs", 8>> \in Words /\ cpu.eip \in Words
      BY <3>1, <3>2 DEF Words
    <3>4. cpu.stack \o <<<<"flags", cpu.enabled>>, <<"cs", 8>>, cpu.eip>> \in Seq(Words)
      BY <3>1, <3>3
    <3>5. code \in Seq(Words)
      BY <1>2, <1>3, VectorsAndCodes DEF Takes
    <3>6. cpu'.stack = (cpu.stack \o <<<<"flags", cpu.enabled>>, <<"cs", 8>>, cpu.eip>>) \o code
      BY <1>1
    <3>. QED  BY <3>4, <3>5, <3>6
  <2>. QED  BY <1>1, <1>5, <2>1 DEF Cpus
<1>9. ASSUME NEW i \in 1 .. n
      PROVE  taken[i].handled = TRUE /\ Holds(taken'[i + 1].was.stack, taken[i])
  <2>1. CASE i = n
    <3>1. taken # <<>> /\ InHandler
      BY <2>1 DEF Interrupt, AtCode
    <3>2. LastTaken = taken[i] /\ taken'[i + 1].was.stack = cpu.stack
      BY <1>3, <1>4, <2>1 DEF LastTaken
    <3>. QED  BY <3>1, <3>2, AtCodeHolds
  <2>2. CASE i # n
    <3>1. i \in DOMAIN taken /\ i # Len(taken) /\ i + 1 \in 1 .. n
      BY <2>2 DEF IntInv
    <3>. QED  BY <1>4, <3>1 DEF IntInv
  <2>. QED  BY <2>1, <2>2
<1>10. DOMAIN taken' = 1 .. n + 1 /\ LastTaken' = t
  BY <1>4 DEF LastTaken
<1>11. \A i \in DOMAIN taken' : taken'[i].code = <<>> <=> NoErrorCode(taken'[i].vector)
  <2>1. \A i \in 1 .. n : taken[i].code = <<>> <=> NoErrorCode(taken[i].vector)
    BY DEF IntInv
  <2>. QED  BY <1>3, <1>4, <1>7, <1>10, <2>1
<1>12. \A i \in DOMAIN taken' : i # Len(taken') =>
         taken'[i].handled = TRUE /\ Holds(taken'[i + 1].was.stack, taken'[i])
  <2>1. \A i \in DOMAIN taken' : i # Len(taken') => i \in 1 .. n
    BY <1>4, <1>10
  <2>. QED  BY <1>4, <1>9, <2>1
<1>13. LastTaken'.handled = FALSE /\ cpu'.eip = <<"isr", LastTaken'.vector>> /\ cpu'.stack = Pushed(LastTaken')
  BY <1>3, <1>6, <1>10
<1>14. idt' = [w \in Vectors |-> Gate(w)]
  BY <1>1 DEF IntInv
<1>. QED  BY <1>4, <1>8, <1>11, <1>12, <1>13, <1>14 DEF IntInv, Holds, Pushed
LEMMA EnterHandlerKeeps ==
  ASSUME IntInv, EnterHandler
  PROVE  IntInv'
<1>. PICK n \in Nat : n = Len(taken)
  BY DEF IntInv
<1>1. taken # <<>> /\ n \in 1 .. n /\ DOMAIN taken = 1 .. n /\ LastTaken = taken[n] /\ taken[n] \in Takes
  BY DEF IntInv, EnterHandler, LastTaken
<1>2. LastTaken.handled # TRUE
  BY <1>1 DEF EnterHandler, InHandler, LastTaken
<1>3. cpu.eip = <<"isr", LastTaken.vector>> /\ cpu.stack = Pushed(LastTaken)
  BY <1>1, <1>2 DEF IntInv
<1>a. \A e, s : (e \in s) \in BOOLEAN
  OBVIOUS
<1>. PICK fn : fn = (cpu.eip[2] \in intTable)
  OBVIOUS
<1>b. fn \in BOOLEAN
  BY <1>a
<1>0. PICK t : t = [LastTaken EXCEPT !.handled = TRUE, !.fn = fn]
  OBVIOUS
<1>4. /\ t \in Takes /\ t.was = LastTaken.was /\ t.vector = LastTaken.vector
      /\ t.code = LastTaken.code /\ t.handled = TRUE
  BY <1>0, <1>1, <1>b DEF Takes
<1>5. t.code = <<>> <=> NoErrorCode(t.vector)
  BY <1>1, <1>4 DEF IntInv
<1>6. cpu'.stack = Wrapper(Stub(t.vector, Pushed(t)))
  <2>1. cpu.eip[2] = t.vector /\ cpu.stack = Pushed(t)
    <3>1. Pushed(LastTaken) = Pushed(t)
      BY <1>4 DEF Pushed
    <3>. QED  BY <1>3, <1>4, <3>1
  <2>2. cpu \in Cpus
    BY DEF IntInv
  <2>3. cpu'.stack = Wrapper(Stub(cpu.eip[2], cpu.stack))
    BY <2>2 DEF EnterHandler, Cpus
  <2>. QED  BY <2>1, <2>3
<1>7. cpu'.stack \in Seq(Words) /\ Holds(cpu'.stack, t)
  BY <1>4, <1>5, <1>6, EnteredHolds
<1>8. cpu' \in Cpus
  <2>1. (CHOOSE p \in Points : TRUE) \in Points
    BY InterruptAssumption
  <2>. QED  BY <1>7, <2>1 DEF IntInv, Cpus, EnterHandler
<1>9. taken' \in Seq(Takes) /\ Len(taken') = n /\ taken'[n] = t /\ \A i \in 1 .. n - 1 : taken'[i] = taken[i]
  <2>1. taken' = [taken EXCEPT ![n] = t]
    BY <1>0, <1>1 DEF EnterHandler
  <2>2. taken \in Seq(Takes) /\ Len(taken) = n
    BY DEF IntInv
  <2>. QED  BY <1>1, <1>4, <2>1, <2>2, ExceptSeq
<1>10. DOMAIN taken' = 1 .. n /\ LastTaken' = t
  BY <1>9 DEF LastTaken
<1>11. \A i \in DOMAIN taken' : taken'[i].code = <<>> <=> NoErrorCode(taken'[i].vector)
  <2>1. \A i \in 1 .. n : taken[i].code = <<>> <=> NoErrorCode(taken[i].vector)
    BY <1>1 DEF IntInv
  <2>2. \A i \in 1 .. n : i = n \/ i \in 1 .. n - 1
    OBVIOUS
  <2>. QED  BY <1>5, <1>9, <1>10, <2>1, <2>2
<1>12. ASSUME NEW i \in 1 .. n - 1
       PROVE  taken'[i].handled = TRUE /\ Holds(taken'[i + 1].was.stack, taken'[i])
  <2>1. taken[i].handled = TRUE /\ Holds(taken[i + 1].was.stack, taken[i])
    BY <1>1 DEF IntInv
  <2>2. taken'[i + 1].was = taken[i + 1].was
    <3>1. i + 1 = n \/ i + 1 \in 1 .. n - 1
      OBVIOUS
    <3>. QED  BY <1>1, <1>4, <1>9, <3>1
  <2>. QED  BY <1>9, <2>1, <2>2
<1>13. \A i \in DOMAIN taken' : i # Len(taken') => i \in 1 .. n - 1
  BY <1>9, <1>10
<1>14. idt' = [w \in Vectors |-> Gate(w)]
  BY DEF IntInv, EnterHandler
<1>. QED  BY <1>4, <1>7, <1>8, <1>9, <1>10, <1>11, <1>12, <1>13, <1>14 DEF IntInv, Holds, Pushed

LEMMA ReturnIsExact ==
  ASSUME IntInv, Return
  PROVE  cpu' = LastTaken.was
<1>1. taken # <<>> /\ InHandler
  BY DEF Return, InHandler
<1>2. LastTaken \in Takes /\ cpu.stack \in Seq(Words) /\ Holds(cpu.stack, LastTaken)
  BY <1>1, AtCodeHolds
<1>. QED  BY <1>2, HeldGivesBack DEF Return, Esp

LEMMA ReturnKeeps ==
  ASSUME IntInv, Return
  PROVE  IntInv'
<1>. PICK n \in Nat : n = Len(taken)
  BY DEF IntInv
<1>1. taken # <<>> /\ n \in 1 .. n /\ DOMAIN taken = 1 .. n /\ LastTaken = taken[n] /\ taken[n] \in Takes
  BY DEF IntInv, Return, InHandler, LastTaken
<1>2. cpu' = taken[n].was /\ cpu' \in Cpus
  BY <1>1, ReturnIsExact DEF Takes
<1>3. /\ taken' \in Seq(Takes) /\ Len(taken') = n - 1 /\ DOMAIN taken' = 1 .. n - 1
      /\ \A i \in 1 .. n - 1 : taken'[i] = taken[i]
  <2>1. taken' = SubSeq(taken, 1, n - 1) /\ n - 1 \in Nat /\ n - 1 <= Len(taken) /\ taken \in Seq(Takes)
    BY <1>1 DEF Return, IntInv
  <2>. QED  BY <2>1
<1>4. \A i \in 1 .. n - 1 : /\ taken[i].code = <<>> <=> NoErrorCode(taken[i].vector)
                           /\ taken[i].handled = TRUE /\ Holds(taken[i + 1].was.stack, taken[i])
  BY <1>1 DEF IntInv
<1>5. \A i \in DOMAIN taken' : taken'[i].code = <<>> <=> NoErrorCode(taken'[i].vector)
  BY <1>3, <1>4
<1>6. \A i \in DOMAIN taken' : i # Len(taken') =>
        taken'[i].handled = TRUE /\ Holds(taken'[i + 1].was.stack, taken'[i])
  <2>1. \A i \in DOMAIN taken' : i # Len(taken') => i \in 1 .. n - 1 /\ i + 1 \in 1 .. n - 1
    BY <1>3
  <2>. QED  BY <1>3, <1>4, <2>1
<1>7. taken' # <<>> => LastTaken'.handled = TRUE /\ Holds(cpu'.stack, LastTaken')
  <2>1. taken' # <<>> => n - 1 \in 1 .. n - 1
    BY <1>3
  <2>2. LastTaken' = taken'[n - 1] /\ (n - 1) + 1 = n
    BY <1>3 DEF LastTaken
  <2>. QED  BY <1>2, <1>3, <1>4, <2>1, <2>2
<1>8. idt' = [w \in Vectors |-> Gate(w)]
  BY DEF IntInv, Return
<1>. QED  BY <1>2, <1>3, <1>5, <1>6, <1>7, <1>8 DEF IntInv, Holds

LEMMA IntNextKeeps ==
  ASSUME IntInv, [IntNext]_intVars
  PROVE  IntInv'
<1>1. ASSUME UNCHANGED <<idt, cpu, taken>>
      PROVE  IntInv'
  <2>1. LastTaken' = LastTaken
    BY <1>1 DEF LastTaken
  <2>. QED  BY <1>1, <2>1 DEF IntInv, Holds, Pushed
<1>2. ASSUME NEW at \in Points, RunCode(at)
      PROVE  IntInv'
  <2>1. cpu \in Cpus /\ cpu' = [cpu EXCEPT !.eip = <<"eip", at>>] /\ idt' = idt /\ taken' = taken
    BY <1>2 DEF IntInv, RunCode
  <2>2. cpu' \in Cpus /\ cpu'.stack = cpu.stack /\ LastTaken' = LastTaken
    BY <2>1 DEF Cpus, LastTaken
  <2>3. taken # <<>> => LastTaken.handled = TRUE
    BY <1>2, AtCodeHolds DEF RunCode, AtCode
  <2>4. \A i \in DOMAIN taken' : taken'[i].code = <<>> <=> NoErrorCode(taken'[i].vector)
    BY <2>1 DEF IntInv
  <2>5. \A i \in DOMAIN taken' : i # Len(taken') =>
          taken'[i].handled = TRUE /\ Holds(taken'[i + 1].was.stack, taken'[i])
    BY <2>1 DEF IntInv
  <2>6. taken' # <<>> => LastTaken'.handled = TRUE /\ Holds(cpu'.stack, LastTaken')
    BY <2>1, <2>2, <2>3 DEF IntInv
  <2>7. taken' \in Seq(Takes) /\ idt' = [v \in Vectors |-> Gate(v)]
    BY <2>1 DEF IntInv
  <2>. QED  BY <2>2, <2>4, <2>5, <2>6, <2>7 DEF IntInv, Holds
<1>. QED  BY <1>1, <1>2, InterruptKeeps, EnterHandlerKeeps, ReturnKeeps
          DEF IntNext, SetIntFn, IntUndef, intVars

\* Interrupted code goes on where it was and with what it had, and what the kernel shows
\* when it stops is what the processor pushed (asmIsr.S:3-26), for interrupts within
\* interrupts to any depth.
THEOREM InterruptsStayExact == IntSpec => InterruptsAreExact
<1>. DEFINE OnScreen == <<<<"vector", LastTaken.vector>>,
                       IF LastTaken.code = <<>> THEN <<"code", 0>> ELSE LastTaken.code[1],
                       LastTaken.was.eip, <<"cs", 8>>, <<"flags", LastTaken.was.enabled>>>>
            Exact == /\ Len(taken') < Len(taken) => cpu' = LastTaken.was
                     /\ message' # message => message' = OnScreen
<1>1. IntInit => IntInv
  BY IntInitHolds
<1>2. IntInv /\ [IntNext]_intVars => IntInv'
  BY IntNextKeeps
<1>3. IntInv /\ [IntNext]_intVars => [Exact]_intVars
  <2>. SUFFICES ASSUME IntInv, IntNext PROVE Exact
    OBVIOUS
  <2>. PICK n \in Nat : n = Len(taken)
    BY DEF IntInv
  <2>1. CASE Return
    <3>1. cpu' = LastTaken.was /\ message' = message
      BY <2>1, ReturnIsExact DEF Return
    <3>. QED  BY <3>1
  <2>2. CASE IntUndef
    <3>1. taken # <<>> /\ InHandler /\ message' = IsrParam /\ taken' = taken
      BY <2>2 DEF IntUndef, InHandler
    <3>2. LastTaken \in Takes /\ cpu.stack \in Seq(Words) /\ Holds(cpu.stack, LastTaken)
      BY <3>1, AtCodeHolds
    <3>3. IsrParam = OnScreen
      BY <3>2, HeldGivesBack DEF IsrParam, Esp
    <3>. QED  BY <3>1, <3>3
  <2>3. CASE EnterHandler
    <3>1. Len(taken') = Len(taken) /\ message' = message
      BY <2>3 DEF EnterHandler, IntInv
    <3>. QED  BY <3>1
  <2>4. ASSUME NEW v \in Vectors, Interrupt(v)
        PROVE  Exact
    <3>1. PICK t : taken' = Append(taken, t) /\ message' = message
      BY <2>4 DEF Interrupt
    <3>2. Len(taken') = n + 1
      BY <3>1 DEF IntInv
    <3>. QED  BY <3>1, <3>2
  <2>5. ASSUME taken' = taken, message' = message
        PROVE  Exact
    BY <2>5
  <2>. QED  BY <2>1, <2>2, <2>3, <2>4, <2>5 DEF IntNext, SetIntFn, RunCode
<1>. QED  BY <1>1, <1>2, <1>3, PTL DEF IntSpec, InterruptsAreExact
------------------------------------------------------------------------------
(***************************************************************************)
(* Loader.  A chain of clusters is a function that is defined by           *)
(* recursion; its beginnings exist for each length, so that it does, and   *)
(* the clusters that are read one after the other are its values.  Each    *)
(* address then holds a byte of a segment that has been copied, a byte of  *)
(* the file, or what was there: segments lie apart and clear of the file,  *)
(* so that what is copied is still what was read; if they are not clear,   *)
(* nothing is said of it.                                                  *)
(***************************************************************************)
\* g is the clusters of a file up to number n.
IsPath(m, first, g, n) == g = [k \in 0 .. n |-> IF k = 0 THEN first ELSE m.fat[g[k - 1]]]
Path(m, first, n) == CHOOSE g : IsPath(m, first, g, n)

\* A beginning of a chain exists for each length: induction along it.
LEMMA PathExists ==
  ASSUME NEW m, NEW first, NEW n \in Nat
  PROVE  \A i \in 0 .. n : Path(m, first, n)[i] = IF i = 0 THEN first ELSE m.fat[Path(m, first, n)[i - 1]]
<1> DEFINE S == {i \in 0 .. n : \E g : IsPath(m, first, g, i)}
<1>1. 0 \in S
  <2> DEFINE g == [k \in 0 .. 0 |-> first]
  <2>1. g = [k \in 0 .. 0 |-> IF k = 0 THEN first ELSE m.fat[g[k - 1]]]
    OBVIOUS
  <2>2. IsPath(m, first, g, 0)
    BY <2>1 DEF IsPath
  <2>. HIDE DEF g
  <2>. QED  BY <2>2
<1>2. ASSUME NEW i \in 0 .. n - 1, i \in S PROVE i + 1 \in S
  <2>1. PICK g : IsPath(m, first, g, i)
    BY <1>2
  <2> DEFINE f == [k \in 0 .. i + 1 |-> IF k = 0 THEN first ELSE m.fat[g[k - 1]]]
  <2>2. \A k \in 0 .. i : g[k] = IF k = 0 THEN first ELSE m.fat[g[k - 1]]
    BY <2>1 DEF IsPath
  <2>3. \A k \in 0 .. i : f[k] = g[k]
    BY <2>2
  <2>4. \A k \in 0 .. i + 1 : f[k] = IF k = 0 THEN first ELSE m.fat[f[k - 1]]
    <3>1. ASSUME NEW k \in 0 .. i + 1 PROVE f[k] = IF k = 0 THEN first ELSE m.fat[f[k - 1]]
      <4>1. k # 0 => k - 1 \in 0 .. i
        BY <1>2
      <4>2. k # 0 => f[k - 1] = g[k - 1]
        BY <2>3, <4>1
      <4>3. f[k] = IF k = 0 THEN first ELSE m.fat[g[k - 1]]
        OBVIOUS
      <4>. HIDE DEF f
      <4>. QED  BY <4>2, <4>3
    <3>. QED  BY <3>1
  <2>5. f = [k \in 0 .. i + 1 |-> f[k]]
    OBVIOUS
  <2>. HIDE DEF f
  <2>6. IsPath(m, first, f, i + 1)
    BY <2>4, <2>5 DEF IsPath
  <2>. QED  BY <2>6, <1>2
<1>3. 0 .. n \subseteq S
  <2>. HIDE DEF S
  <2>. QED  BY <1>1, <1>2, IntervalInduction
<1>4. \E g : IsPath(m, first, g, n)
  BY <1>3
<1>5. IsPath(m, first, Path(m, first, n), n)
  BY <1>4 DEF Path
<1>. QED  BY <1>5 DEF IsPath

\* The clusters of a file follow each other in the FAT: the recursive function is defined
\* everywhere, as every beginning of it is.
LEMMA ClustersFollow ==
  ASSUME NEW m, NEW first
  PROVE  /\ Clusters(m, first)[0] = first
         /\ \A k \in Nat : Clusters(m, first)[k + 1] = m.fat[Clusters(m, first)[k]]
<1> DEFINE h == [n \in Nat |-> Path(m, first, n)[n]]
<1>1. ASSUME NEW n \in Nat
      PROVE  Path(m, first, n + 1)[n] = Path(m, first, n)[n]
  <2> DEFINE E == {i \in 0 .. n : Path(m, first, n + 1)[i] = Path(m, first, n)[i]}
  <2>1. \A i \in 0 .. n : Path(m, first, n)[i] = IF i = 0 THEN first ELSE m.fat[Path(m, first, n)[i - 1]]
    BY PathExists
  <2>2. \A i \in 0 .. n + 1 : Path(m, first, n + 1)[i] = IF i = 0 THEN first ELSE m.fat[Path(m, first, n + 1)[i - 1]]
    <3>1. n + 1 \in Nat
      OBVIOUS
    <3>. QED  BY <3>1, PathExists
  <2>3. 0 \in E
    BY <2>1, <2>2
  <2>4. ASSUME NEW i \in 0 .. n - 1, i \in E PROVE i + 1 \in E
    <3>1. i + 1 \in 0 .. n /\ i + 1 \in 0 .. n + 1 /\ i + 1 # 0 /\ (i + 1) - 1 = i
      BY <2>4
    <3>. QED  BY <2>1, <2>2, <2>4, <3>1
  <2>5. 0 .. n \subseteq E
    <3>. HIDE DEF E
    <3>. QED  BY <2>3, <2>4, IntervalInduction
  <2>. QED  BY <2>5
<1>2. ASSUME NEW n \in Nat PROVE h[n] = IF n = 0 THEN first ELSE m.fat[h[n - 1]]
  <2>1. Path(m, first, n)[n] = IF n = 0 THEN first ELSE m.fat[Path(m, first, n)[n - 1]]
    BY PathExists
  <2>2. n # 0 => n - 1 \in Nat /\ (n - 1) + 1 = n
    OBVIOUS
  <2>3. n # 0 => Path(m, first, n)[n - 1] = Path(m, first, n - 1)[n - 1]
    BY <1>1, <2>2
  <2>4. h[n] = Path(m, first, n)[n] /\ (n # 0 => h[n - 1] = Path(m, first, n - 1)[n - 1])
    BY <2>2
  <2>. HIDE DEF h
  <2>. QED  BY <2>1, <2>3, <2>4
<1>3. h = [n \in Nat |-> h[n]]
  OBVIOUS
<1>. HIDE DEF h
<1>4. h = [n \in Nat |-> IF n = 0 THEN first ELSE m.fat[h[n - 1]]]
  BY <1>2, <1>3
<1>5. Clusters(m, first) = [n \in Nat |-> IF n = 0 THEN first ELSE m.fat[Clusters(m, first)[n - 1]]]
  BY <1>4 DEF Clusters
<1>6. ASSUME NEW k \in Nat PROVE Clusters(m, first)[k + 1] = m.fat[Clusters(m, first)[k]]
  <2>1. k + 1 \in Nat /\ k + 1 # 0 /\ (k + 1) - 1 = k
    OBVIOUS
  <2>. QED  BY <1>5, <2>1
<1>7. Clusters(m, first)[0] = first
  BY <1>5
<1>. QED  BY <1>6, <1>7
------------------------------------------------------------------------------
(***************************************************************************)
(* The invariant.                                                          *)
(***************************************************************************)
Kernel == EntryOf(Host, KernelName)
KernelCluster(k) == Clusters(Host, Kernel.first)[k]
KernelByte(o) == FileByte(Host, Kernel.first, o)
KernelSize == ClustersOf(Kernel) * SectorSize
KernelSegments == Headers[KernelByte(0)]

LoaderTypeOK ==
  /\ host \in DOMAIN Hosts
  /\ am \in [sector : Nat, cluster : Nat, fatSector : Nat, writeAt : Int, fileAt : Int]
  /\ memory = [a \in OneMiB .. Top - 1 |-> memory[a]]
  /\ segment \in [n : Nat \ {0}, at : Nat]

\* The boot sector has found LOADER and has read so many of its clusters.
LoaderIsRead(n) ==
  LET e == EntryOf(Host, LoaderName) IN
  /\ e \in Files(Host, LoaderName)
  /\ n \in 0 .. ClustersOf(e) /\ am.cluster = Clusters(Host, e.first)[n]
  /\ program = [i \in 1 .. n * SectorSize |-> FileByte(Host, e.first, i - 1)]

MapIsTaken ==
  /\ stage \in {"mbr", "mbrRead"} => kept = <<>>
  /\ stage \in {"map", "grub"} =>
       /\ Len(kept) \in Nat /\ kept = [i \in 1 .. Len(kept) |-> Host.regions[i]]
       /\ Host.regions # <<>> /\ ~Host.carry => Len(kept) < Len(Host.regions)
  /\ stage \in {"directory", "place", "read", "header", "segments", "copy", "main"} =>
       kept = Host.regions

DirectoryIsSearched ==
  /\ stage \in {"mbr", "mbrRead", "map"} => am.sector = FirstDir
  /\ stage = "directory" =>
       /\ am.sector \in FirstDir .. FirstDir + DirSectors
       /\ \A s \in FirstDir .. am.sector - 1 : Matching(s, KernelName) = {}
  /\ stage = "place" =>
       buffer \in FirstDir .. FirstDir + DirSectors - 1 /\ Matching(buffer, KernelName) # {}

\* Where KERNEL is, or what is read of it, is at the end of memory.
KernelIsPlaced ==
  /\ Kernel \in Files(Host, KernelName) /\ Kernel.length # 0
  /\ Regions1MiB(kept) # {} /\ am.fileAt = FilePlace(kept, Kernel.length) /\ am.fileAt >= OneMiB

\* What address a holds but for the segments.
FileOrOld(a) == IF a \in am.fileAt .. am.writeAt - 1 THEN KernelByte(a - am.fileAt) ELSE "old"

\* So many clusters of KERNEL have been read.
KernelIsRead(n) ==
  /\ n \in 0 .. ClustersOf(Kernel) /\ am.writeAt = am.fileAt + n * SectorSize
  /\ am.cluster = KernelCluster(n)
  /\ \A k \in 0 .. n - 1 : KernelCluster(k) \in DOMAIN Host.data

KernelIsThere ==
  /\ KernelIsPlaced /\ IsWhole(Host, Kernel)
  /\ am.writeAt = am.fileAt + KernelSize

\* What has been copied of segment n, and what belongs there.
Copied(n) ==
  {a \in Addresses(KernelSegments[n]) :
     /\ KernelSegments[n].type = "LOAD"
     /\ n < segment.n \/ (n = segment.n /\ a < KernelSegments[n].paddr + segment.at)}
SegmentByte(g, a) ==
  IF a - g.paddr < g.filesz THEN KernelByte(g.offset + a - g.paddr) ELSE "zero"

SegmentsAreCopied ==
  /\ KernelByte(0) \in DOMAIN Headers
  /\ \A n \in DOMAIN KernelSegments : n < segment.n /\ KernelSegments[n].type = "LOAD" =>
       IsLoadable(KernelSegments[n])
  /\ \A n \in DOMAIN KernelSegments : \A a \in Copied(n) :
       memory[a] = SegmentByte(KernelSegments[n], a)
  /\ \A a \in DOMAIN memory :
       (\A n \in DOMAIN KernelSegments : a \notin Copied(n)) => memory[a] = FileOrOld(a)

LoaderInv ==
  /\ LoaderTypeOK
  /\ MapIsTaken
  /\ DirectoryIsSearched
  /\ stage \in {"mbr", "grub"} => program = <<>>
  /\ stage = "mbrRead" => buffer = 1 /\ \E n \in Nat : LoaderIsRead(n)
  /\ stage \in {"mbr", "mbrRead", "map", "directory", "place"} =>
       memory = [a \in OneMiB .. Top - 1 |-> "old"] /\ am.fatSector = 0
  /\ stage \in {"mbr", "mbrRead", "map", "directory", "place", "read", "header"} =>
       segment = [n |-> 1, at |-> 0]
  /\ stage = "read" =>
       /\ KernelIsPlaced /\ \E n \in Nat : KernelIsRead(n)
       /\ am.fatSector # 0 => buffer = am.fatSector
  /\ stage \in {"read", "header"} => \A a \in DOMAIN memory : memory[a] = FileOrOld(a)
  /\ stage \in {"header", "segments", "copy"} => KernelIsThere
  /\ stage \in {"segments", "copy"} /\ FileIsClear(Host) => SegmentsAreCopied
  /\ stage = "segments" => segment.at = 0
  /\ stage = "copy" /\ FileIsClear(Host) =>
       /\ segment.n \in DOMAIN KernelSegments /\ IsLoaded(KernelSegments[segment.n])
       /\ segment.at < KernelSegments[segment.n].memsz
  /\ KernelIsLoaded
------------------------------------------------------------------------------
\* A byte lies in one sector, at one place.
LEMMA SectorDivision ==
  ASSUME NEW o \in Nat
  PROVE  /\ o \div SectorSize \in Nat /\ o % SectorSize \in 0 .. SectorSize - 1
         /\ o = (o \div SectorSize) * SectorSize + (o % SectorSize)
  BY LoaderAssumption

\* More sectors are more bytes.
LEMMA SectorsGrow ==
  ASSUME NEW n \in Nat
  PROVE  /\ n * SectorSize \in Nat /\ (n + 1) * SectorSize = n * SectorSize + SectorSize
         /\ \A k \in 0 .. n : k * SectorSize <= n * SectorSize
<1>1. SectorSize \in Nat
  BY LoaderAssumption
<1>2. ASSUME NEW k \in 0 .. n PROVE k * SectorSize <= n * SectorSize
  <2>1. PICK d \in Nat : n = k + d
    <3>1. n - k \in Nat /\ n = k + (n - k)
      OBVIOUS
    <3>. QED  BY <3>1
  <2>2. n * SectorSize = k * SectorSize + d * SectorSize
    BY <1>1, <2>1
  <2>3. d * SectorSize \in Nat /\ k * SectorSize \in Nat
    BY <1>1
  <2>. QED  BY <2>2, <2>3
<1>3. n * SectorSize \in Nat /\ (n + 1) * SectorSize = n * SectorSize + SectorSize
  BY <1>1
<1>. QED  BY <1>2, <1>3

\* Byte i of sector n is in sector n, at i.
LEMMA SectorOf ==
  ASSUME NEW n \in Nat, NEW i \in 0 .. SectorSize - 1
  PROVE  (n * SectorSize + i) \div SectorSize = n /\ (n * SectorSize + i) % SectorSize = i
<1>0. SectorSize \in Nat \ {0}
  BY LoaderAssumption
<1>. PICK o \in Nat : o = n * SectorSize + i
  BY SectorsGrow, <1>0
<1>. PICK q \in Nat, r \in 0 .. SectorSize - 1 : q = o \div SectorSize /\ r = o % SectorSize
  BY SectorDivision
<1>1. o = q * SectorSize + r
  BY SectorDivision
<1>2. ~(q + 1 <= n)
  <2>. SUFFICES ASSUME q + 1 <= n PROVE FALSE
    OBVIOUS
  <2>1. (q + 1) * SectorSize <= n * SectorSize /\ (q + 1) * SectorSize = q * SectorSize + SectorSize
    BY SectorsGrow
  <2>. QED  BY <1>0, <1>1, <2>1, SectorsGrow
<1>3. ~(n + 1 <= q)
  <2>. SUFFICES ASSUME n + 1 <= q PROVE FALSE
    OBVIOUS
  <2>1. (n + 1) * SectorSize <= q * SectorSize /\ (n + 1) * SectorSize = n * SectorSize + SectorSize
    BY SectorsGrow
  <2>. QED  BY <1>0, <1>1, <2>1, SectorsGrow
<1>4. q = n
  BY <1>2, <1>3
<1>5. r = i
  BY <1>0, <1>1, <1>4, SectorsGrow
<1>. QED  BY <1>4, <1>5

\* The entry of a cluster in its sector of the FAT.
LEMMA FatDivision ==
  ASSUME NEW c \in Nat
  PROVE  /\ c \div FatEntries \in Nat
         /\ ((c \div FatEntries + 1) - 1) * FatEntries + (c % FatEntries) = c
<1>1. /\ c \div FatEntries \in Nat /\ c % FatEntries \in Nat
      /\ c = (c \div FatEntries) * FatEntries + (c % FatEntries)
  BY LoaderAssumption
<1>2. (c \div FatEntries + 1) - 1 = c \div FatEntries
  BY <1>1
<1>. QED  BY <1>1, <1>2

\* The clusters of a file hold its bytes, and a file that is to end with the last sector of
\* memory does so.
LEMMA FileFits ==
  ASSUME NEW bytes \in Nat \ {0}, NEW end \in Nat, end % SectorSize = 0
  PROVE  LET n == (bytes + SectorSize - 1) \div SectorSize
             at == ((end - 1 - bytes) \div SectorSize) * SectorSize
         IN  n \in Nat \ {0} /\ bytes <= n * SectorSize /\ (at >= 0 => at + n * SectorSize <= end)
<1>0. SectorSize \in Nat \ {0}
  BY LoaderAssumption
<1> DEFINE n == (bytes + SectorSize - 1) \div SectorSize
           q == (end - 1 - bytes) \div SectorSize
<1>1. /\ n \in Nat /\ bytes + SectorSize - 1 = n * SectorSize + ((bytes + SectorSize - 1) % SectorSize)
      /\ (bytes + SectorSize - 1) % SectorSize \in 0 .. SectorSize - 1
  <2>1. bytes + SectorSize - 1 \in Nat
    BY <1>0
  <2>. QED  BY <2>1, SectorDivision
<1>2. bytes <= n * SectorSize /\ n * SectorSize <= bytes + SectorSize - 1
  <2>1. n * SectorSize \in Nat
    BY <1>1, SectorsGrow
  <2>. HIDE DEF n
  <2>. QED  BY <1>0, <1>1, <2>1
<1>3. n # 0
  <2>1. n = 0 => n * SectorSize = 0
    BY <1>0
  <2>. HIDE DEF n
  <2>. QED  BY <1>2, <2>1
<1>4. q \in Int /\ q * SectorSize \in Int /\ q * SectorSize <= end - 1 - bytes
  BY <1>0
<1>5. PICK e \in Nat : end = e * SectorSize
  <2>1. end \div SectorSize \in Nat /\ end = (end \div SectorSize) * SectorSize + 0
    BY SectorDivision
  <2>2. (end \div SectorSize) * SectorSize \in Nat
    BY <2>1, SectorsGrow
  <2>. QED  BY <2>1, <2>2
<1>6. (q + n) * SectorSize = q * SectorSize + n * SectorSize
  BY <1>0, <1>1, <1>4
<1>7. q + n <= e
  <2>. SUFFICES ASSUME ~(q + n <= e) PROVE FALSE
    OBVIOUS
  <2>1. PICK d \in Nat : q + n = e + 1 + d
    <3>1. q + n - e - 1 \in Nat /\ q + n = e + 1 + (q + n - e - 1)
      <4>. HIDE DEF q, n
      <4>. QED  BY <1>1, <1>4
    <3>. QED  BY <3>1
  <2>2. (q + n) * SectorSize = e * SectorSize + SectorSize + d * SectorSize
    <3>. HIDE DEF q, n
    <3>. QED  BY <1>0, <2>1
  <2>3. d * SectorSize \in Nat /\ e * SectorSize \in Nat /\ n * SectorSize \in Nat
    BY <1>1, SectorsGrow
  <2>. HIDE DEF q, n
  <2>. QED  BY <1>0, <1>2, <1>4, <1>5, <1>6, <2>2, <2>3
<1>8. q + n \in Nat => (q + n) * SectorSize <= e * SectorSize
  <2>. HIDE DEF q, n
  <2>. QED  BY <1>1, <1>4, <1>7, SectorsGrow
<1>9. q * SectorSize >= 0 => q \in Nat
  <2>. SUFFICES ASSUME q * SectorSize >= 0, ~(q >= 0) PROVE FALSE
    BY <1>4
  <2>1. q <= -1 /\ -q \in Nat \ {0}
    BY <1>4
  <2>2. (-q) * SectorSize >= 1 * SectorSize
    <3>. HIDE DEF q
    <3>. QED  BY <1>0, <2>1, SectorsGrow
  <2>3. (-q) * SectorSize = -(q * SectorSize)
    BY <1>0, <1>4
  <2>. HIDE DEF q
  <2>. QED  BY <1>0, <1>4, <2>2, <2>3
<1>. HIDE DEF q, n
<1>10. q * SectorSize >= 0 => q * SectorSize + n * SectorSize <= end
  BY <1>1, <1>4, <1>5, <1>6, <1>8, <1>9
<1>. QED  BY <1>1, <1>2, <1>3, <1>10 DEF q, n
------------------------------------------------------------------------------
\* The marks that end a file lie above its clusters.
LEMMA MarksAreHigh == LastCluster \in Nat /\ BadCluster \in Nat /\ LastCluster < BadCluster
  BY DEF LastCluster, BadCluster

\* What is assumed of the machine that runs.
LEMMA HostIsSound ==
  ASSUME host \in DOMAIN Hosts
  PROVE  DiskIsSound(Host) /\ MapIsSound(Host) /\ FilesAreSound(Host) /\ KernelIsSound(Host)
  BY LoaderAssumption DEF Host

\* A name that is in the directory has one entry there.
LEMMA EntryIsOnly ==
  ASSUME host \in DOMAIN Hosts, NEW name \in {LoaderName, KernelName}, NEW e \in Files(Host, name)
  PROVE  /\ EntryOf(Host, name) = e /\ EntryOf(Host, name) \in Files(Host, name)
         /\ e.first \in Nat /\ e.length \in Nat
<1>1. e \in Directory(Host) /\ e.name = name
  BY DEF Files
<1>2. EntryOf(Host, name) \in Directory(Host) /\ EntryOf(Host, name).name = name
  BY <1>1 DEF EntryOf
<1>3. EntryOf(Host, name) \in Files(Host, name)
  BY <1>2 DEF Files
<1>. QED  BY <1>1, <1>3, HostIsSound DEF FilesAreSound, DiskIsSound

\* What is found under a name is the entry of that name.
LEMMA FoundIsEntry ==
  ASSUME host \in DOMAIN Hosts, NEW name \in {LoaderName, KernelName},
         NEW s \in FirstDir .. FirstDir + DirSectors - 1, Matching(s, name) # {}
  PROVE  FoundEntry(s, name) = EntryOf(Host, name) /\ EntryOf(Host, name) \in Files(Host, name)
<1> DEFINE dir == Host.dir[s - FirstDir + 1]
<1>1. s - FirstDir + 1 \in DOMAIN Host.dir
  BY HostIsSound, LoaderAssumption DEF DiskIsSound, FirstDir
<1>2. Matching(s, name) \subseteq Nat
  BY <1>1, HostIsSound DEF Matching, DiskIsSound
<1>3. PICK i \in Matching(s, name) : FoundEntry(s, name) = dir[i]
  <2>1. \E i \in Matching(s, name) : \A j \in Matching(s, name) : i <= j
    BY <1>2, LeastElement
  <2>. QED  BY <2>1 DEF FoundEntry
<1>4. i \in DOMAIN dir /\ dir[i].name[1] = name[1]
  BY DEF Matching
<1>5. dir[i] \in Directory(Host)
  BY <1>1, <1>4 DEF Directory
<1>6. dir[i] \in Files(Host, name)
  <2>. HIDE DEF dir
  <2>. QED  BY <1>4, <1>5, HostIsSound DEF FilesAreSound, Files
<1>. QED  BY <1>3, <1>6, EntryIsOnly

\* What is found in no sector is not there.
LEMMA FoundIfThere ==
  ASSUME host \in DOMAIN Hosts, NEW name,
         \A s \in FirstDir .. FirstDir + DirSectors - 1 : Matching(s, name) = {}
  PROVE  Files(Host, name) = {}
<1>. SUFFICES ASSUME NEW e \in Files(Host, name) PROVE FALSE
  OBVIOUS
<1>1. PICK d \in DOMAIN Host.dir : \E i \in DOMAIN Host.dir[d] : e = Host.dir[d][i]
  BY DEF Files, Directory
<1>2. d \in 1 .. DirSectors
  BY <1>1, HostIsSound DEF DiskIsSound
<1>3. FirstDir + d - 1 \in FirstDir .. FirstDir + DirSectors - 1
      /\ (FirstDir + d - 1) - FirstDir + 1 = d
  BY <1>2, LoaderAssumption DEF FirstDir
<1>4. PICK i \in DOMAIN Host.dir[d] : e = Host.dir[d][i]
  BY <1>1
<1>5. i \in Matching(FirstDir + d - 1, name)
  BY <1>3, <1>4 DEF Matching, Files
<1>. QED  BY <1>3, <1>5

\* A machine that is said to be complete is.
LEMMA CompleteLacksNothing ==
  ASSUME host \in Complete
  PROVE  LacksNothing(Host)
  BY LoaderAssumption DEF Host

\* Clusters that are on the disk hold cells, and the next of them is in the FAT.
LEMMA ClusterOnDisk ==
  ASSUME host \in DOMAIN Hosts, NEW c \in DOMAIN Host.data
  PROVE  /\ c \in 0 .. LastCluster /\ Host.fat[c] \in Nat
         /\ \E Vals : Host.data[c] \in [1 .. SectorSize -> Vals]
<1>1. Host.data[c] \in [1 .. SectorSize -> {Host.data[c][i] : i \in 1 .. SectorSize}]
  BY HostIsSound DEF DiskIsSound
<1>2. \E Vals : Host.data[c] \in [1 .. SectorSize -> Vals]
  BY <1>1
<1>. QED  BY <1>2, HostIsSound DEF DiskIsSound

\* Byte i of cluster n is a byte of the file.
LEMMA ByteOfCluster ==
  ASSUME NEW m, NEW first, NEW n \in Nat, NEW i \in 0 .. SectorSize - 1
  PROVE  FileByte(m, first, n * SectorSize + i) = m.data[Clusters(m, first)[n]][i + 1]
  BY SectorOf DEF FileByte

\* Of memory: where it ends, and how KERNEL ends with it.
LEMMA EndOfMemory ==
  ASSUME host \in DOMAIN Hosts, Regions1MiB(Host.regions) # {}
  PROVE  /\ MemoryEnd(Host.regions) \in Nat /\ MemoryEnd(Host.regions) <= Top
         /\ MemoryEnd(Host.regions) % SectorSize = 0
<1>1. Regions1MiB(Host.regions) \subseteq Nat
  <2>1. DOMAIN Host.regions = 1 .. Len(Host.regions) /\ Len(Host.regions) \in Nat
    BY HostIsSound DEF MapIsSound
  <2>. QED  BY <2>1 DEF Regions1MiB
<1>2. \E k \in Regions1MiB(Host.regions) : \A l \in Regions1MiB(Host.regions) : k <= l
  BY <1>1, LeastElement
<1>3. PICK k \in Regions1MiB(Host.regions) :
        MemoryEnd(Host.regions) =
          OneMiB + (IF Host.regions[k].size > MaxMemory THEN MaxMemory ELSE Host.regions[k].size)
  BY <1>2 DEF MemoryEnd
<1>4. Host.regions[k].size \in Nat
  BY HostIsSound DEF MapIsSound, Regions1MiB
<1>5. MemoryEnd(Host.regions) \in Nat
  BY <1>3, <1>4, LoaderAssumption
<1>. QED  BY <1>5, HostIsSound DEF MapIsSound

\* KERNEL, once it has its place, fits between 1 MiB and the end of memory.
LEMMA KernelFits ==
  ASSUME host \in DOMAIN Hosts, kept = Host.regions, KernelIsPlaced
  PROVE  /\ ClustersOf(Kernel) \in Nat \ {0} /\ KernelSize \in Nat /\ Kernel.length <= KernelSize
         /\ Kernel.first \in Nat /\ Kernel.length \in Nat \ {0}
         /\ IsWhole(Host, Kernel) => /\ am.fileAt >= OneMiB /\ am.fileAt \in Nat
                                     /\ am.fileAt + KernelSize <= MemoryEnd(kept)
                                     /\ MemoryEnd(kept) \in Nat /\ MemoryEnd(kept) <= Top
<1>1. /\ Kernel \in Files(Host, KernelName) /\ Kernel.first \in Nat /\ Kernel.length \in Nat \ {0}
  <2>1. Kernel \in Files(Host, KernelName) /\ Kernel.length # 0
    BY DEF KernelIsPlaced
  <2>. QED  BY <2>1, EntryIsOnly
<1>2. /\ MemoryEnd(kept) \in Nat /\ MemoryEnd(kept) <= Top /\ MemoryEnd(kept) % SectorSize = 0
      /\ Regions1MiB(kept) # {} /\ am.fileAt = FilePlace(kept, Kernel.length)
  BY EndOfMemory DEF KernelIsPlaced
<1>3. /\ ClustersOf(Kernel) \in Nat \ {0} /\ Kernel.length <= KernelSize
      /\ am.fileAt >= 0 => am.fileAt + KernelSize <= MemoryEnd(kept)
  BY <1>1, <1>2, FileFits DEF FilePlace, ClustersOf, KernelSize
<1>4. KernelSize \in Nat
  BY <1>3, SectorsGrow DEF KernelSize
<1>5. am.fileAt >= OneMiB
  BY DEF KernelIsPlaced
<1>6. am.fileAt \in Int
  <2>1. (MemoryEnd(kept) - 1 - Kernel.length) \div SectorSize \in Int
    BY <1>1, <1>2, LoaderAssumption
  <2>. QED  BY <1>2, <2>1, LoaderAssumption DEF FilePlace
<1>. QED  BY <1>1, <1>2, <1>3, <1>4, <1>5, <1>6, LoaderAssumption
------------------------------------------------------------------------------
\* What is on the machine stays what it is.
LEMMA SameMachine ==
  ASSUME host' = host
  PROVE  /\ Host' = Host /\ Kernel' = Kernel /\ KernelSize' = KernelSize
         /\ KernelSegments' = KernelSegments
         /\ \A o : KernelByte(o)' = KernelByte(o)
         /\ \A k : KernelCluster(k)' = KernelCluster(k)
         /\ \A s, name : Matching(s, name)' = Matching(s, name) /\ FoundEntry(s, name)' = FoundEntry(s, name)
  BY DEF Host, Kernel, KernelSize, KernelSegments, KernelByte, KernelCluster, Matching, FoundEntry

\* A file has a number of clusters.
LEMMA FileHasClusters ==
  ASSUME NEW e, e.length \in Nat
  PROVE  ClustersOf(e) \in Nat /\ e.length <= ClustersOf(e) * SectorSize
<1>1. e.length + SectorSize - 1 \in Nat
  BY LoaderAssumption
<1>2. ClustersOf(e) \in Nat
  BY <1>1, SectorDivision DEF ClustersOf
<1>3. CASE e.length = 0
  BY <1>2, <1>3, SectorsGrow
<1>4. CASE e.length # 0
  <2>1. 0 % SectorSize = 0
    BY LoaderAssumption
  <2>. QED  BY <1>2, <1>4, <2>1, FileFits DEF ClustersOf
<1>. QED  BY <1>2, <1>3, <1>4

\* The machine starts so.
LEMMA LoaderInitHolds == LoaderInit => LoaderInv
<1>. SUFFICES ASSUME LoaderInit PROVE LoaderInv
  OBVIOUS
<1>. USE DEF LoaderInit
<1>1. LoaderTypeOK
  BY DEF LoaderTypeOK, FirstDir
<1>2. MapIsTaken
  <2>1. kept = [i \in 1 .. Len(kept) |-> Host.regions[i]] /\ Len(kept) = 0
    OBVIOUS
  <2>2. Host.regions # <<>> => 0 < Len(Host.regions)
    <3>1. Host.regions = [i \in 1 .. Len(Host.regions) |-> Host.regions[i]] /\ Len(Host.regions) \in Nat
      BY HostIsSound DEF MapIsSound
    <3>2. Len(Host.regions) = 0 => Host.regions = <<>>
      BY <3>1
    <3>. QED  BY <3>1, <3>2
  <2>. QED  BY <2>1, <2>2 DEF MapIsTaken
<1>. QED  BY <1>1, <1>2 DEF LoaderInv, DirectoryIsSearched, KernelIsLoaded

\* A function on 1 .. n is a sequence of length n.
LEMMA SequenceOfLength ==
  ASSUME NEW Vals, NEW n \in Nat, NEW t \in [1 .. n -> Vals]
  PROVE  t \in Seq(Vals) /\ Len(t) = n
  BY LenProperties, IsASeq

\* The boot sector finds the entry of LOADER, and nothing has been read.
LEMMA FindLoaderKeeps ==
  ASSUME LoaderInv, FindLoader
  PROVE  LoaderInv'
<1>. USE DEF FindLoader
<1>. DEFINE e == EntryOf(Host, LoaderName)
<1>0. LoaderTypeOK /\ MapIsTaken /\ host \in DOMAIN Hosts /\ am.sector = FirstDir
  BY DEF LoaderInv, LoaderTypeOK, DirectoryIsSearched
<1>1. FoundEntry(FirstDir, LoaderName) = e /\ e \in Files(Host, LoaderName)
  BY <1>0, FoundIsEntry, LoaderAssumption DEF FirstDir
<1>2. e.first \in Nat /\ e.length \in Nat
  BY <1>0, <1>1, EntryIsOnly
<1>. HIDE DEF e
<1>3. LoaderTypeOK'
  BY <1>0, <1>1, <1>2, SameMachine DEF LoaderTypeOK
<1>4. LoaderIsRead(0)'
  <2>1. 0 \in 0 .. ClustersOf(e) /\ 0 * SectorSize = 0
    BY <1>2, FileHasClusters, LoaderAssumption
  <2>2. am'.cluster = Clusters(Host, e.first)[0]
    BY <1>0, <1>1, ClustersFollow DEF LoaderTypeOK
  <2>3. program' = [i \in 1 .. 0 * SectorSize |-> FileByte(Host, e.first, i - 1)]
    BY <2>1 DEF LoaderInv
  <2>. QED  BY <1>1, <2>1, <2>2, <2>3, SameMachine DEF LoaderIsRead, e
<1>5. (\E n \in Nat : LoaderIsRead(n))'
  BY <1>4
<1>6. am'.fatSector = am.fatSector /\ am'.sector = FirstDir
  BY <1>0 DEF LoaderTypeOK
<1>7. MapIsTaken' /\ DirectoryIsSearched' /\ KernelIsLoaded'
  BY <1>0, <1>6, SameMachine DEF MapIsTaken, DirectoryIsSearched, KernelIsLoaded
<1>. QED  BY <1>3, <1>5, <1>6, <1>7 DEF LoaderInv

\* It reads one more cluster: all of them are in its one sector of the FAT.
LEMMA ReadLoaderKeeps ==
  ASSUME LoaderInv, ReadLoader
  PROVE  LoaderInv'
<1>. USE DEF ReadLoader
<1>. DEFINE e == EntryOf(Host, LoaderName)
            c == am.cluster
            B(o) == FileByte(Host, e.first, o)
<1>0. LoaderTypeOK /\ MapIsTaken /\ host \in DOMAIN Hosts /\ buffer = 1 /\ am.sector = FirstDir
  BY DEF LoaderInv, LoaderTypeOK, DirectoryIsSearched
<1>1. PICK n \in Nat : LoaderIsRead(n)
  BY DEF LoaderInv
<1>2. /\ e \in Files(Host, LoaderName) /\ n \in 0 .. ClustersOf(e)
      /\ c = Clusters(Host, e.first)[n] /\ program = [i \in 1 .. n * SectorSize |-> B(i - 1)]
  BY <1>1 DEF LoaderIsRead
<1>3. e.length \in Nat /\ ClustersOf(e) \in Nat
  <2>1. e.length \in Nat
    BY <1>0, <1>2, EntryIsOnly
  <2>. QED  BY <2>1, FileHasClusters
<1>4. IsWhole(Host, e)
  BY <1>0, <1>2, HostIsSound DEF FilesAreSound
<1>. HIDE DEF e
<1>5. n # ClustersOf(e)
  <2>1. c \in Nat /\ c <= BadCluster
    BY <1>0 DEF LoaderTypeOK
  <2>2. n = ClustersOf(e) => c > BadCluster
    BY <1>2, <1>4 DEF IsWhole
  <2>. QED  BY <2>1, <2>2, MarksAreHigh
<1>6. n \in 0 .. ClustersOf(e) - 1 /\ c \in DOMAIN Host.data
  <2>1. n \in 0 .. ClustersOf(e) - 1
    BY <1>2, <1>3, <1>5
  <2>2. \A k \in 0 .. ClustersOf(e) - 1 : Clusters(Host, e.first)[k] \in DOMAIN Host.data
    BY <1>4 DEF IsWhole, EndsAfter
  <2>. QED  BY <1>2, <2>1, <2>2
<1>7. c \in Nat /\ Host.fat[c] \in Nat /\ \E Cells : Host.data[c] \in [1 .. SectorSize -> Cells]
  <2>1. c \in 0 .. LastCluster /\ Host.fat[c] \in Nat
    BY <1>0, <1>6, ClusterOnDisk
  <2>2. \E Cells : Host.data[c] \in [1 .. SectorSize -> Cells]
    BY <1>0, <1>6, ClusterOnDisk
  <2>3. c \in Nat
    BY <2>1, MarksAreHigh
  <2>. QED  BY <2>1, <2>2, <2>3
<1>8. FatEntry(buffer, c) = Clusters(Host, e.first)[n + 1] /\ FatEntry(buffer, c) \in Nat
  <2>. HIDE DEF ReadLoader, c
  <2>0. FatEntries \in Nat
    BY LoaderAssumption
  <2>1. (1 - 1) * FatEntries + c = c
    BY <1>7, <2>0
  <2>2. FatEntry(buffer, c) = Host.fat[c]
    BY <1>0, <2>1 DEF FatEntry
  <2>. QED  BY <1>2, <1>7, <2>2, ClustersFollow
<1>9. program' = [i \in 1 .. (n + 1) * SectorSize |-> B(i - 1)]
  <2>0. PICK Cells : Host.data[c] \in [1 .. SectorSize -> Cells]
    BY <1>7
  <2> DEFINE Vals == {B(o) : o \in Nat} \cup Cells
             t == Host.data[c]
             N == n * SectorSize
  <2>1. N \in Nat /\ (n + 1) * SectorSize = N + SectorSize /\ SectorSize \in Nat
    BY SectorsGrow, LoaderAssumption
  <2>2. \A i \in 1 .. SectorSize : t[i] = B(N + i - 1)
    <3>1. ASSUME NEW i \in 1 .. SectorSize PROVE t[i] = B(N + i - 1)
      <4>1. i - 1 \in 0 .. SectorSize - 1 /\ (i - 1) + 1 = i /\ N + (i - 1) = N + i - 1
        BY <2>1
      <4>2. B(N + (i - 1)) = Host.data[Clusters(Host, e.first)[n]][(i - 1) + 1]
        BY <4>1, ByteOfCluster
      <4>. QED  BY <1>2, <4>1, <4>2
    <3>. QED  BY <3>1
  <2>3. program \in Seq(Vals) /\ Len(program) = N
    <3>1. \A i \in 1 .. N : i - 1 \in Nat
      BY <2>1
    <3>2. program \in [1 .. N -> Vals]
      <4>. HIDE DEF N, B
      <4>. QED  BY <1>2, <3>1 DEF N
    <3>. HIDE DEF Vals, N
    <3>. QED  BY <2>1, <3>2, SequenceOfLength
  <2>4. t \in Seq(Vals) /\ Len(t) = SectorSize
    <3>1. t \in [1 .. SectorSize -> Vals]
      BY <2>0
    <3>. HIDE DEF Vals, t
    <3>. QED  BY <2>1, <3>1, SequenceOfLength
  <2>. HIDE DEF Vals, N, t, B
  <2>5. /\ program \o t \in Seq(Vals) /\ Len(program \o t) = N + SectorSize
        /\ \A i \in 1 .. N + SectorSize : (program \o t)[i] = IF i <= N THEN program[i] ELSE t[i - N]
    BY <2>3, <2>4, ConcatProperties
  <2>6. program \o t = [i \in 1 .. N + SectorSize |-> (program \o t)[i]]
    BY <2>5, LenProperties
  <2>7. ASSUME NEW i \in 1 .. N + SectorSize
        PROVE  (program \o t)[i] = B(i - 1)
    <3>1. CASE i <= N
      <4>1. i \in 1 .. N
        BY <2>1, <3>1
      <4>2. program[i] = B(i - 1)
        BY <1>2, <4>1 DEF N
      <4>. QED  BY <2>5, <3>1, <4>2
    <3>2. CASE ~(i <= N)
      <4>1. i - N \in 1 .. SectorSize /\ N + (i - N) - 1 = i - 1
        BY <2>1, <3>2
      <4>. QED  BY <2>2, <2>5, <3>2, <4>1
    <3>. QED  BY <3>1, <3>2
  <2>8. program' = program \o t
    BY DEF t
  <2>. QED  BY <2>1, <2>6, <2>7, <2>8
<1>10. LoaderIsRead(n + 1)'
  <2>1. am'.cluster = Clusters(Host, e.first)[n + 1]
    BY <1>0, <1>8 DEF LoaderTypeOK
  <2>2. n + 1 \in 0 .. ClustersOf(e)
    BY <1>3, <1>6
  <2>. QED  BY <1>2, <1>9, <2>1, <2>2, SameMachine DEF LoaderIsRead, e
<1>11. (\E k \in Nat : LoaderIsRead(k))'
  <2>1. n + 1 \in Nat
    OBVIOUS
  <2>. QED  BY <1>10, <2>1
<1>12. LoaderTypeOK' /\ am'.fatSector = am.fatSector /\ am'.sector = FirstDir
  BY <1>0, <1>8 DEF LoaderTypeOK
<1>13. MapIsTaken' /\ DirectoryIsSearched' /\ KernelIsLoaded'
  BY <1>0, <1>12, SameMachine DEF MapIsTaken, DirectoryIsSearched, KernelIsLoaded
<1>. QED  BY <1>11, <1>12, <1>13 DEF LoaderInv

\* At the end of the chain LOADER is there as a whole.
LEMMA StartLoaderKeeps ==
  ASSUME LoaderInv, StartLoader
  PROVE  LoaderInv'
<1>. USE DEF StartLoader
<1>. DEFINE e == EntryOf(Host, LoaderName)
<1>0. LoaderTypeOK /\ MapIsTaken /\ host \in DOMAIN Hosts /\ am.sector = FirstDir
  BY DEF LoaderInv, LoaderTypeOK, DirectoryIsSearched
<1>1. PICK n \in Nat : LoaderIsRead(n)
  BY DEF LoaderInv
<1>2. /\ e \in Files(Host, LoaderName) /\ n \in 0 .. ClustersOf(e)
      /\ am.cluster = Clusters(Host, e.first)[n]
      /\ program = [i \in 1 .. n * SectorSize |-> FileByte(Host, e.first, i - 1)]
  BY <1>1 DEF LoaderIsRead
<1>3. e.length \in Nat /\ ClustersOf(e) \in Nat /\ e.length <= ClustersOf(e) * SectorSize
  <2>1. e.length \in Nat
    BY <1>0, <1>2, EntryIsOnly
  <2>. QED  BY <2>1, FileHasClusters
<1>4. IsWhole(Host, e)
  BY <1>0, <1>2, HostIsSound DEF FilesAreSound
<1>. HIDE DEF e
<1>5. n = ClustersOf(e)
  <2>. SUFFICES ASSUME n # ClustersOf(e) PROVE FALSE
    OBVIOUS
  <2>1. n \in 0 .. ClustersOf(e) - 1
    BY <1>2, <1>3
  <2>2. am.cluster \in 0 .. LastCluster
    BY <1>0, <1>2, <1>4, <2>1, ClusterOnDisk DEF IsWhole, EndsAfter
  <2>3. am.cluster > BadCluster
    OBVIOUS
  <2>. QED  BY <2>2, <2>3, MarksAreHigh
<1>6. \A o \in 0 .. e.length - 1 : program[o + 1] = FileByte(Host, e.first, o)
  <2>1. n * SectorSize \in Nat
    BY SectorsGrow
  <2>2. ASSUME NEW o \in 0 .. e.length - 1 PROVE program[o + 1] = FileByte(Host, e.first, o)
    <3>1. o + 1 \in 1 .. n * SectorSize /\ (o + 1) - 1 = o
      BY <1>3, <1>5, <2>1
    <3>. QED  BY <1>2, <3>1
  <2>. QED  BY <2>2
<1>7. KernelIsLoaded'
  BY <1>6, SameMachine DEF KernelIsLoaded, e
<1>8. MapIsTaken'
  <2>1. kept = <<>> /\ Len(kept) = 0 /\ kept = [i \in 1 .. Len(kept) |-> Host.regions[i]]
    BY <1>0 DEF MapIsTaken
  <2>2. Host.regions # <<>> => 0 < Len(Host.regions)
    <3>1. Host.regions = [i \in 1 .. Len(Host.regions) |-> Host.regions[i]] /\ Len(Host.regions) \in Nat
      BY <1>0, HostIsSound DEF MapIsSound
    <3>2. Len(Host.regions) = 0 => Host.regions = <<>>
      BY <3>1
    <3>. QED  BY <3>1, <3>2
  <2>. QED  BY <2>1, <2>2, SameMachine DEF MapIsTaken
<1>9. LoaderTypeOK' /\ DirectoryIsSearched'
  BY <1>0, SameMachine DEF LoaderTypeOK, DirectoryIsSearched
<1>. QED  BY <1>7, <1>8, <1>9 DEF LoaderInv
------------------------------------------------------------------------------
\* One more region is there, and the last one completes the map.
LEMMA RegionIsTaken ==
  ASSUME host \in DOMAIN Hosts, MapIsTaken, stage \in {"map", "grub"},
         NEW next, CopyRegion(next)
  PROVE  /\ Len(kept') \in Nat /\ kept' = [i \in 1 .. Len(kept') |-> Host.regions[i]]
         /\ Len(kept') < Len(Host.regions) => stage' = stage
         /\ ~(Len(kept') < Len(Host.regions)) => stage' = next /\ kept' = Host.regions
<1> DEFINE r == Host.regions
           n == Len(kept)
           Vals == {r[i] : i \in DOMAIN r}
<1>1. r = [i \in 1 .. Len(r) |-> r[i]] /\ Len(r) \in Nat
  BY HostIsSound DEF MapIsSound
<1>2. n \in Nat /\ kept = [i \in 1 .. n |-> r[i]] /\ n < Len(r)
  BY DEF MapIsTaken, CopyRegion
<1>. HIDE DEF n
<1>3. \A i \in 1 .. n + 1 : r[i] \in Vals
  BY <1>1, <1>2
<1>4. kept \in [1 .. n -> Vals] /\ r[n + 1] \in Vals
  <2>. HIDE DEF Vals
  <2>1. \A i \in 1 .. n : r[i] \in Vals
    BY <1>2, <1>3
  <2>2. r[n + 1] \in Vals
    BY <1>2, <1>3
  <2>. HIDE DEF r
  <2>. QED  BY <1>2, <2>1, <2>2
<1>5. kept \in Seq(Vals) /\ Len(kept) = n
  BY <1>2, <1>4, SequenceOfLength DEF n
<1>. HIDE DEF Vals, r
<1>6. kept' = Append(kept, r[n + 1])
  BY <1>5 DEF CopyRegion, r
<1>7. /\ kept' \in Seq(Vals) /\ Len(kept') = n + 1
      /\ \A i \in 1 .. n : kept'[i] = kept[i]
      /\ kept'[n + 1] = r[n + 1]
  BY <1>4, <1>5, <1>6, AppendProperties
<1>8. \A i \in 1 .. n + 1 : kept'[i] = r[i]
  <2>1. \A i \in 1 .. n + 1 : i \in 1 .. n \/ i = n + 1
    BY <1>2
  <2>. QED  BY <1>2, <1>7, <2>1
<1>9. kept' = [i \in 1 .. n + 1 |-> r[i]]
  <2>1. kept' = [i \in 1 .. n + 1 |-> kept'[i]]
    BY <1>7, LenProperties
  <2>. QED  BY <1>8, <2>1
<1>10. ~(n + 1 < Len(r)) => kept' = r
  <2>1. ~(n + 1 < Len(r)) => n + 1 = Len(r)
    BY <1>1, <1>2
  <2>. QED  BY <1>1, <1>9, <2>1
<1>. QED  BY <1>2, <1>7, <1>9, <1>10 DEF CopyRegion, r

\* LOADER copies the map from firmware.
LEMMA GetMemoryMapKeeps ==
  ASSUME LoaderInv, GetMemoryMap
  PROVE  LoaderInv'
<1>0. /\ LoaderTypeOK /\ MapIsTaken /\ KernelIsLoaded /\ host \in DOMAIN Hosts
      /\ stage = "map" /\ CopyRegion(IF Host.carry THEN "map" ELSE "directory")
  BY DEF LoaderInv, LoaderTypeOK, GetMemoryMap
<1>1. /\ Len(kept') \in Nat /\ kept' = [i \in 1 .. Len(kept') |-> Host.regions[i]]
      /\ Len(kept') < Len(Host.regions) => stage' = "map"
      /\ ~(Len(kept') < Len(Host.regions)) =>
           stage' = (IF Host.carry THEN "map" ELSE "directory") /\ kept' = Host.regions
  BY <1>0, RegionIsTaken
<1>2. UNCHANGED <<host, buffer, am, program, memory, segment>>
  BY <1>0 DEF CopyRegion
<1>3. MapIsTaken'
  BY <1>1, <1>2, SameMachine DEF MapIsTaken
<1>4. stage' \in {"map", "directory"}
  BY <1>1
<1>5. LoaderTypeOK'
  BY <1>0, <1>2 DEF LoaderTypeOK
<1>6. DirectoryIsSearched'
  <2>1. am.sector = FirstDir /\ FirstDir \in FirstDir .. FirstDir + DirSectors
    BY <1>0, LoaderAssumption DEF LoaderInv, DirectoryIsSearched, FirstDir
  <2>2. FirstDir .. FirstDir - 1 = {}
    BY DEF FirstDir
  <2>. QED  BY <1>2, <1>4, <2>1, <2>2 DEF DirectoryIsSearched
<1>7. KernelIsLoaded'
  <2>1. stage' = "map" => KernelIsLoaded'
    BY <1>0, <1>2, SameMachine DEF KernelIsLoaded
  <2>2. stage' = "directory" => KernelIsLoaded'
    BY DEF KernelIsLoaded
  <2>. QED  BY <1>4, <2>1, <2>2
<1>8. memory' = [a \in OneMiB .. Top - 1 |-> "old"] /\ am'.fatSector = 0 /\ segment' = [n |-> 1, at |-> 0]
  BY <1>0, <1>2 DEF LoaderInv
<1>. QED  BY <1>3, <1>4, <1>5, <1>6, <1>7, <1>8 DEF LoaderInv

\* boot.S copies what GRUB has left of it.
LEMMA SaveGrubMapKeeps ==
  ASSUME LoaderInv, SaveGrubMap
  PROVE  LoaderInv'
<1>0. /\ LoaderTypeOK /\ MapIsTaken /\ host \in DOMAIN Hosts /\ program = <<>>
      /\ stage = "grub" /\ CopyRegion("main")
  BY DEF LoaderInv, LoaderTypeOK, SaveGrubMap
<1>1. /\ Len(kept') \in Nat /\ kept' = [i \in 1 .. Len(kept') |-> Host.regions[i]]
      /\ Len(kept') < Len(Host.regions) => stage' = "grub"
      /\ ~(Len(kept') < Len(Host.regions)) => stage' = "main" /\ kept' = Host.regions
  BY <1>0, RegionIsTaken
<1>2. UNCHANGED <<host, buffer, am, program, memory, segment>>
  BY <1>0 DEF CopyRegion
<1>3. MapIsTaken' /\ stage' \in {"grub", "main"}
  BY <1>1, <1>2, SameMachine DEF MapIsTaken
<1>4. LoaderTypeOK' /\ DirectoryIsSearched'
  BY <1>0, <1>2, <1>3 DEF LoaderTypeOK, DirectoryIsSearched
<1>5. KernelIsLoaded'
  BY <1>0, <1>1, <1>2, <1>3, SameMachine DEF KernelIsLoaded
<1>6. program' = <<>>
  BY <1>0, <1>2
<1>. QED  BY <1>3, <1>4, <1>5, <1>6 DEF LoaderInv

\* One more sector of the directory has no KERNEL, or has it.
LEMMA SearchDirectoryKeeps ==
  ASSUME LoaderInv, SearchDirectory
  PROVE  LoaderInv'
<1>. USE DEF SearchDirectory
<1>0. /\ LoaderTypeOK /\ MapIsTaken /\ host \in DOMAIN Hosts
      /\ am.sector \in FirstDir .. FirstDir + DirSectors - 1
      /\ \A s \in FirstDir .. am.sector - 1 : Matching(s, KernelName) = {}
      /\ memory = [a \in OneMiB .. Top - 1 |-> "old"] /\ am.fatSector = 0
      /\ segment = [n |-> 1, at |-> 0]
  <2>1. /\ LoaderTypeOK /\ MapIsTaken /\ DirectoryIsSearched /\ host \in DOMAIN Hosts
        /\ memory = [a \in OneMiB .. Top - 1 |-> "old"] /\ am.fatSector = 0
        /\ segment = [n |-> 1, at |-> 0]
    BY DEF LoaderInv, LoaderTypeOK
  <2>2. /\ am.sector \in FirstDir .. FirstDir + DirSectors /\ am.sector < FirstDir + DirSectors
        /\ \A s \in FirstDir .. am.sector - 1 : Matching(s, KernelName) = {}
    BY <2>1 DEF DirectoryIsSearched
  <2>3. am.sector \in FirstDir .. FirstDir + DirSectors - 1
    BY <2>2, LoaderAssumption DEF FirstDir
  <2>. QED  BY <2>1, <2>2, <2>3
<1>1. stage' \in {"directory", "place"} /\ MapIsTaken'
  BY <1>0, SameMachine DEF MapIsTaken
<1>2. am' \in {am, [am EXCEPT !.sector = am.sector + 1]}
  OBVIOUS
<1>3. LoaderTypeOK' /\ am'.fatSector = 0
  <2>1. am \in [sector : Nat, cluster : Nat, fatSector : Nat, writeAt : Int, fileAt : Int]
    BY <1>0 DEF LoaderTypeOK
  <2>2. am' \in [sector : Nat, cluster : Nat, fatSector : Nat, writeAt : Int, fileAt : Int] /\ am'.fatSector = 0
    BY <1>0, <1>2, <2>1
  <2>. QED  BY <1>0, <2>2 DEF LoaderTypeOK
<1>4. DirectoryIsSearched'
  <2>1. CASE Matching(am.sector, KernelName) = {}
    <3>1. stage' = "directory" /\ am'.sector = am.sector + 1 /\ host' = host
      BY <1>0, <2>1 DEF LoaderTypeOK
    <3>. HIDE DEF SearchDirectory
    <3>0. FirstDir \in Nat /\ DirSectors \in Nat
      BY LoaderAssumption DEF FirstDir
    <3>2. am'.sector \in FirstDir .. FirstDir + DirSectors
      BY <1>0, <3>0, <3>1
    <3>3. \A s \in FirstDir .. am'.sector - 1 : s \in FirstDir .. am.sector - 1 \/ s = am.sector
      BY <1>0, <3>0, <3>1
    <3>4. \A s \in FirstDir .. am'.sector - 1 : Matching(s, KernelName) = {}
      BY <1>0, <2>1, <3>3
    <3>. QED  BY <3>1, <3>2, <3>4, SameMachine DEF DirectoryIsSearched
  <2>2. CASE Matching(am.sector, KernelName) # {}
    <3>1. stage' = "place" /\ buffer' = am.sector
      BY <2>2
    <3>. QED  BY <1>0, <2>2, <3>1, SameMachine DEF DirectoryIsSearched
  <2>. QED  BY <2>1, <2>2
<1>5. KernelIsLoaded'
  BY <1>1 DEF KernelIsLoaded
<1>. QED  BY <1>0, <1>1, <1>3, <1>4, <1>5 DEF LoaderInv

\* KERNEL gets its place, and nothing of it has been read.
LEMMA PlaceFileKeeps ==
  ASSUME LoaderInv, PlaceFile
  PROVE  LoaderInv'
<1>. USE DEF PlaceFile
<1>0. /\ LoaderTypeOK /\ MapIsTaken /\ host \in DOMAIN Hosts /\ kept = Host.regions
      /\ buffer \in FirstDir .. FirstDir + DirSectors - 1 /\ Matching(buffer, KernelName) # {}
      /\ memory = [a \in OneMiB .. Top - 1 |-> "old"] /\ am.fatSector = 0
      /\ segment = [n |-> 1, at |-> 0]
  BY DEF LoaderInv, LoaderTypeOK, DirectoryIsSearched, MapIsTaken
<1>1. Found = Kernel /\ Kernel \in Files(Host, KernelName)
  BY <1>0, FoundIsEntry DEF Found, Kernel
<1>2. Kernel.first \in Nat /\ Kernel.length \in Nat
  BY <1>0, <1>1, EntryIsOnly
<1>3. FilePlace(kept, Kernel.length) \in Int
  <2>1. MemoryEnd(kept) \in Nat
    BY <1>0, EndOfMemory
  <2>2. (MemoryEnd(kept) - 1 - Kernel.length) \div SectorSize \in Int
    BY <1>2, <2>1, LoaderAssumption
  <2>. QED  BY <2>2, LoaderAssumption DEF FilePlace
<1>4. /\ am'.cluster = Kernel.first /\ am'.writeAt = am'.fileAt /\ am'.fatSector = 0
      /\ am'.fileAt = FilePlace(kept, Kernel.length) /\ am'.fileAt \in Int /\ am'.fileAt >= OneMiB
  BY <1>0, <1>1, <1>3 DEF LoaderTypeOK
<1>5. LoaderTypeOK'
  BY <1>0, <1>1, <1>2, <1>3 DEF LoaderTypeOK
<1>6. MapIsTaken' /\ DirectoryIsSearched' /\ KernelIsLoaded'
  BY <1>0, SameMachine DEF MapIsTaken, DirectoryIsSearched, KernelIsLoaded
<1>7. KernelIsPlaced'
  BY <1>1, <1>4, SameMachine DEF KernelIsPlaced
<1>8. KernelIsRead(0)'
  <2>1. 0 \in 0 .. ClustersOf(Kernel) /\ 0 * SectorSize = 0 /\ 0 .. 0 - 1 = {}
    BY <1>2, FileHasClusters, LoaderAssumption
  <2>2. am'.writeAt = am'.fileAt + 0 * SectorSize
    BY <1>4, <2>1
  <2>3. KernelCluster(0) = Kernel.first
    BY ClustersFollow DEF KernelCluster
  <2>. QED  BY <1>4, <2>1, <2>2, <2>3, SameMachine DEF KernelIsRead
<1>9. (\E n \in Nat : KernelIsRead(n))'
  BY <1>8
<1>10. (\A a \in DOMAIN memory : memory[a] = FileOrOld(a))'
  <2>1. am'.fileAt .. am'.writeAt - 1 = {}
    BY <1>4
  <2>2. \A a \in DOMAIN memory' : memory'[a] = "old"
    BY <1>0
  <2>. QED  BY <2>1, <2>2 DEF FileOrOld
<1>. QED  BY <1>0, <1>4, <1>5, <1>6, <1>7, <1>9, <1>10 DEF LoaderInv
------------------------------------------------------------------------------
\* A cluster that is no mark is on the disk; the end comes after as many as KERNEL has.
LEMMA KernelEnds ==
  ASSUME LoaderTypeOK, KernelIsPlaced, NEW n \in Nat, KernelIsRead(n)
  PROVE  /\ am.cluster <= LastCluster =>
              n \in 0 .. ClustersOf(Kernel) - 1 /\ am.cluster \in DOMAIN Host.data
         /\ am.cluster > BadCluster => n = ClustersOf(Kernel) /\ IsWhole(Host, Kernel)
<1>0. host \in DOMAIN Hosts /\ am.cluster \in Nat /\ LastCluster \in Nat /\ BadCluster \in Nat
      /\ LastCluster < BadCluster
  BY MarksAreHigh DEF LoaderTypeOK
<1>1. Kernel \in Files(Host, KernelName) /\ Kernel.length # 0
  BY DEF KernelIsPlaced
<1>2. Kernel.length \in Nat /\ ClustersOf(Kernel) \in Nat
  BY <1>0, <1>1, EntryIsOnly, FileHasClusters
<1>3. /\ n \in 0 .. ClustersOf(Kernel) /\ am.cluster = KernelCluster(n)
      /\ \A k \in 0 .. n - 1 : KernelCluster(k) \in DOMAIN Host.data
  BY DEF KernelIsRead
<1>4. IsWhole(Host, Kernel) \/ IsDamaged(Host, Kernel)
  BY <1>0, <1>1, HostIsSound DEF FilesAreSound
<1>5. PICK N \in 0 .. ClustersOf(Kernel) :
        /\ EndsAfter(Host, Kernel, N)
        /\ \/ N = ClustersOf(Kernel) /\ IsWhole(Host, Kernel)
           \/ KernelCluster(N) <= BadCluster
  <2>1. CASE IsWhole(Host, Kernel)
    <3>1. ClustersOf(Kernel) \in 0 .. ClustersOf(Kernel)
      BY <1>2
    <3>. QED  BY <2>1, <3>1 DEF IsWhole
  <2>2. CASE IsDamaged(Host, Kernel)
    BY <2>2 DEF IsDamaged, KernelCluster
  <2>. QED  BY <1>4, <2>1, <2>2
<1>6. /\ \A k \in 0 .. N - 1 : KernelCluster(k) \in DOMAIN Host.data
      /\ KernelCluster(N) > LastCluster
  BY <1>5 DEF EndsAfter, KernelCluster
<1>7. \A k : KernelCluster(k) \in DOMAIN Host.data => KernelCluster(k) \in 0 .. LastCluster
  BY <1>0, ClusterOnDisk
<1>8. ~(n > N)
  <2>. SUFFICES ASSUME n > N PROVE FALSE
    OBVIOUS
  <2>1. N \in 0 .. n - 1
    BY <1>2
  <2>2. KernelCluster(N) \in 0 .. LastCluster
    BY <1>3, <1>7, <2>1
  <2>. QED  BY <1>0, <1>6, <2>2
<1>9. CASE n = N
  <2>1. am.cluster > LastCluster
    BY <1>3, <1>6, <1>9
  <2>2. am.cluster > BadCluster => ~(KernelCluster(N) <= BadCluster)
    BY <1>0, <1>3, <1>9
  <2>. QED  BY <1>0, <1>5, <1>9, <2>1, <2>2
<1>10. CASE n # N
  <2>1. n \in 0 .. N - 1 /\ n \in 0 .. ClustersOf(Kernel) - 1
    BY <1>2, <1>3, <1>8, <1>10
  <2>2. am.cluster \in DOMAIN Host.data /\ am.cluster \in 0 .. LastCluster
    BY <1>3, <1>6, <1>7, <2>1
  <2>. QED  BY <1>0, <2>1, <2>2
<1>. QED  BY <1>9, <1>10

\* One more cluster of it is read to where its bytes belong.
LEMMA ReadClusterKeeps ==
  ASSUME LoaderInv, ReadCluster
  PROVE  LoaderInv'
<1>. USE DEF ReadCluster
<1>. DEFINE c == am.cluster
<1>0. /\ LoaderTypeOK /\ MapIsTaken /\ host \in DOMAIN Hosts /\ kept = Host.regions
      /\ KernelIsPlaced /\ (am.fatSector # 0 => buffer = am.fatSector)
      /\ \A a \in DOMAIN memory : memory[a] = FileOrOld(a)
      /\ segment = [n |-> 1, at |-> 0]
  BY DEF LoaderInv, LoaderTypeOK, MapIsTaken
<1>1. PICK n \in Nat : KernelIsRead(n)
  BY DEF LoaderInv
<1>2. /\ n \in 0 .. ClustersOf(Kernel) /\ am.writeAt = am.fileAt + n * SectorSize
      /\ c = KernelCluster(n) /\ \A k \in 0 .. n - 1 : KernelCluster(k) \in DOMAIN Host.data
  BY <1>1 DEF KernelIsRead
<1>3. n \in 0 .. ClustersOf(Kernel) - 1 /\ c \in DOMAIN Host.data
  BY <1>0, <1>1, KernelEnds
<1>4. c \in Nat /\ Host.fat[c] \in Nat
  <2>1. c \in Nat
    BY <1>0 DEF LoaderTypeOK
  <2>. QED  BY <1>0, <1>3, <2>1, ClusterOnDisk
<1>5. buffer' = FatSector /\ FatSector \in Nat \ {0} /\ FatSector = c \div FatEntries + 1
  <2>1. FatSector \in Nat \ {0} /\ FatSector = c \div FatEntries + 1
    BY <1>4, FatDivision DEF FatSector
  <2>2. HasFatSector => buffer = FatSector
    BY <1>0, <2>1 DEF HasFatSector
  <2>. QED  BY <2>1, <2>2
<1>6. FatEntry(buffer', c % FatEntries) = Host.fat[c]
  BY <1>4, <1>5, FatDivision DEF FatEntry
<1>7. /\ am' \in [sector : Nat, cluster : Nat, fatSector : Nat, writeAt : Int, fileAt : Int]
      /\ am'.fileAt = am.fileAt /\ am'.writeAt = am.writeAt + SectorSize
      /\ am'.cluster = Host.fat[c] /\ am'.fatSector = buffer'
  <2>1. am' = [am EXCEPT !.fatSector = FatSector, !.writeAt = am.writeAt + SectorSize, !.cluster = Host.fat[c]]
    BY <1>5, <1>6
  <2>2. /\ am \in [sector : Nat, cluster : Nat, fatSector : Nat, writeAt : Int, fileAt : Int]
        /\ am.writeAt + SectorSize \in Int
    BY <1>0, LoaderAssumption DEF LoaderTypeOK
  <2>. HIDE DEF ReadCluster
  <2>. QED  BY <1>4, <1>5, <2>1, <2>2
<1>8. am.fileAt \in Int /\ am.writeAt \in Int /\ SectorSize \in Nat \ {0}
  BY <1>0, LoaderAssumption DEF LoaderTypeOK
<1>9. n * SectorSize \in Nat /\ (n + 1) * SectorSize = n * SectorSize + SectorSize
  BY SectorsGrow
<1>10. LoaderTypeOK'
  <2>1. memory' = [a \in OneMiB .. Top - 1 |-> memory'[a]]
    BY <1>0 DEF LoaderTypeOK
  <2>2. host' = host /\ UNCHANGED segment
    BY <1>7
  <2>3. am' \in [sector : Nat, cluster : Nat, fatSector : Nat, writeAt : Int, fileAt : Int]
    BY <1>7
  <2>. QED  BY <1>0, <2>1, <2>2, <2>3 DEF LoaderTypeOK
<1>11. KernelIsPlaced'
  BY <1>0, <1>7, SameMachine DEF KernelIsPlaced
<1>12. KernelIsRead(n + 1)'
  <2>1. n + 1 \in 0 .. ClustersOf(Kernel)
    BY <1>0, <1>3, KernelFits
  <2>2. am'.writeAt = am'.fileAt + (n + 1) * SectorSize
    BY <1>2, <1>7, <1>8, <1>9
  <2>3. am'.cluster = KernelCluster(n + 1)
    BY <1>2, <1>7, ClustersFollow DEF KernelCluster
  <2>4. \A k \in 0 .. (n + 1) - 1 : KernelCluster(k) \in DOMAIN Host.data
    <3>1. \A k \in 0 .. (n + 1) - 1 : k \in 0 .. n - 1 \/ k = n
      OBVIOUS
    <3>. QED  BY <1>2, <1>3, <3>1
  <2>. QED  BY <2>1, <2>2, <2>3, <2>4, SameMachine DEF KernelIsRead
<1>13. (\E k \in Nat : KernelIsRead(k))'
  <2>1. n + 1 \in Nat
    OBVIOUS
  <2>. QED  BY <1>12, <2>1
<1>14. (\A a \in DOMAIN memory : memory[a] = FileOrOld(a))'
  <2>. SUFFICES ASSUME NEW a \in DOMAIN memory' PROVE memory'[a] = FileOrOld(a)'
    OBVIOUS
  <2>1. a \in DOMAIN memory /\ a \in Int
    BY <1>0 DEF LoaderTypeOK
  <2>2. FileOrOld(a)' = IF a \in am.fileAt .. am.writeAt + SectorSize - 1
                        THEN KernelByte(a - am.fileAt) ELSE "old"
    <3>1. FileOrOld(a)' = IF a \in am'.fileAt .. am'.writeAt - 1 THEN KernelByte(a - am.fileAt)' ELSE "old"
      BY DEF FileOrOld
    <3>2. KernelByte(a - am.fileAt)' = KernelByte(a - am.fileAt)
      <4>1. host' = host /\ am'.fileAt = am.fileAt
        BY <1>7
      <4>. HIDE DEF ReadCluster
      <4>. QED  BY <4>1 DEF KernelByte, Kernel, Host
    <3>3. am'.fileAt .. am'.writeAt - 1 = am.fileAt .. am.writeAt + SectorSize - 1
      BY <1>7, <1>8
    <3>. HIDE DEF ReadCluster
    <3>. QED  BY <3>1, <3>2, <3>3
  <2>3. CASE a \in am.writeAt .. am.writeAt + SectorSize - 1
    <3>1. PICK i \in 0 .. SectorSize - 1 : a = am.writeAt + i
      <4>1. a - am.writeAt \in 0 .. SectorSize - 1 /\ a = am.writeAt + (a - am.writeAt)
        BY <1>8, <2>3
      <4>. QED  BY <4>1
    <3>2. a - am.fileAt = n * SectorSize + i /\ a - am.writeAt + 1 = i + 1
      BY <1>2, <1>8, <1>9, <3>1
    <3>3. KernelByte(a - am.fileAt) = Host.data[c][i + 1]
      BY <1>2, <3>2, ByteOfCluster DEF KernelByte, KernelCluster
    <3>4. memory'[a] = Host.data[c][a - am.writeAt + 1]
      BY <2>1, <2>3
    <3>5. a \in am.fileAt .. am.writeAt + SectorSize - 1
      BY <1>2, <1>8, <1>9, <2>3
    <3>. QED  BY <2>2, <3>2, <3>3, <3>4, <3>5
  <2>4. CASE a \notin am.writeAt .. am.writeAt + SectorSize - 1
    <3>1. memory'[a] = memory[a]
      BY <2>1, <2>4
    <3>2. a \in am.fileAt .. am.writeAt + SectorSize - 1 <=> a \in am.fileAt .. am.writeAt - 1
      BY <1>2, <1>8, <1>9, <2>1, <2>4
    <3>3. memory[a] = FileOrOld(a)
      BY <1>0, <2>1
    <3>. QED  BY <2>2, <3>1, <3>2, <3>3 DEF FileOrOld
  <2>. QED  BY <2>3, <2>4
<1>15. MapIsTaken' /\ DirectoryIsSearched' /\ KernelIsLoaded'
  BY <1>0, SameMachine DEF MapIsTaken, DirectoryIsSearched, KernelIsLoaded
<1>. QED  BY <1>0, <1>7, <1>10, <1>11, <1>13, <1>14, <1>15 DEF LoaderInv

\* At the end of the chain all clusters have been read.
LEMMA EndOfFileKeeps ==
  ASSUME LoaderInv, EndOfFile
  PROVE  LoaderInv'
<1>. USE DEF EndOfFile
<1>0. /\ LoaderTypeOK /\ MapIsTaken /\ host \in DOMAIN Hosts /\ KernelIsPlaced
      /\ \A a \in DOMAIN memory : memory[a] = FileOrOld(a)
      /\ segment = [n |-> 1, at |-> 0]
  BY DEF LoaderInv, LoaderTypeOK, MapIsTaken
<1>1. PICK n \in Nat : KernelIsRead(n)
  BY DEF LoaderInv
<1>2. n = ClustersOf(Kernel) /\ IsWhole(Host, Kernel)
  BY <1>0, <1>1, KernelEnds
<1>3. am.writeAt = am.fileAt + KernelSize
  BY <1>1, <1>2 DEF KernelIsRead, KernelSize
<1>4. KernelIsThere'
  BY <1>0, <1>2, <1>3, SameMachine DEF KernelIsThere, KernelIsPlaced
<1>5. MapIsTaken' /\ DirectoryIsSearched' /\ KernelIsLoaded'
  BY <1>0, SameMachine DEF MapIsTaken, DirectoryIsSearched, KernelIsLoaded
<1>6. LoaderTypeOK' /\ (\A a \in DOMAIN memory : memory[a] = FileOrOld(a))'
  BY <1>0, SameMachine DEF LoaderTypeOK, FileOrOld
<1>. QED  BY <1>0, <1>4, <1>5, <1>6 DEF LoaderInv
------------------------------------------------------------------------------
\* What is known of the segments, and of those that are loaded, if none reaches into the file.
LEMMA SegmentsLie ==
  ASSUME LoaderTypeOK, kept = Host.regions, KernelIsThere, KernelByte(0) \in DOMAIN Headers,
         FileIsClear(Host)
  PROVE  /\ DOMAIN KernelSegments = 1 .. Len(KernelSegments) /\ Len(KernelSegments) \in Nat
         /\ \A n \in DOMAIN KernelSegments :
              LET g == KernelSegments[n] IN
              /\ g.paddr \in Nat /\ g.filesz \in Nat /\ g.offset \in Nat /\ g.memsz \in Nat
              /\ IsLoaded(g) =>
                   /\ g.paddr >= OneMiB /\ g.paddr + g.memsz <= am.fileAt
                   /\ g.offset + g.filesz <= KernelSize
                   /\ \A l \in DOMAIN KernelSegments \ {n} :
                        IsLoaded(KernelSegments[l]) => Addresses(g) \cap Addresses(KernelSegments[l]) = {}
<1>0. host \in DOMAIN Hosts
  BY DEF LoaderTypeOK
<1>1. /\ KernelIsPlaced /\ IsWhole(Host, Kernel)
      /\ Kernel \in Files(Host, KernelName) /\ Kernel.length # 0 /\ Regions1MiB(Host.regions) # {}
      /\ am.fileAt = FilePlace(Host.regions, Kernel.length) /\ am.fileAt >= OneMiB
  BY DEF KernelIsThere, KernelIsPlaced
<1>2. SegmentsOf(Host) = KernelSegments /\ FileByte(Host, Kernel.first, 0) \in DOMAIN Headers
  BY DEF SegmentsOf, KernelSegments, KernelByte, Kernel
<1>3. /\ DOMAIN KernelSegments = 1 .. Len(KernelSegments) /\ Len(KernelSegments) \in Nat
      /\ \A n \in DOMAIN KernelSegments :
           LET g == KernelSegments[n] IN
           g.paddr \in Nat /\ g.filesz \in Nat /\ g.offset \in Nat /\ g.memsz \in Nat
  <2>1. HeadersAreSound
    BY LoaderAssumption
  <2>. QED  BY <2>1 DEF HeadersAreSound, KernelSegments
<1>4. \A n \in DOMAIN KernelSegments : IsLoaded(KernelSegments[n]) =>
        LET g == KernelSegments[n] IN
        /\ g.paddr + g.memsz <= am.fileAt /\ g.offset + g.filesz <= Kernel.length
        /\ \A l \in DOMAIN KernelSegments \ {n} :
             IsLoaded(KernelSegments[l]) => Addresses(g) \cap Addresses(KernelSegments[l]) = {}
  <2>1. KernelIsSound(Host)
    BY <1>0, HostIsSound
  <2>2. \A n \in DOMAIN KernelSegments : IsLoaded(KernelSegments[n]) =>
          KernelSegments[n].paddr + KernelSegments[n].memsz <= am.fileAt
    BY <1>1, <1>2 DEF FileIsClear, Kernel
  <2>. QED  BY <1>1, <1>2, <2>1, <2>2 DEF KernelIsSound
<1>5. Kernel.length \in Nat /\ KernelSize \in Nat /\ Kernel.length <= KernelSize
  BY <1>0, <1>1, KernelFits
<1>6. ASSUME NEW n \in DOMAIN KernelSegments, IsLoaded(KernelSegments[n])
      PROVE  /\ KernelSegments[n].paddr >= OneMiB
             /\ KernelSegments[n].offset + KernelSegments[n].filesz <= KernelSize
  <2>1. KernelSegments[n].offset + KernelSegments[n].filesz <= Kernel.length
    BY <1>4, <1>6
  <2>2. KernelSegments[n].offset \in Nat /\ KernelSegments[n].filesz \in Nat
    BY <1>3
  <2>. QED  BY <1>5, <1>6, <2>1, <2>2 DEF IsLoaded, IsLoadable
<1>. QED  BY <1>3, <1>4, <1>6

\* Only segments that are loaded are copied.
LEMMA CopiedIsLoaded ==
  ASSUME LoaderTypeOK, kept = Host.regions, KernelIsThere, SegmentsAreCopied, FileIsClear(Host),
         segment.at = 0 \/ IsLoaded(KernelSegments[segment.n]),
         NEW n \in DOMAIN KernelSegments, NEW a \in Copied(n)
  PROVE  IsLoaded(KernelSegments[n]) /\ a \in Int /\ a >= OneMiB /\ a < am.fileAt
<1> DEFINE g == KernelSegments[n]
<1>1. /\ a \in g.paddr .. g.paddr + g.memsz - 1 /\ g.type = "LOAD"
      /\ n < segment.n \/ (n = segment.n /\ a < g.paddr + segment.at)
  BY DEF Copied, Addresses
<1>2. g.paddr \in Nat /\ g.memsz \in Nat
  BY SegmentsLie DEF SegmentsAreCopied
<1>3. IsLoaded(g)
  <2>1. CASE n < segment.n
    BY <1>1, <2>1 DEF SegmentsAreCopied, IsLoaded
  <2>2. CASE n = segment.n /\ a < g.paddr + segment.at
    <3>1. segment.at # 0
      BY <1>1, <1>2, <2>2
    <3>. QED  BY <2>2, <3>1
  <2>. QED  BY <1>1, <2>1, <2>2
<1>4. g.paddr >= OneMiB /\ g.paddr + g.memsz <= am.fileAt
  BY <1>3, SegmentsLie DEF SegmentsAreCopied
<1>5. am.fileAt \in Int /\ OneMiB \in Nat
  BY LoaderAssumption DEF LoaderTypeOK
<1>6. a \in Int /\ a >= OneMiB /\ a < am.fileAt
  <2>. HIDE DEF g
  <2>. QED  BY <1>1, <1>2, <1>4, <1>5
<1>. QED  BY <1>3, <1>6

\* No segment has been copied over the file.
LEMMA FileStays ==
  ASSUME LoaderTypeOK, kept = Host.regions, KernelIsThere, SegmentsAreCopied, FileIsClear(Host),
         segment.at = 0 \/ IsLoaded(KernelSegments[segment.n]),
         NEW o \in 0 .. KernelSize - 1
  PROVE  am.fileAt + o \in DOMAIN memory /\ memory[am.fileAt + o] = KernelByte(o)
<1>1. /\ KernelSize \in Nat /\ am.fileAt \in Nat /\ am.fileAt >= OneMiB
      /\ am.fileAt + KernelSize <= MemoryEnd(kept) /\ MemoryEnd(kept) \in Nat /\ MemoryEnd(kept) <= Top
  BY KernelFits DEF KernelIsThere, LoaderTypeOK
<1>2. am.fileAt + o \in OneMiB .. Top - 1
  BY <1>1, LoaderAssumption
<1>3. am.fileAt + o \in DOMAIN memory
  BY <1>2 DEF LoaderTypeOK
<1>4. \A n \in DOMAIN KernelSegments : am.fileAt + o \notin Copied(n)
  BY <1>1, CopiedIsLoaded
<1>5. FileOrOld(am.fileAt + o) = KernelByte(o)
  <2>1. am.fileAt + o \in am.fileAt .. am.writeAt - 1 /\ (am.fileAt + o) - am.fileAt = o
    BY <1>1 DEF KernelIsThere
  <2>. QED  BY <2>1 DEF FileOrOld
<1>. QED  BY <1>3, <1>4, <1>5 DEF SegmentsAreCopied

\* So that its header is still read.
LEMMA HeaderStays ==
  ASSUME LoaderTypeOK, kept = Host.regions, KernelIsThere, SegmentsAreCopied, FileIsClear(Host),
         segment.at = 0 \/ IsLoaded(KernelSegments[segment.n])
  PROVE  Header = KernelByte(0) /\ Segments = KernelSegments /\ Current = KernelSegments[segment.n]
<1>1. KernelSize \in Nat \ {0} /\ am.fileAt \in Nat
  BY KernelFits DEF KernelIsThere, LoaderTypeOK
<1>2. 0 \in 0 .. KernelSize - 1 /\ am.fileAt + 0 = am.fileAt
  BY <1>1
<1>3. Header = KernelByte(0)
  BY <1>2, FileStays DEF Header
<1>. QED  BY <1>3 DEF Segments, Current, KernelSegments

\* Before the first segment memory has the header of the file.
LEMMA HeaderIsRead ==
  ASSUME LoaderTypeOK, kept = Host.regions, KernelIsThere,
         \A a \in DOMAIN memory : memory[a] = FileOrOld(a)
  PROVE  Header = KernelByte(0)
<1>0. KernelIsPlaced /\ IsWhole(Host, Kernel) /\ host \in DOMAIN Hosts /\ am.writeAt = am.fileAt + KernelSize
      /\ DOMAIN memory = OneMiB .. Top - 1
  BY DEF KernelIsThere, LoaderTypeOK
<1>1. /\ KernelSize \in Nat \ {0} /\ am.fileAt \in Nat /\ am.fileAt >= OneMiB
      /\ am.fileAt + KernelSize <= Top /\ am.writeAt = am.fileAt + KernelSize
  BY <1>0, KernelFits, LoaderAssumption
<1>2. am.fileAt \in DOMAIN memory
  BY <1>0, <1>1, LoaderAssumption
<1>3. am.fileAt \in am.fileAt .. am.writeAt - 1 /\ am.fileAt - am.fileAt = 0
  BY <1>1
<1>. QED  BY <1>2, <1>3 DEF Header, FileOrOld

\* The header is sound, and nothing has been copied.
LEMMA CheckHeaderKeeps ==
  ASSUME LoaderInv, FileIsClear(Host), CheckHeader
  PROVE  LoaderInv'
<1>. USE DEF CheckHeader
<1>0. /\ LoaderTypeOK /\ MapIsTaken /\ host \in DOMAIN Hosts /\ kept = Host.regions
      /\ KernelIsThere /\ segment = [n |-> 1, at |-> 0]
      /\ \A a \in DOMAIN memory : memory[a] = FileOrOld(a)
  BY DEF LoaderInv, LoaderTypeOK, MapIsTaken
<1>2. Header = KernelByte(0)
  BY <1>0, HeaderIsRead
<1>3. KernelByte(0) \in DOMAIN Headers
  BY <1>2
<1>4. \A n \in DOMAIN KernelSegments : Copied(n) = {} /\ ~(n < segment.n)
  <2>1. ASSUME NEW n \in DOMAIN KernelSegments PROVE Copied(n) = {} /\ ~(n < segment.n)
    <3>1. n \in Nat \ {0} /\ KernelSegments[n].paddr \in Nat /\ KernelSegments[n].memsz \in Nat
      BY <1>0, <1>3, SegmentsLie
    <3>. QED  BY <1>0, <3>1 DEF Copied, Addresses
  <2>. QED  BY <2>1
<1>5. SegmentsAreCopied
  BY <1>0, <1>3, <1>4 DEF SegmentsAreCopied
<1>6. UNCHANGED <<host, am, memory, segment, kept>>
  OBVIOUS
<1>7. SegmentsAreCopied' /\ KernelIsThere' /\ LoaderTypeOK'
  <2>. HIDE DEF CheckHeader
  <2>. QED  BY <1>0, <1>5, <1>6 DEF SegmentsAreCopied, KernelIsThere, LoaderTypeOK, KernelIsPlaced, Kernel,
              KernelSize, KernelByte, KernelSegments, Copied, SegmentByte, FileOrOld, Host
<1>8. MapIsTaken' /\ DirectoryIsSearched' /\ KernelIsLoaded'
  BY <1>0, SameMachine DEF MapIsTaken, DirectoryIsSearched, KernelIsLoaded
<1>. QED  BY <1>0, <1>7, <1>8 DEF LoaderInv

\* A segment that is not to be loaded leaves no byte.
LEMMA SkipSegmentKeeps ==
  ASSUME LoaderInv, FileIsClear(Host), SkipSegment
  PROVE  LoaderInv'
<1>. USE DEF SkipSegment
<1>0. /\ LoaderTypeOK /\ MapIsTaken /\ host \in DOMAIN Hosts /\ kept = Host.regions
      /\ KernelIsThere /\ SegmentsAreCopied /\ segment.at = 0
  BY DEF LoaderInv, LoaderTypeOK, MapIsTaken
<1>1. Segments = KernelSegments /\ Current = KernelSegments[segment.n]
  BY <1>0, HeaderStays
<1>2. segment.n \in Nat \ {0} /\ segment'.n = segment.n + 1 /\ segment'.at = 0
      /\ segment' \in [n : Nat \ {0}, at : Nat]
  BY <1>0 DEF LoaderTypeOK, NextSegment
<1>3. KernelSegments[segment.n].type # "LOAD"
  BY <1>1
<1>4. UNCHANGED <<host, stage, buffer, am, program, memory, kept>>
  OBVIOUS
<1>. HIDE DEF SkipSegment
<1>5. \A n \in DOMAIN KernelSegments : Copied(n)' = Copied(n)
  <2>1. ASSUME NEW n \in DOMAIN KernelSegments PROVE Copied(n)' = Copied(n)
    <3> DEFINE g == KernelSegments[n]
    <3>1. n \in Nat /\ g.paddr \in Nat /\ g.memsz \in Nat
      BY <1>0, SegmentsLie DEF SegmentsAreCopied
    <3>2. Copied(n)' = {a \in Addresses(g) : /\ g.type = "LOAD"
                                             /\ n < segment'.n \/ (n = segment'.n /\ a < g.paddr + segment'.at)}
      BY <1>4, SameMachine DEF Copied
    <3>3. Copied(n) = {a \in Addresses(g) : /\ g.type = "LOAD"
                                            /\ n < segment.n \/ (n = segment.n /\ a < g.paddr + segment.at)}
      BY DEF Copied
    <3>4. \A a \in Addresses(g) : ~(a < g.paddr + 0)
      BY <3>1 DEF Addresses
    <3>5. g.type = "LOAD" => n # segment.n
      BY <1>3
    <3>. HIDE DEF g
    <3>6. g.type = "LOAD" => (n < segment.n + 1 <=> n < segment.n)
      BY <1>2, <3>1, <3>5
    <3>. QED  BY <1>0, <1>2, <3>2, <3>3, <3>4, <3>6
  <2>. QED  BY <2>1
<1>6. \A n \in DOMAIN KernelSegments : n < segment'.n /\ KernelSegments[n].type = "LOAD" =>
        IsLoadable(KernelSegments[n])
  <2>1. ASSUME NEW n \in DOMAIN KernelSegments, n < segment'.n, KernelSegments[n].type = "LOAD"
        PROVE  n < segment.n
    <3>1. n \in Nat
      BY <1>0, SegmentsLie DEF SegmentsAreCopied
    <3>. QED  BY <1>2, <1>3, <2>1, <3>1
  <2>. QED  BY <1>0, <2>1 DEF SegmentsAreCopied
<1>7. SegmentsAreCopied'
  BY <1>0, <1>4, <1>5, <1>6, SameMachine DEF SegmentsAreCopied, SegmentByte, FileOrOld
<1>8. KernelIsThere' /\ LoaderTypeOK'
  BY <1>0, <1>2, <1>4, SameMachine DEF LoaderTypeOK, KernelIsThere, KernelIsPlaced
<1>9. MapIsTaken' /\ DirectoryIsSearched' /\ KernelIsLoaded' /\ stage' = "segments"
  BY <1>0, <1>4, SameMachine DEF MapIsTaken, DirectoryIsSearched, KernelIsLoaded, SkipSegment
<1>. QED  BY <1>2, <1>7, <1>8, <1>9 DEF LoaderInv

\* A segment is begun where it is linked.
LEMMA BeginSegmentKeeps ==
  ASSUME LoaderInv, FileIsClear(Host), BeginSegment
  PROVE  LoaderInv'
<1>. USE DEF BeginSegment
<1>0. /\ LoaderTypeOK /\ MapIsTaken /\ host \in DOMAIN Hosts /\ kept = Host.regions
      /\ KernelIsThere /\ SegmentsAreCopied /\ segment.at = 0
  BY DEF LoaderInv, LoaderTypeOK, MapIsTaken
<1>1. Segments = KernelSegments /\ Current = KernelSegments[segment.n]
  BY <1>0, HeaderStays
<1>2. /\ segment.n \in DOMAIN KernelSegments /\ IsLoaded(KernelSegments[segment.n])
      /\ ~RunsOn(KernelSegments[segment.n])
  BY <1>1
<1>3. KernelSegments[segment.n].memsz \in Nat \ {0}
  <2>1. KernelSegments[segment.n].memsz \in Nat /\ KernelSegments[segment.n].filesz \in Nat
    BY <1>0, <1>2, SegmentsLie DEF SegmentsAreCopied
  <2>. QED  BY <1>2, <2>1 DEF RunsOn, IsLoaded, IsLoadable
<1>4. UNCHANGED <<host, buffer, am, program, memory, segment, kept>> /\ stage' = "copy"
  OBVIOUS
<1>. HIDE DEF BeginSegment
<1>5. SegmentsAreCopied' /\ KernelIsThere' /\ LoaderTypeOK'
  BY <1>0, <1>4 DEF SegmentsAreCopied, KernelIsThere, LoaderTypeOK, KernelIsPlaced, Kernel,
              KernelSize, KernelByte, KernelSegments, Copied, SegmentByte, FileOrOld, Host
<1>6. MapIsTaken' /\ DirectoryIsSearched' /\ KernelIsLoaded'
  BY <1>0, <1>4, SameMachine DEF MapIsTaken, DirectoryIsSearched, KernelIsLoaded
<1>7. (segment.n \in DOMAIN KernelSegments /\ IsLoaded(KernelSegments[segment.n])
        /\ segment.at < KernelSegments[segment.n].memsz)'
  BY <1>0, <1>2, <1>3, <1>4, SameMachine
<1>. QED  BY <1>4, <1>5, <1>6, <1>7 DEF LoaderInv

\* One more byte of a segment is what belongs there, and no other address changes.
LEMMA CopyByteKeeps ==
  ASSUME LoaderInv, FileIsClear(Host), CopyByte
  PROVE  LoaderInv'
<1>. DEFINE N == segment.n
            at == segment.at
            g == KernelSegments[N]
            p == g.paddr + at
<1>0. /\ LoaderTypeOK /\ MapIsTaken /\ host \in DOMAIN Hosts /\ kept = Host.regions
      /\ KernelIsThere /\ SegmentsAreCopied /\ stage = "copy"
      /\ N \in DOMAIN KernelSegments /\ IsLoaded(g) /\ at < g.memsz
  BY DEF LoaderInv, LoaderTypeOK, MapIsTaken, CopyByte
<1>1. Current = g
  BY <1>0, HeaderStays
<1>2. /\ g.paddr \in Nat /\ g.filesz \in Nat /\ g.offset \in Nat /\ g.memsz \in Nat
      /\ g.paddr >= OneMiB /\ g.paddr + g.memsz <= am.fileAt /\ g.offset + g.filesz <= KernelSize
      /\ \A l \in DOMAIN KernelSegments \ {N} :
           IsLoaded(KernelSegments[l]) => Addresses(g) \cap Addresses(KernelSegments[l]) = {}
  BY <1>0, SegmentsLie DEF SegmentsAreCopied
<1>3. N \in Nat \ {0} /\ at \in Nat /\ am.fileAt \in Nat /\ KernelSize \in Nat
      /\ am.fileAt + KernelSize <= Top /\ Top \in Nat /\ OneMiB \in Nat
  <2>1. KernelIsPlaced /\ IsWhole(Host, Kernel) /\ N \in Nat \ {0} /\ at \in Nat
    BY <1>0 DEF LoaderTypeOK, KernelIsThere
  <2>2. am.fileAt \in Nat /\ KernelSize \in Nat /\ MemoryEnd(kept) \in Nat
        /\ am.fileAt + KernelSize <= MemoryEnd(kept) /\ MemoryEnd(kept) <= Top
    BY <1>0, <2>1, KernelFits
  <2>3. Top \in Nat /\ OneMiB \in Nat
    BY LoaderAssumption
  <2>. QED  BY <2>1, <2>2, <2>3
<1>. HIDE DEF g
<1>4. /\ memory' = [memory EXCEPT ![p] = IF at < g.filesz THEN memory[am.fileAt + g.offset + at] ELSE "zero"]
      /\ \/ at + 1 < g.memsz /\ segment' = [segment EXCEPT !.at = at + 1] /\ stage' = "copy"
         \/ ~(at + 1 < g.memsz) /\ segment' = [n |-> N + 1, at |-> 0] /\ stage' = "segments"
      /\ UNCHANGED <<host, buffer, am, program, kept>>
  <2>1. g.paddr + segment.at # am.fileAt
    BY <1>0, <1>2, <1>3
  <2>. QED  BY <1>0, <1>1, <2>1 DEF CopyByte, NextSegment
<1>5. /\ \/ at + 1 < g.memsz /\ segment'.n = N /\ segment'.at = at + 1 /\ stage' = "copy"
         \/ at + 1 = g.memsz /\ segment'.n = N + 1 /\ segment'.at = 0 /\ stage' = "segments"
      /\ segment' \in [n : Nat \ {0}, at : Nat]
  <2>0. segment \in [n : Nat \ {0}, at : Nat]
    BY <1>0 DEF LoaderTypeOK
  <2>1. segment \in [n : Nat \ {0}, at : Nat] /\ at + 1 \in Nat /\ N + 1 \in Nat \ {0}
    BY <1>3, <2>0
  <2>2. ~(at + 1 < g.memsz) => at + 1 = g.memsz
    BY <1>0, <1>2, <1>3
  <2>3. CASE at + 1 < g.memsz
    <3>1. segment' = [segment EXCEPT !.at = at + 1] /\ stage' = "copy"
      BY <1>4, <2>3
    <3>. QED  BY <2>1, <2>3, <3>1
  <2>4. CASE ~(at + 1 < g.memsz)
    <3>1. segment' = [n |-> N + 1, at |-> 0] /\ stage' = "segments"
      BY <1>4, <2>4
    <3>. QED  BY <2>1, <2>2, <2>4, <3>1
  <2>. QED  BY <2>3, <2>4
<1>6. p \in OneMiB .. Top - 1 /\ p \in Addresses(g) /\ p \in Int
  BY <1>0, <1>2, <1>3 DEF Addresses
<1>7. /\ DOMAIN memory' = OneMiB .. Top - 1 /\ DOMAIN memory = OneMiB .. Top - 1
      /\ memory' = [a \in OneMiB .. Top - 1 |-> memory'[a]]
      /\ \A a \in OneMiB .. Top - 1 : a # p => memory'[a] = memory[a]
      /\ memory'[p] = IF at < g.filesz THEN memory[am.fileAt + g.offset + at] ELSE "zero"
  <2>1. memory = [a \in OneMiB .. Top - 1 |-> memory[a]]
    BY <1>0 DEF LoaderTypeOK
  <2>2. DOMAIN memory = OneMiB .. Top - 1
    BY <2>1
  <2>. QED  BY <1>4, <1>6, <2>2
<1>8. memory'[p] = SegmentByte(g, p)
  <2>1. p - g.paddr = at /\ g.offset + p - g.paddr = g.offset + at
    BY <1>2, <1>3
  <2>2. CASE at < g.filesz
    <3>1. g.offset + at \in 0 .. KernelSize - 1 /\ am.fileAt + g.offset + at = am.fileAt + (g.offset + at)
      BY <1>2, <1>3, <2>2
    <3>2. memory[am.fileAt + (g.offset + at)] = KernelByte(g.offset + at)
      BY <1>0, <3>1, FileStays DEF g
    <3>. QED  BY <1>7, <2>1, <2>2, <3>1, <3>2 DEF SegmentByte
  <2>3. CASE ~(at < g.filesz)
    BY <1>7, <2>1, <2>3 DEF SegmentByte
  <2>. QED  BY <2>2, <2>3
<1>9. ASSUME NEW n \in DOMAIN KernelSegments
      PROVE  Copied(n)' = IF n = N THEN Copied(n) \cup {p} ELSE Copied(n)
  <2> DEFINE h == KernelSegments[n]
  <2>1. n \in Nat /\ h.paddr \in Nat /\ h.memsz \in Nat
    BY <1>0, SegmentsLie DEF SegmentsAreCopied
  <2>2. Copied(n)' = {a \in Addresses(h) : /\ h.type = "LOAD"
                                           /\ n < segment'.n \/ (n = segment'.n /\ a < h.paddr + segment'.at)}
    BY <1>4, SameMachine DEF Copied
  <2>3. Copied(n) = {a \in Addresses(h) : /\ h.type = "LOAD"
                                          /\ n < N \/ (n = N /\ a < h.paddr + at)}
    BY DEF Copied
  <2>4. \A a \in Addresses(h) : a \in Int /\ a >= h.paddr /\ a < h.paddr + h.memsz
    BY <2>1 DEF Addresses
  <2>5. CASE n = N
    <3>1. h = g /\ h.type = "LOAD" /\ ~(n < N)
      BY <1>0, <2>1, <2>5 DEF g, IsLoaded
    <3>. HIDE DEF h
    <3>2. \A a \in Addresses(h) :
            n < segment'.n \/ (n = segment'.n /\ a < h.paddr + segment'.at) <=> a < h.paddr + at \/ a = p
      BY <1>2, <1>3, <1>5, <2>1, <2>4, <2>5, <3>1
    <3>. QED  BY <1>6, <2>2, <2>3, <2>5, <3>1, <3>2
  <2>6. CASE n # N
    <3>. HIDE DEF h
    <3>1. \A a \in Addresses(h) :
            n < segment'.n \/ (n = segment'.n /\ a < h.paddr + segment'.at) <=> n < N
      BY <1>3, <1>5, <2>1, <2>4, <2>6
    <3>. QED  BY <2>2, <2>3, <2>6, <3>1
  <2>. QED  BY <2>5, <2>6
<1>10. ASSUME NEW n \in DOMAIN KernelSegments, NEW a \in Copied(n)'
       PROVE  memory'[a] = SegmentByte(KernelSegments[n], a)
  <2>1. CASE a = p /\ n = N
    BY <1>8, <2>1 DEF g
  <2>2. CASE a # p \/ n # N
    <3>1. a \in Copied(n)
      BY <1>9, <1>10, <2>2
    <3>2. IsLoaded(KernelSegments[n]) /\ a \in Int /\ a >= OneMiB /\ a < am.fileAt
      BY <1>0, <3>1, CopiedIsLoaded DEF g
    <3>3. a # p
      <4>1. n # N => a \notin Addresses(g)
        <5>1. a \in Addresses(KernelSegments[n])
          BY <3>1 DEF Copied
        <5>. QED  BY <1>2, <3>2, <5>1
      <4>. QED  BY <1>6, <2>2, <4>1
    <3>4. memory'[a] = memory[a]
      BY <1>3, <1>7, <3>2, <3>3
    <3>. QED  BY <1>0, <3>1, <3>4 DEF SegmentsAreCopied
  <2>. QED  BY <2>1, <2>2
<1>11. ASSUME NEW a \in DOMAIN memory', \A n \in DOMAIN KernelSegments : a \notin Copied(n)'
       PROVE  memory'[a] = FileOrOld(a)
  <2>1. a # p
    BY <1>0, <1>9, <1>11
  <2>2. \A n \in DOMAIN KernelSegments : a \notin Copied(n)
    BY <1>9, <1>11
  <2>. QED  BY <1>0, <1>7, <2>1, <2>2 DEF SegmentsAreCopied
<1>12. ASSUME NEW n \in DOMAIN KernelSegments, n < segment'.n, KernelSegments[n].type = "LOAD"
       PROVE  IsLoadable(KernelSegments[n])
  <2>1. n \in Nat
    BY <1>0, SegmentsLie DEF SegmentsAreCopied
  <2>2. n < N \/ n = N
    BY <1>3, <1>5, <1>12, <2>1
  <2>. QED  BY <1>0, <1>12, <2>2 DEF SegmentsAreCopied, IsLoaded, g
<1>13. SegmentsAreCopied'
  <2>1. \A n, a : SegmentByte(KernelSegments[n], a)' = SegmentByte(KernelSegments[n], a)
    BY <1>4, SameMachine DEF SegmentByte
  <2>2. \A a : FileOrOld(a)' = FileOrOld(a)
    BY <1>4, SameMachine DEF FileOrOld
  <2>3. KernelByte(0) \in DOMAIN Headers /\ KernelByte(0)' = KernelByte(0) /\ KernelSegments' = KernelSegments
    BY <1>0, <1>4, SameMachine DEF SegmentsAreCopied
  <2>. QED  BY <1>10, <1>11, <1>12, <2>1, <2>2, <2>3 DEF SegmentsAreCopied
<1>14. KernelIsThere' /\ LoaderTypeOK'
  BY <1>0, <1>4, <1>5, <1>7, SameMachine DEF LoaderTypeOK, KernelIsThere, KernelIsPlaced
<1>15. MapIsTaken' /\ DirectoryIsSearched' /\ KernelIsLoaded' /\ stage' \in {"segments", "copy"}
  BY <1>0, <1>4, <1>5, SameMachine DEF MapIsTaken, DirectoryIsSearched, KernelIsLoaded
<1>16. stage' = "copy" =>
         (segment.n \in DOMAIN KernelSegments /\ IsLoaded(KernelSegments[segment.n])
           /\ segment.at < KernelSegments[segment.n].memsz)'
  <2>1. stage' = "copy" => segment'.n = N /\ segment'.at = at + 1 /\ at + 1 < g.memsz
    BY <1>5
  <2>. QED  BY <1>0, <1>4, <2>1, SameMachine DEF g
<1>17. stage' = "segments" => segment'.at = 0
  BY <1>5
<1>. QED  BY <1>13, <1>14, <1>15, <1>16, <1>17 DEF LoaderInv

\* All segments have been copied.
LEMMA EnterMainKeeps ==
  ASSUME LoaderInv, FileIsClear(Host), EnterMain
  PROVE  LoaderInv'
<1>. USE DEF EnterMain
<1>0. /\ LoaderTypeOK /\ MapIsTaken /\ host \in DOMAIN Hosts /\ kept = Host.regions
      /\ KernelIsThere /\ SegmentsAreCopied /\ segment.at = 0
  BY DEF LoaderInv, LoaderTypeOK, MapIsTaken
<1>1. Segments = KernelSegments
  BY <1>0, HeaderStays
<1>2. /\ DOMAIN KernelSegments = 1 .. Len(KernelSegments) /\ Len(KernelSegments) \in Nat
      /\ segment.n \in Nat \ {0} /\ segment.n \notin DOMAIN KernelSegments
  BY <1>0, <1>1, SegmentsLie DEF SegmentsAreCopied, LoaderTypeOK
<1>3. \A n \in DOMAIN KernelSegments : n < segment.n
  BY <1>2
<1>4. UNCHANGED <<host, buffer, am, program, memory, segment, kept>> /\ stage' = "main"
  OBVIOUS
<1>. HIDE DEF EnterMain
<1>5. SegmentsOf(Host) = KernelSegments /\ EntryOf(Host, KernelName) = Kernel
  BY DEF SegmentsOf, KernelSegments, KernelByte, Kernel
<1>6. ASSUME NEW a \in DOMAIN memory PROVE memory[a] = Expected(a)
  <2> DEFINE within == {n \in DOMAIN KernelSegments :
                          KernelSegments[n].type = "LOAD" /\ a \in Addresses(KernelSegments[n])}
             g == KernelSegments[CHOOSE n \in within : TRUE]
  <2>1. \A n \in DOMAIN KernelSegments : a \in Copied(n) <=> n \in within
    BY <1>3 DEF Copied
  <2>2. Expected(a) =
          IF within # {}
          THEN IF a - g.paddr < g.filesz THEN KernelByte(g.offset + a - g.paddr) ELSE "zero"
          ELSE IF a \in am.fileAt .. am.writeAt - 1 /\ a < MemoryEnd(kept) THEN KernelByte(a - am.fileAt)
          ELSE "old"
    BY <1>5 DEF Expected, KernelByte
  <2>3. CASE within # {}
    <3>1. PICK n \in DOMAIN KernelSegments : n \in within /\ g = KernelSegments[n]
      BY <2>3
    <3>2. memory[a] = SegmentByte(g, a)
      BY <1>0, <2>1, <3>1 DEF SegmentsAreCopied
    <3>. HIDE DEF within, g
    <3>. QED  BY <2>2, <2>3, <3>2 DEF SegmentByte
  <2>4. CASE within = {}
    <3>1. \A n \in DOMAIN KernelSegments : a \notin Copied(n)
      BY <2>1, <2>4
    <3>2. memory[a] = FileOrOld(a)
      BY <1>0, <3>1 DEF SegmentsAreCopied
    <3>3. /\ am.writeAt = am.fileAt + KernelSize /\ am.fileAt + KernelSize <= MemoryEnd(kept)
          /\ am.fileAt \in Nat /\ KernelSize \in Nat /\ MemoryEnd(kept) \in Nat
      BY <1>0, KernelFits DEF KernelIsThere
    <3>4. a \in am.fileAt .. am.writeAt - 1 => a < MemoryEnd(kept)
      BY <3>3
    <3>. HIDE DEF within, g
    <3>. QED  BY <2>2, <2>4, <3>2, <3>4 DEF FileOrOld
  <2>. QED  BY <2>3, <2>4
<1>7. \A a : Expected(a)' = Expected(a)
  BY <1>4 DEF Expected, Host
<1>8. KernelIsLoaded'
  <2>1. kept' = Host'.regions
    BY <1>0, <1>4, SameMachine
  <2>2. \A a \in DOMAIN memory' : memory'[a] = Expected(a)'
    BY <1>4, <1>6, <1>7
  <2>. QED  BY <1>4, <2>1, <2>2 DEF KernelIsLoaded
<1>9. LoaderTypeOK' /\ MapIsTaken' /\ DirectoryIsSearched'
  BY <1>0, <1>4, SameMachine DEF LoaderTypeOK, MapIsTaken, DirectoryIsSearched
<1>. QED  BY <1>4, <1>8, <1>9 DEF LoaderInv

\* If segments reach into the file, what is copied is not said, and the machine lacks something.
LEMMA UnclearKeeps ==
  ASSUME LoaderInv, ~FileIsClear(Host),
         CheckHeader \/ SkipSegment \/ BeginSegment \/ CopyByte \/ EnterMain
  PROVE  LoaderInv'
<1>0. /\ LoaderTypeOK /\ MapIsTaken /\ host \in DOMAIN Hosts
      /\ stage \in {"header", "segments", "copy"} /\ kept = Host.regions /\ KernelIsThere
  <2>1. stage \in {"header", "segments", "copy"}
    BY DEF CheckHeader, SkipSegment, BeginSegment, CopyByte, EnterMain
  <2>. QED  BY <2>1 DEF LoaderInv, LoaderTypeOK, MapIsTaken
<1>1. host \notin Complete
  BY CompleteLacksNothing DEF LacksNothing
<1>2. UNCHANGED <<host, buffer, am, program, kept>>
  BY DEF CheckHeader, SkipSegment, BeginSegment, CopyByte, EnterMain
<1>3. segment.n \in Nat \ {0} /\ segment.at \in Nat /\ segment \in [n : Nat \ {0}, at : Nat]
  BY <1>0 DEF LoaderTypeOK
<1>4. /\ stage' \in {"segments", "copy", "main", "wild"}
      /\ memory' = [a \in OneMiB .. Top - 1 |-> memory'[a]]
      /\ segment' \in [n : Nat \ {0}, at : Nat]
      /\ stage' = "segments" => segment'.at = 0
  <2>0. memory = [a \in OneMiB .. Top - 1 |-> memory[a]]
    BY <1>0 DEF LoaderTypeOK
  <2>1. CASE CheckHeader
    <3>1. segment = [n |-> 1, at |-> 0]
      BY <2>1 DEF CheckHeader, LoaderInv
    <3>. QED  BY <1>3, <2>0, <2>1, <3>1 DEF CheckHeader
  <2>2. CASE SkipSegment
    <3>1. NextSegment \in [n : Nat \ {0}, at : Nat] /\ NextSegment.at = 0
      BY <1>3 DEF NextSegment
    <3>. QED  BY <2>0, <2>2, <3>1 DEF SkipSegment
  <2>3. CASE BeginSegment \/ EnterMain
    BY <1>3, <2>0, <2>3 DEF BeginSegment, EnterMain
  <2>4. CASE CopyByte
    <3>1. NextSegment \in [n : Nat \ {0}, at : Nat] /\ NextSegment.at = 0
          /\ [segment EXCEPT !.at = segment.at + 1] \in [n : Nat \ {0}, at : Nat]
      BY <1>3 DEF NextSegment
    <3>2. memory' = [a \in OneMiB .. Top - 1 |-> memory'[a]]
      <4>1. PICK p, b : memory' = [memory EXCEPT ![p] = b]
        BY <2>4 DEF CopyByte
      <4>. QED  BY <2>0, <4>1
    <3>3. segment' = (IF segment.at + 1 < Current.memsz THEN [segment EXCEPT !.at = segment.at + 1] ELSE NextSegment)
          /\ stage' = (IF Current.paddr + segment.at = am.fileAt THEN "wild"
                       ELSE IF segment.at + 1 < Current.memsz THEN "copy" ELSE "segments")
      BY <2>4 DEF CopyByte
    <3>. QED  BY <3>1, <3>2, <3>3
  <2>. QED  BY <2>1, <2>2, <2>3, <2>4
<1>5. LoaderTypeOK' /\ KernelIsThere' /\ MapIsTaken' /\ DirectoryIsSearched'
  BY <1>0, <1>2, <1>4, SameMachine
     DEF LoaderTypeOK, KernelIsThere, KernelIsPlaced, MapIsTaken, DirectoryIsSearched
<1>6. ~FileIsClear(Host)'
  <2>1. Host' = Host
    BY <1>2, SameMachine
  <2>. QED  BY <2>1 DEF FileIsClear, SegmentsOf, Kernel
<1>7. KernelIsLoaded'
  <2>1. kept' = Host'.regions /\ host' \notin Complete
    BY <1>0, <1>1, <1>2, SameMachine
  <2>. QED  BY <1>4, <1>6, <2>1 DEF KernelIsLoaded
<1>. QED  BY <1>4, <1>5, <1>6, <1>7 DEF LoaderInv

\* No machine that lacks nothing is given up or goes wild.
LEMMA GiveUpKeeps ==
  ASSUME LoaderInv, GiveUp \/ GoWild
  PROVE  LoaderInv'
<1>0. /\ LoaderTypeOK /\ MapIsTaken /\ host \in DOMAIN Hosts
      /\ UNCHANGED <<host, buffer, am, program, memory, segment, kept>> /\ stage' \in {"stopped", "wild"}
  BY DEF LoaderInv, LoaderTypeOK, GiveUp, GoWild
<1>1. ASSUME host \in Complete PROVE FALSE
  <2> DEFINE m == Host
  <2>1. LacksNothing(Host)
    BY <1>1, CompleteLacksNothing
  <2>2. PICK i \in DOMAIN Host.dir[1] : Host.dir[1][i].name = LoaderName
    BY <2>1 DEF LacksNothing
  <2>3. PICK e \in Files(Host, KernelName) :
          e.length # 0 /\ IsWhole(Host, e) /\ FilePlace(Host.regions, e.length) >= OneMiB
    BY <2>1 DEF LacksNothing
  <2>4. Kernel = e /\ Kernel.length # 0 /\ IsWhole(Host, Kernel)
    BY <1>0, <2>3, EntryIsOnly DEF Kernel
  <2>5. /\ Host.regions # <<>> /\ Len(Host.regions) <= MaxRegions /\ Regions1MiB(Host.regions) # {}
        /\ KernelByte(0) \in DOMAIN Headers
        /\ \A n \in DOMAIN KernelSegments : KernelSegments[n].type = "LOAD" =>
             IsLoadable(KernelSegments[n]) /\ ~RunsOn(KernelSegments[n])
        /\ KernelSegments # <<>> /\ FileIsClear(Host) /\ ~Host.carry /\ Host.edx = 0
    BY <2>1 DEF LacksNothing, SegmentsOf, KernelSegments, KernelByte, Kernel
  <2>6. CASE stage = "mbr" /\ Matching(FirstDir, LoaderName) = {}
    <3>1. FirstDir - FirstDir + 1 = 1
      BY DEF FirstDir
    <3>2. i \in Matching(FirstDir, LoaderName)
      BY <2>2, <3>1 DEF Matching
    <3>. QED  BY <2>6, <3>2
  <2>7. CASE stage = "directory" /\ am.sector = FirstDir + DirSectors
    <3>0. \A s \in FirstDir .. am.sector - 1 : Matching(s, KernelName) = {}
      BY <2>7 DEF LoaderInv, DirectoryIsSearched
    <3>1. \A s \in FirstDir .. FirstDir + DirSectors - 1 : Matching(s, KernelName) = {}
      <4>1. am.sector - 1 = FirstDir + DirSectors - 1
        BY <2>7, LoaderAssumption DEF FirstDir
      <4>. QED  BY <3>0, <4>1
    <3>. QED  BY <1>0, <2>3, <3>1, FoundIfThere
  <2>8. CASE stage = "place" /\ (Found.length = 0 \/ Regions1MiB(kept) = {}
                                   \/ FilePlace(kept, Found.length) < OneMiB)
    <3>1. kept = Host.regions /\ buffer \in FirstDir .. FirstDir + DirSectors - 1
          /\ Matching(buffer, KernelName) # {}
      BY <1>0, <2>8 DEF LoaderInv, MapIsTaken, DirectoryIsSearched
    <3>2. Found = Kernel
      BY <1>0, <3>1, FoundIsEntry DEF Found, Kernel
    <3>3. FilePlace(kept, Found.length) \in Int /\ FilePlace(kept, Found.length) >= OneMiB
      <4>1. MemoryEnd(kept) \in Nat /\ Kernel.length \in Nat
        BY <1>0, <2>3, <2>4, <2>5, <3>1, EndOfMemory, EntryIsOnly
      <4>2. (MemoryEnd(kept) - 1 - Kernel.length) \div SectorSize \in Int
        BY <4>1, LoaderAssumption
      <4>3. FilePlace(kept, Kernel.length) \in Int
        BY <4>2, LoaderAssumption DEF FilePlace
      <4>. QED  BY <2>3, <2>4, <3>1, <3>2, <4>3
    <3>4. ~(FilePlace(kept, Found.length) < OneMiB)
      BY <3>3, LoaderAssumption
    <3>. QED  BY <2>4, <2>5, <2>8, <3>1, <3>2, <3>4
  <2>9. CASE stage = "read" /\ am.cluster \in LastCluster + 1 .. BadCluster
    <3>1. PICK n \in Nat : KernelIsRead(n)
      BY <2>9 DEF LoaderInv
    <3>2. KernelIsPlaced /\ am.cluster \in Nat
      BY <1>0, <2>9 DEF LoaderInv, LoaderTypeOK
    <3>3. /\ n \in 0 .. ClustersOf(Kernel) /\ am.cluster = KernelCluster(n)
      BY <3>1 DEF KernelIsRead
    <3>4. ClustersOf(Kernel) \in Nat
      BY <1>0, <2>3, <2>4, EntryIsOnly, FileHasClusters
    <3>5. CASE n = ClustersOf(Kernel)
      <4>1. am.cluster > BadCluster
        BY <2>4, <3>3, <3>5 DEF IsWhole, KernelCluster
      <4>. QED  BY <2>9, <3>2, <4>1, MarksAreHigh
    <3>6. CASE n # ClustersOf(Kernel)
      <4>1. n \in 0 .. ClustersOf(Kernel) - 1
        BY <3>3, <3>4, <3>6
      <4>2. am.cluster \in DOMAIN Host.data
        BY <2>4, <3>3, <4>1 DEF IsWhole, EndsAfter, KernelCluster
      <4>3. am.cluster \in 0 .. LastCluster
        BY <1>0, <4>2, ClusterOnDisk
      <4>. QED  BY <2>9, <4>3, MarksAreHigh
    <3>. QED  BY <3>5, <3>6
  <2>10. CASE stage = "header" /\ Header \notin DOMAIN Headers
    <3>1. /\ KernelIsThere /\ kept = Host.regions
          /\ \A a \in DOMAIN memory : memory[a] = FileOrOld(a)
      BY <1>0, <2>10 DEF LoaderInv, MapIsTaken
    <3>2. Header = KernelByte(0)
      BY <1>0, <3>1, HeaderIsRead
    <3>. QED  BY <2>5, <2>10, <3>2
  <2>11. CASE stage = "segments"
    <3>1. KernelIsThere /\ SegmentsAreCopied /\ kept = Host.regions /\ segment.at = 0
      BY <1>0, <2>5, <2>11 DEF LoaderInv, MapIsTaken
    <3>2. Segments = KernelSegments /\ Current = KernelSegments[segment.n]
      BY <1>0, <2>5, <3>1, HeaderStays
    <3>3. Len(Host.regions) \in Nat /\ MaxRegions \in Nat
      BY <1>0, HostIsSound, LoaderAssumption DEF MapIsSound
    <3>4. ~(Len(kept) > MaxRegions)
      BY <2>5, <3>1, <3>3
    <3>5. /\ segment.n \in DOMAIN KernelSegments /\ Current.type = "LOAD"
          /\ ~IsLoadable(Current) \/ DividesByZero(Current) \/ RunsOn(Current)
      BY <2>5, <2>11, <3>2, <3>4 DEF GiveUp, GoWild
    <3>. QED  BY <2>5, <3>2, <3>5 DEF IsLoadable, DividesByZero
  <2>12. CASE stage = "map" /\ Len(kept) = Len(Host.regions)
    <3>1. Len(kept) \in Nat /\ Len(kept) < Len(Host.regions)
      BY <1>0, <2>5, <2>12 DEF MapIsTaken
    <3>. QED  BY <2>12, <3>1
  <2>13. CASE stage = "grub"
    <3>1. Len(Host.regions) \in Nat /\ MaxRegions \in Nat
      BY <1>0, HostIsSound, LoaderAssumption DEF MapIsSound
    <3>2. ~(Len(Host.regions) > MaxRegions) /\ Host.edx = 0 /\ ~(2 * Host.edx >= GrubEntry)
      BY <2>5, <3>1 DEF GrubEntry
    <3>. QED  BY <2>5, <2>13, <3>2 DEF GiveUp, GoWild
  <2>. QED  BY <2>6, <2>7, <2>8, <2>9, <2>10, <2>11, <2>12, <2>13 DEF GiveUp, GoWild
<1>2. KernelIsLoaded'
  BY <1>0, <1>1 DEF KernelIsLoaded
<1>3. LoaderTypeOK' /\ MapIsTaken' /\ DirectoryIsSearched'
  BY <1>0 DEF LoaderTypeOK, MapIsTaken, DirectoryIsSearched
<1>. QED  BY <1>0, <1>2, <1>3 DEF LoaderInv
------------------------------------------------------------------------------
\* Every step keeps the invariant.
LEMMA LoaderNextKeeps == LoaderInv /\ [LoaderNext]_loaderVars => LoaderInv'
<1>1. LoaderInv /\ LoaderNext => LoaderInv'
  BY FindLoaderKeeps, ReadLoaderKeeps, StartLoaderKeeps, GetMemoryMapKeeps, SearchDirectoryKeeps,
     PlaceFileKeeps, ReadClusterKeeps, EndOfFileKeeps, CheckHeaderKeeps, SkipSegmentKeeps,
     BeginSegmentKeeps, CopyByteKeeps, EnterMainKeeps, UnclearKeeps, SaveGrubMapKeeps, GiveUpKeeps
     DEF LoaderNext
<1>2. ASSUME LoaderInv, UNCHANGED loaderVars PROVE LoaderInv'
  <2>1. /\ UNCHANGED <<host, stage, buffer, am, program, memory, segment, kept>>
    BY <1>2 DEF loaderVars
  <2>2. Host' = Host
    BY <2>1 DEF Host
  <2>3. /\ LoaderTypeOK' = LoaderTypeOK /\ MapIsTaken' = MapIsTaken
        /\ DirectoryIsSearched' = DirectoryIsSearched
    BY <2>1, <2>2, SameMachine DEF LoaderTypeOK, MapIsTaken, DirectoryIsSearched
  <2>4. /\ KernelIsPlaced' = KernelIsPlaced
        /\ \A n : LoaderIsRead(n)' = LoaderIsRead(n) /\ KernelIsRead(n)' = KernelIsRead(n)
    BY <2>1, <2>2, SameMachine DEF KernelIsPlaced, LoaderIsRead, KernelIsRead
  <2>5. KernelIsThere' = KernelIsThere /\ \A a : FileOrOld(a)' = FileOrOld(a)
    BY <2>1, <2>2, <2>4, SameMachine DEF KernelIsThere, FileOrOld
  <2>6. SegmentsAreCopied' = SegmentsAreCopied
    BY <2>1, <2>5, SameMachine DEF SegmentsAreCopied, Copied, SegmentByte
  <2>7. KernelIsLoaded' = KernelIsLoaded
    BY <2>1, <2>2 DEF KernelIsLoaded, Expected, FileIsClear, SegmentsOf
  <2>. QED  BY <1>2, <2>1, <2>3, <2>4, <2>5, <2>6, <2>7, SameMachine DEF LoaderInv
<1>. QED  BY <1>1, <1>2

\* On every machine on which the assumptions hold, LOADER is there as a whole before it runs;
\* when boot.S calls the kernel, the map is that of the firmware and, unless segments reach
\* into the file, KERNEL is in memory as it is linked, with nothing else written; and a
\* machine is given up or goes wild only if it lacks something (mbr.asm:111-160,
\* LOADER.ASM:165-503, boot.S:64-131).
THEOREM KernelIsAlwaysLoaded == LoaderSpec => []KernelIsLoaded
<1>1. LoaderInit => LoaderInv
  BY LoaderInitHolds
<1>2. LoaderInv /\ [LoaderNext]_loaderVars => LoaderInv'
  BY LoaderNextKeeps
<1>3. LoaderInv => KernelIsLoaded
  BY DEF LoaderInv
<1>. QED  BY <1>1, <1>2, <1>3, PTL DEF LoaderSpec
==============================================================================
