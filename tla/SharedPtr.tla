------------------------------ MODULE SharedPtr ------------------------------
(***************************************************************************)
(* SharedPtr (kernel/class/SharedPtr): pointers that share the objects     *)
(* they point to.  How many point to an object is kept under its address   *)
(* in a Map that all pointers use; an object with no count there has count *)
(* 0 here.  (The count under the null address, which grows with every null *)
(* pointer and is never taken back, is left out: no step depends on it.)   *)
(*                                                                         *)
(* An object has a member that is itself such a pointer, as the node of a  *)
(* list has; the member of object o goes by the name of o.  Deleting an    *)
(* object runs the destructor of its member, which may delete the next     *)
(* object, and so on: these steps are actions of their own, and operator=  *)
(* looks at its argument only after the last of them.                      *)
(***************************************************************************)
EXTENDS Integers, FiniteSets, Sequences

CONSTANTS
  Objects,    \* addresses for objects
  Variables,  \* names for pointers of callers
  Null

ASSUME SharedPtrAssumption ==
  /\ IsFiniteSet(Objects) /\ IsFiniteSet(Variables)
  /\ Objects \cap Variables = {}
  /\ Null \notin Objects \cup Variables

Handles == Variables \cup Objects

VARIABLES
  ptr,    \* what a pointer points to
  live,   \* pointers that exist
  alive,  \* objects that exist
  count,  \* SharedRefCount
  dying,  \* pointers inside the delete of unRef, the innermost last
  call,   \* the call under way: of `self', which is to point to what `from' points to
  torn    \* history: objects that unRef was called for while they were shared

ptrVars == <<ptr, live, alive, count, dying, call, torn>>

Ops == {"none", "destroy", "unRef", "assign", "stopped"}
NoCall == [op |-> "none", self |-> Null, from |-> Null, to |-> Null]

PtrInit ==
  /\ ptr = [h \in Handles |-> Null]
  /\ live = {}
  /\ alive = {}
  /\ count = [o \in Objects |-> 0]
  /\ dying = <<>>
  /\ call = NoCall
  /\ torn = {}

\* Pointers that a caller can name: its own, and the members of what they point to.
Named == {h \in live : h \in Variables \/ \E v \in live \cap Variables : ptr[v] = h}
------------------------------------------------------------------------------
(***************************************************************************)
(* Constructors.                                                           *)
(***************************************************************************)
Counted1(o) == IF o = Null THEN count ELSE [count EXCEPT ![o] = @ + 1]

\* SharedPtr(): the member of the new object is null.
Make(v, o) ==
  /\ call.op = "none"
  /\ v \in Variables \ live
  /\ o \in Objects \ alive
  /\ ptr' = [ptr EXCEPT ![v] = o, ![o] = Null]
  /\ live' = live \cup {v, o}
  /\ alive' = alive \cup {o}
  /\ count' = Counted1(o)
  /\ UNCHANGED <<dying, call, torn>>

\* SharedPtr(T *) of an object that is there, or of null, and the copy constructor.
Adopt(v, o) ==
  /\ call.op = "none"
  /\ v \in Variables \ live
  /\ o \in alive \cup {Null} \cup {ptr[h] : h \in Named}
  /\ ptr' = [ptr EXCEPT ![v] = o]
  /\ live' = live \cup {v}
  /\ count' = Counted1(o)
  /\ UNCHANGED <<alive, dying, call, torn>>
------------------------------------------------------------------------------
(***************************************************************************)
(* unRef, up to the deletion of the object.  Where an object is deleted    *)
(* twice, or a pointer destroyed inside its own unRef, the program writes  *)
(* into memory that it has given back; there the model stops.              *)
(***************************************************************************)
IsLast(h) == ptr[h] # Null /\ count[ptr[h]] = 1
Within(h) == \E i \in DOMAIN dying : dying[i] = h
Undefined(h) == Within(h) \/ (IsLast(h) /\ ptr[h] \notin alive)

UnRef(h) ==
  /\ count' = IF ptr[h] = Null \/ count[ptr[h]] = 0 THEN count
              ELSE [count EXCEPT ![ptr[h]] = @ - 1]
  /\ dying' = IF IsLast(h) THEN Append(dying, h) ELSE dying

Stopped == [NoCall EXCEPT !.op = "stopped"]

\* A call of h that starts with unRef.
Begin(op, h, from, to) ==
  /\ call.op = "none"
  /\ call' = IF Undefined(h) THEN Stopped ELSE [op |-> op, self |-> h, from |-> from, to |-> to]
  /\ UnRef(h)
  /\ UNCHANGED <<ptr, live, alive>>

Destroy(v) ==
  /\ v \in live \cap Variables
  /\ Begin("destroy", v, Null, Null)
  /\ UNCHANGED torn

\* unRef called for its own sake leaves the pointer as it is when others share the
\* object, and the destructor will count it once more.
CallUnRef(h) ==
  /\ h \in Named
  /\ Begin("unRef", h, Null, Null)
  /\ torn' = IF ptr[h] # Null /\ count[ptr[h]] # 1 THEN torn \cup {ptr[h]} ELSE torn

Assign(h, g) ==
  /\ h \in Named /\ g \in Named \ {h}
  /\ Begin("assign", h, g, ptr[g])
  /\ UNCHANGED torn

Innermost == dying[Len(dying)]

\* delete runs the destructor of the object's member.
Descend ==
  /\ dying # <<>> /\ ptr[Innermost] \in live
  /\ live' = live \ {ptr[Innermost]}
  /\ call' = IF Undefined(ptr[Innermost]) THEN Stopped ELSE call
  /\ UnRef(ptr[Innermost])
  /\ UNCHANGED <<ptr, alive, torn>>

\* The object's memory is given back, and unRef sets the pointer to null.
Free ==
  /\ dying # <<>> /\ ptr[Innermost] \notin live
  /\ alive' = alive \ {ptr[Innermost]}
  /\ ptr' = [ptr EXCEPT ![Innermost] = Null]
  /\ dying' = SubSeq(dying, 1, Len(dying) - 1)
  /\ UNCHANGED <<live, count, call, torn>>
------------------------------------------------------------------------------
(***************************************************************************)
(* What a call does when unRef is over.                                    *)
(***************************************************************************)
EndDestroy ==
  /\ call.op = "destroy" /\ dying = <<>>
  /\ ptr' = [ptr EXCEPT ![call.self] = Null]
  /\ live' = live \ {call.self}
  /\ call' = NoCall
  /\ UNCHANGED <<alive, count, dying, torn>>

EndUnRef ==
  /\ call.op = "unRef" /\ dying = <<>>
  /\ call' = NoCall
  /\ UNCHANGED <<ptr, live, alive, count, dying, torn>>

\* Mutants: what is in freed memory is gone; the new pointer is not counted.
Source_Wiped(g) == IF g \in live THEN ptr[g] ELSE Null
Shared_NotCounted(o) == count

\* The argument may be gone with an object that died: memory that has been given
\* back still holds what was last written into it.
Source(g) == ptr[g]
Shared(o) == Counted1(o)

\* The pointer itself is still there: had it gone, it would have been inside its own unRef.
EndAssign ==
  /\ call.op = "assign" /\ dying = <<>>
  /\ ptr' = [ptr EXCEPT ![call.self] = Source(call.from)]
  /\ count' = Shared(Source(call.from))
  /\ call' = NoCall
  /\ UNCHANGED <<live, alive, dying, torn>>

CallStep ==
  /\ call.op # "stopped"
  /\ Descend \/ Free \/ EndDestroy \/ EndUnRef \/ EndAssign

Halt == call.op = "stopped" /\ UNCHANGED ptrVars

PtrNext ==
  \/ \E v \in Variables : \E o \in Objects \cup {Null} : Make(v, o) \/ Adopt(v, o)
  \/ \E v \in Variables : Destroy(v)
  \/ \E h \in Handles : CallUnRef(h)
  \/ \E h, g \in Handles : Assign(h, g)
  \/ CallStep
  \/ Halt

\* A call that has begun goes on: there is one processor, and no other thread.
PtrSpec == PtrInit /\ [][PtrNext]_ptrVars /\ WF_ptrVars(CallStep)
------------------------------------------------------------------------------
\* Pointers to object o that have been counted and not been given up.
Holders(o) == {h \in live \ {call.self} : ptr[h] = o}

PtrTypeOK ==
  /\ ptr \in [Handles -> Objects \cup {Null}]
  /\ live \subseteq Handles
  /\ alive \subseteq Objects
  /\ count \in [Objects -> Nat]
  /\ dying \in Seq(Handles)
  /\ call \in [op : Ops, self : Handles \cup {Null}, from : Handles \cup {Null},
               to : Objects \cup {Null}]
  /\ torn \subseteq Objects

\* In every step of every call the count of an object is the number of pointers to it,
\* and the object exists as long as there are any or while it is being deleted: it is
\* neither deleted under a pointer nor left behind.  Objects for which unRef has been
\* called while they were shared are excepted (SharedPtr.h:51).
CountsAreRight ==
  call.op # "stopped" =>
    \A o \in Objects \ torn :
      /\ count[o] = Cardinality(Holders(o))
      /\ o \in alive <=> Holders(o) # {} \/ \E i \in DOMAIN dying : ptr[dying[i]] = o

\* p = q makes p point to what q pointed to, also when q is a member of an object that
\* this very call deletes, as in p = p->next, unless what q pointed to dies in the
\* call, too: then p is null (SharedPtr.h:66-69).
AssignShares ==
  [][call.op = "assign" /\ call'.op = "none" /\ call.to \notin torn =>
       ptr'[call.self] = IF call.to \in alive THEN call.to ELSE Null]_ptrVars
==============================================================================
