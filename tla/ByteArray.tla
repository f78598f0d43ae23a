----------------------------- MODULE ByteArray -----------------------------
(***************************************************************************)
(* ByteArray (kernel/class/ByteArray): texts that own the memory they are  *)
(* in.  An array is a pointer to a buffer from the heap and a length; all  *)
(* arrays are there from the start, empty, and a destroyed one is empty    *)
(* again.  A new buffer holds whatever the memory held before; in the      *)
(* model a buffer that is given back is empty.                             *)
(*                                                                         *)
(* A call that gets no buffer writes to address 0, which is not mapped,    *)
(* and the machine stops: the model has no step for it.  The temporaries   *)
(* of a call have no names: their buffers come and go within its step, but *)
(* for the copies they hold.                                               *)
(***************************************************************************)
EXTENDS Integers, FiniteSets, Sequences

CONSTANTS
  Arrays,     \* the names of arrays
  Buffers,    \* the addresses of buffers
  NoBuffer,   \* nullptr
  Chars,
  Literals,   \* C strings, without the 0 at their ends
  Zero,       \* the character at the end of a C string
  MaxLength   \* a bound on the length of a text

ASSUME ByteArrayAssumption ==
  /\ NoBuffer \notin Buffers
  /\ Zero \in Chars
  /\ Literals \subseteq Seq(Chars \ {Zero})
  /\ MaxLength \in Nat

VARIABLES
  content,  \* the buffer of an array
  length,
  mem,      \* what buffers hold
  used,     \* buffers that are allocated
  request   \* history: the last call

arrayVars == <<content, length, mem, used, request>>

ArraysInit ==
  /\ content = [a \in Arrays |-> NoBuffer]
  /\ length = [a \in Arrays |-> 0]
  /\ mem = [b \in Buffers |-> <<>>]
  /\ used = {}
  /\ request = <<"none">>

\* What the characters of array a are.
TextOf(a) ==
  [i \in 1..length[a] |-> IF i \in DOMAIN mem[content[a]] THEN mem[content[a]][i] ELSE Zero]

\* new char[n]: there may be no memory, which no one notices if n is 0.
New(n, free) == IF n = 0 THEN free \cup {NoBuffer} ELSE free
Unused == Buffers \ used

\* Array a moves to a new buffer, one of `free', which gets text t; its old one is deleted.
Move(a, t, free) ==
  /\ Len(t) <= MaxLength
  /\ \E b \in New(Len(t), free) :
       /\ content' = [content EXCEPT ![a] = b]
       /\ length' = [length EXCEPT ![a] = Len(t)]
       /\ mem' = [c \in Buffers |-> IF c = b THEN t ELSE IF c = content[a] THEN <<>> ELSE mem[c]]
       /\ used' = (used \ {content[a]}) \cup ({b} \ {NoBuffer})

Stay == UNCHANGED <<content, length, mem, used>>
Fresh(a) == content[a] = NoBuffer
------------------------------------------------------------------------------
(***************************************************************************)
(* Constructors, assignments and the destructor.                           *)
(***************************************************************************)
\* ByteArray(const ByteArray &)
CopyArray(a, g) ==
  /\ Fresh(a) /\ a # g
  /\ request' = <<"copy", a, g>>
  /\ IF length[g] = 0 \/ content[g] = NoBuffer THEN Stay ELSE Move(a, TextOf(g), Unused)

\* ByteArray(const char *), and the one with a size, which may take the 0 along.
FromText(a, t) ==
  /\ Fresh(a)
  /\ request' = <<"set", a, t>>
  /\ Move(a, t, Unused)

FromBytes(a, t, size) ==
  /\ Fresh(a)
  /\ request' = <<"set", a, SubSeq(Append(t, Zero), 1, size)>>
  /\ IF size <= 0 THEN Stay ELSE Move(a, SubSeq(Append(t, Zero), 1, size), Unused)

\* Mutant: operator= shares the argument's buffer.
AssignArray_Shares(a, g) ==
  /\ request' = <<"copy", a, g>>
  /\ content' = [content EXCEPT ![a] = content[g]]
  /\ length' = [length EXCEPT ![a] = length[g]]
  /\ used' = IF a = g THEN used ELSE used \ {content[a]}
  /\ UNCHANGED mem

\* operator= deletes the old buffer first, so that the new one may be at its place.
AssignArray(a, g) ==
  /\ request' = <<"copy", a, g>>
  /\ IF a = g THEN Stay ELSE Move(a, TextOf(g), Unused \cup ({content[a]} \ {NoBuffer}))

AssignText(a, t) ==
  /\ request' = <<"set", a, t>>
  /\ Move(a, t, Unused \cup ({content[a]} \ {NoBuffer}))

Discard(a) ==
  /\ request' = <<"clear", a>>
  /\ content' = [content EXCEPT ![a] = NoBuffer]
  /\ length' = [length EXCEPT ![a] = 0]
  /\ used' = used \ {content[a]}
  /\ mem' = [b \in Buffers |-> IF b = content[a] THEN <<>> ELSE mem[b]]
------------------------------------------------------------------------------
(***************************************************************************)
(* joint, and the operators made of it.                                    *)
(***************************************************************************)
\* a += g.  The length is that of both before the old buffer and the argument are read:
\* an array joined to itself is already its new buffer, of which nothing is written.
Join(a, g) ==
  /\ request' = <<"join", a, g>>
  /\ IF length[g] = 0 \/ content[g] = NoBuffer THEN Stay
     ELSE IF a = g THEN \E junk \in [1..2 * length[a] -> Chars] : Move(a, junk, Unused)
     ELSE Move(a, TextOf(a) \o TextOf(g), Unused)

\* += of a C string or of one character.
JoinText(a, t) ==
  /\ request' = <<"add", a, t>>
  /\ IF t = <<>> THEN Stay ELSE Move(a, TextOf(a) \o t, Unused)

\* a = g + h: a copy of g is joined with h, and a takes its text.
Concat(a, g, h) ==
  /\ request' = <<"concat", a, g, h>>
  /\ Move(a, TextOf(g) \o TextOf(h), Unused \cup ({content[a]} \ {NoBuffer}))
------------------------------------------------------------------------------
\* a[i] = c: an index out of range writes to a character of the array's that is not of
\* its text.
PutByte(a, i, c) ==
  /\ i \in 1..length[a]
  /\ request' = <<"put", a, i, c>>
  /\ mem' = [mem EXCEPT ![content[a]][i] = c]
  /\ UNCHANGED <<content, length, used>>

\* operator==
Same(a, g) ==
  \/ a = g
  \/ length[a] = length[g] /\ \A i \in 1..length[a] : TextOf(a)[i] = TextOf(g)[i]

Compare(a, g) ==
  /\ request' = <<"equal", a, g, Same(a, g)>>
  /\ Stay

ArraysNext ==
  \E a \in Arrays :
    \/ Discard(a)
    \/ \E t \in Literals :
         \/ FromText(a, t) \/ AssignText(a, t) \/ JoinText(a, t)
         \/ \E size \in 0..Len(t) + 1 : FromBytes(a, t, size)
    \/ \E g \in Arrays : CopyArray(a, g) \/ AssignArray(a, g) \/ Join(a, g) \/ Compare(a, g)
    \/ \E g, h \in Arrays : Concat(a, g, h)
    \/ \E i \in 1..MaxLength, c \in Chars : PutByte(a, i, c)

ArraysSpec == ArraysInit /\ [][ArraysNext]_arrayVars
------------------------------------------------------------------------------
\* The literals, and what of them a constructor with a size takes.
Taken == UNION {{SubSeq(Append(t, Zero), 1, n) : n \in 0..Len(t) + 1} : t \in Literals}

Texts == [a \in Arrays |-> TextOf(a)]

Abstract == INSTANCE Strings WITH Literals <- Taken, text <- Texts, call <- request

\* No array has its text in another's buffer, nor in one that has been given back: each
\* is a text of its own and every call does to it what it should, with one exception, an
\* array that is appended to itself (ByteArray.cpp:76-90).
ImplementsStrings == Abstract!StrSpec
==============================================================================
