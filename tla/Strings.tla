------------------------------- MODULE Strings -------------------------------
(***************************************************************************)
(* What ByteArray promises: every array is a text of its own.  A call      *)
(* changes the text of the array it is made for as its name says, and      *)
(* changes no other.  `call' is the last call, with its arguments.         *)
(***************************************************************************)
EXTENDS Integers, Sequences

CONSTANTS Arrays, Chars, Literals

VARIABLES text, call

StrInit == text = [a \in Arrays |-> <<>>] /\ call = <<"none">>

Call(c, a, t) == call' = c /\ text' = [text EXCEPT ![a] = t]

\* What an array holds after it is appended to itself is not promised.
Anything(n) == [1..n -> Chars]

StrNext ==
  \E a \in Arrays :
    \/ Call(<<"clear", a>>, a, <<>>)
    \/ \E t \in Literals : Call(<<"set", a, t>>, a, t) \/ Call(<<"add", a, t>>, a, text[a] \o t)
    \/ \E g \in Arrays : Call(<<"copy", a, g>>, a, text[g])
    \/ \E g \in Arrays \ {a} : Call(<<"join", a, g>>, a, text[a] \o text[g])
    \/ \E t \in Anything(2 * Len(text[a])) : Call(<<"join", a, a>>, a, t)
    \/ \E g, h \in Arrays : Call(<<"concat", a, g, h>>, a, text[g] \o text[h])
    \/ \E i \in DOMAIN text[a], c \in Chars : Call(<<"put", a, i, c>>, a, [text[a] EXCEPT ![i] = c])
    \/ \E g \in Arrays : Call(<<"equal", a, g, text[a] = text[g]>>, a, text[a])

StrSpec == StrInit /\ [][StrNext]_<<text, call>>
==============================================================================
