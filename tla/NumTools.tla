------------------------------ MODULE NumTools ------------------------------
(***************************************************************************)
(* Numbers as texts (kernel/src/tools/numTools.cpp), and the division of   *)
(* long numbers that it makes use of.  A text is a sequence of ASCII       *)
(* codes.  An int has IntBits bits, a long long has LongBits; an unsigned  *)
(* shift by IntBits bits and more is what the processor makes of it, and a *)
(* sum or an opposite that does not fit in its type is cut to its bits.    *)
(*                                                                         *)
(* A float or double is a number of parts, a Parts-th each, few enough     *)
(* that the arithmetic on it is exact.                                     *)
(***************************************************************************)
EXTENDS Integers, Sequences

CONSTANTS
  IntBits, LongBits,
  Parts,     \* how many parts make 1
  Requests   \* what is asked for: type, num, base or acc, width and fill

Types == {"int", "unsigned", "long", "unsigned long", "float", "double"}

ASSUME NumAssumption ==
  /\ IntBits \in Nat \ 0..3 /\ LongBits \in Nat \ 0..IntBits /\ Parts \in Nat \ {0}
  /\ \A r \in Requests : r.type \in Types

VARIABLES
  asked,   \* history: the last request
  printed  \* the text that was returned

numVars == <<asked, printed>>

NumInit == asked = [type |-> "none"] /\ printed = <<>>

ZeroChar == 48
MinusChar == 45
PointChar == 46

Abs(n) == IF n < 0 THEN -n ELSE n
Unsigned(n, bits) == n % 2^bits
Signed(n, bits) == IF Unsigned(n, bits) < 2^(bits - 1) THEN Unsigned(n, bits)
                   ELSE Unsigned(n, bits) - 2^bits
Bits(type) == IF type \in {"int", "unsigned"} THEN IntBits ELSE LongBits
------------------------------------------------------------------------------
(***************************************************************************)
(* Division of long numbers: the quotient is put together from its highest *)
(* bit down, and 1 << i is an int.                                         *)
(***************************************************************************)
OneShifted(i) == Signed(2^(i % IntBits), IntBits)

\* From bit i down to bit `lowest': the quotient, and what is left of a.
RECURSIVE Divided(_, _, _, _, _)
Divided(i, lowest, a, b, quotient) ==
  IF i < lowest THEN [quotient |-> quotient, rest |-> a]
  ELSE IF a \div 2^i >= b
  THEN Divided(i - 1, lowest, a - b * 2^i, b, quotient + OneShifted(i))
  ELSE Divided(i - 1, lowest, a, b, quotient)

\* __udivdi3 stops before bit 0.
UDiv(a, b) == Unsigned(Divided(LongBits - 1, 1, a, b, 0).quotient, LongBits)
UMod(a, b) == Unsigned(a - b * UDiv(a, b), LongBits)

\* Mutant: __divdi3 stops there, too.
SDiv_NoBit0(a, b) == Signed(Divided(LongBits - 1, 1, a, b, 0).quotient, LongBits)

\* __divdi3, whose result has the sign of b and of what is left of a.  (b > 0)
SDiv(a, b) ==
  LET d == Divided(LongBits - 1, 0, a, b, 0) IN
  Signed(IF d.rest < 0 THEN -d.quotient ELSE d.quotient, LongBits)
SMod(a, b) == Signed(a - b * SDiv(a, b), LongBits)
------------------------------------------------------------------------------
(***************************************************************************)
(* toByteArray of whole numbers.                                           *)
(***************************************************************************)
CharOf(digit) == digit + (IF digit < 10 THEN ZeroChar ELSE 55)

BitsOfDigit(base) == CASE base = 2 -> 1 [] base = 8 -> 3 [] base = 16 -> 4

\* How many digits a number has at most: for octal the first is of the bits that are over.
NumPlaces(base, bits) == (bits + BitsOfDigit(base) - 1) \div BitsOfDigit(base)

\* Bases 2, 8 and 16: from the highest digit down, from the first that is not 0.
PowerText(n, base, bits) ==
  LET places == NumPlaces(base, bits)
      digits == [k \in 1..places |-> (Unsigned(n, bits) \div base^(places - k)) % base]
      from == CHOOSE k \in 1..places :
                /\ \A j \in 1..k - 1 : digits[j] = 0
                /\ digits[k] # 0 \/ k = places
  IN  [k \in 1..places - from + 1 |-> CharOf(digits[from + k - 1])]

\* What / 10 and % 10 are for a number of the type; those of an int round towards 0.
Tenth(n, type) == CASE type = "long" -> SDiv(n, 10) [] type = "unsigned long" -> UDiv(n, 10)
                    [] OTHER -> IF n < 0 THEN -((-n) \div 10) ELSE n \div 10
LastDigit(n, type) == CASE type = "long" -> SMod(n, 10) [] type = "unsigned long" -> UMod(n, 10)
                    [] OTHER -> n - 10 * Tenth(n, type)

\* Base 10: characters from the last digit, and then turned round.
RECURSIVE Decimals(_, _)
Decimals(n, type) ==
  IF n = 0 THEN <<>>
  ELSE Append(Decimals(Tenth(n, type), type), (LastDigit(n, type) + ZeroChar) % 256)

\* Without its sign; the least number of a type is its own opposite.
DecimalText(n, type) ==
  IF n = 0 THEN <<ZeroChar>>
  ELSE Decimals(IF n < 0 THEN Signed(-n, Bits(type)) ELSE n, type)

\* The minus sign is put before the text or, if the text is filled up, at the place of
\* the first fill.
Filled(text, negative, width, fill) ==
  LET minus == IF negative THEN <<MinusChar>> ELSE <<>>
      padding == [i \in 1..width - Len(text) - Len(minus) |-> fill]
  IN  minus \o padding \o text

NumText(n, type, base, width, fill) ==
  IF base = 10 THEN Filled(DecimalText(n, type), n < 0, width, fill)
  ELSE IF base \in {2, 8, 16} THEN Filled(PowerText(n, base, Bits(type)), FALSE, width, fill)
  ELSE <<>>
------------------------------------------------------------------------------
(***************************************************************************)
(* toByteArray of fractions, with acc digits after the point.              *)
(***************************************************************************)
\* What is taken off when rounding makes decimals more than decCarry, a row of nines.
Carried(type, decCarry) == IF type = "float" THEN decCarry + 1 ELSE decCarry

\* Mutant: the carry does not reach the part before the point.
Rounded_Lost(type, n, acc) ==
  LET decimals == (Abs(n) % Parts) * 10^acc
      up == IF 2 * (decimals % Parts) >= Parts THEN decimals + Parts ELSE decimals
  IN  <<Abs(n) \div Parts, (up \div Parts) % 10^acc>>

\* The whole part and the part after the point.  Casts cut off.
Rounded(type, n, acc) ==
  LET integer == Abs(n) \div Parts
      decimals == (Abs(n) % Parts) * 10^acc
      decCarry == 10^acc - 1
      up == IF 2 * (decimals % Parts) >= Parts THEN decimals + Parts ELSE decimals
      left == up - Carried(type, decCarry) * Parts
  IN  IF up > decCarry * Parts
      THEN <<integer + 1, IF left < 0 THEN -(Abs(left) \div Parts) ELSE left \div Parts>>
      ELSE <<integer, up \div Parts>>

FractionText(n, type, acc, width, fill) ==
  LET r == Rounded(type, n, acc)
      of(m, w) == NumText(m, IF type = "float" THEN "int" ELSE "long", 10, w, ZeroChar)
  IN  Filled(of(r[1], 0) \o <<PointChar>> \o of(r[2], acc), n < 0, width, fill)

ToByteArray(r) ==
  /\ asked' = r
  /\ printed' = IF r.type \in {"float", "double"}
                THEN FractionText(r.num, r.type, r.acc, r.width, r.fill)
                ELSE NumText(r.num, r.type, r.base, r.width, r.fill)

\* A call leaves nothing behind that another could find: one call shows all there is.
NumNext == asked.type = "none" /\ \E r \in Requests : ToByteArray(r)

NumSpec == NumInit /\ [][NumNext]_numVars
------------------------------------------------------------------------------
RECURSIVE ValueOf(_, _)
ValueOf(text, base) ==
  IF text = <<>> THEN 0
  ELSE LET c == text[Len(text)] IN
       ValueOf(SubSeq(text, 1, Len(text) - 1), base) * base +
         (IF base = 16 /\ c >= 65 THEN c - 55 ELSE c - ZeroChar)

\* The text without its sign and what it is filled up with.
Body(text, fill) ==
  SelectSeq(text, LAMBDA c : c # MinusChar /\ (c # fill \/ fill = ZeroChar))

IsDigit(c, base) == \E d \in 0..base - 1 : c = CharOf(d)

\* Whoever reads the text in the base it is in gets the number back, with its sign; its
\* characters are the digits of the base; and the text is as wide as was asked for and no
\* wider than that and the number need (numTools.cpp:48-365, numTools.h:6-12).
TextIsNumber ==
  asked.type \in {"int", "unsigned", "long", "unsigned long"} =>
    LET negative == asked.base = 10 /\ asked.num < 0
        body == Body(printed, asked.fill)
    IN  /\ ValueOf(body, asked.base) =
             IF asked.base = 10 THEN Abs(asked.num) ELSE Unsigned(asked.num, Bits(asked.type))
        /\ negative <=> \E i \in DOMAIN printed : printed[i] = MinusChar
        /\ negative => printed[1] = MinusChar
        /\ body # <<>> /\ Len(printed) >= asked.width
        /\ Len(printed) > asked.width => Len(body) = 1 \/ body[1] # ZeroChar
        /\ \A i \in DOMAIN body : IsDigit(body[i], asked.base)

\* A float or double is printed with a decimal point and as many digits after it as were
\* asked for, or one if none were, and the number read is the one asked for, rounded at
\* the last digit that was asked for, a half upwards: what is carried out of the digits
\* after the point is neither lost nor carried twice or before it is due
\* (numTools.cpp:367-429).
DecimalIsRounded ==
  asked.type \in {"float", "double"} =>
    \E p \in DOMAIN printed :
      LET body == Body(printed, asked.fill)
          shift == Len(printed) - Len(body)
          whole == ValueOf(SubSeq(body, 1, p - shift - 1), 10)
          after == SubSeq(printed, p + 1, Len(printed))
          rounded == (2 * Abs(asked.num) * 10^asked.acc + Parts) \div (2 * Parts)
      IN  /\ printed[p] = PointChar
          /\ Len(after) = IF asked.acc = 0 THEN 1 ELSE asked.acc
          /\ asked.num < 0 <=> \E i \in DOMAIN printed : printed[i] = MinusChar
          /\ (whole * 10^Len(after) + ValueOf(after, 10)) * 10^asked.acc = rounded * 10^Len(after)
==============================================================================
