------------------------------ MODULE MCNumTools ------------------------------
(***************************************************************************)
(* Numbers as texts, with ints of 8 bits and longs of 16, and fractions    *)
(* that are numbers of 128ths.                                             *)
(***************************************************************************)
EXTENDS NumTools

Space == 32
Wholes(type, nums) ==
  [type : {type}, num : nums, base : {2, 8, 10, 16}, width : {0, 3, 9}, fill : {ZeroChar, Space}]
Fractions(types, nums) ==
  [type : types, num : nums, acc : 0..2, width : {0, 8}, fill : {ZeroChar, Space}]
Sample(nums) == {n \in nums : n % 100 \in {0, 1, 50, 99}}

\* What is printed of a fraction is wrong when its digits after the point come near to a
\* row of nines, from one and a half short of the next power of ten on.  A float is right
\* again in the last half, where the carry is due.
Nines(r) ==
  LET decimals == (Abs(r.num) % Parts) * 10^r.acc
  IN  2 * decimals >= (2 * 10^r.acc - 3) * Parts /\ decimals # (10^r.acc - 1) * Parts
CarryIsDue(r) == 2 * (Abs(r.num) % Parts) * 10^r.acc >= (2 * 10^r.acc - 1) * Parts

\* Longs have quotients of less than 2^(IntBits - 1), and unsigned longs bases that need
\* no division; fractions are those that are printed right.
MCRequests ==
  UNION {Wholes("int", -127..127), Wholes("unsigned", 0..255),
         Wholes("long", (-140..140) \cup Sample(-1279..1279)),
         [type : {"unsigned long"}, num : (0..40) \cup {4660, 2^15 - 1, 2^15, 40000, 2^16 - 1},
          base : {2, 8, 16}, width : {0, 16}, fill : {ZeroChar}],
         {r \in Fractions({"float", "double"}, -260..260) :
            Nines(r) => r.type = "float" /\ CarryIsDue(r)}}

\* Unsigned longs in base 10, which are wrong.
MCUnsigned == Wholes("unsigned long", 0..12)
===============================================================================
