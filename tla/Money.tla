------------------------------- MODULE Money -------------------------------
(***************************************************************************)
(* The integers of MoneyMicros, of Width bits (64 in the code), and          *)
(* ceil_mul_div, which makes a cost of an amount and a price in unsigned     *)
(* integers of the same width.                                              *)
(***************************************************************************)
EXTENDS Integers

CONSTANT Width    \* bits of an integer

(* The last conjunct says nothing of Width: proofs need it where they have   *)
(* no rule for powers.                                                     *)
ASSUME WidthAssumption == Width \in Nat /\ Width >= 2 /\ 2^Width \in Nat \ {0}

IntMax  == 2^(Width - 1) - 1
UIntMax == 2^Width - 1

Value(n) == [thrown |-> FALSE, value |-> n]
Thrown   == [thrown |-> TRUE, value |-> 0]

(* Faulty variant: rounds towards zero. *)
ceil_mul_div_truncated(a, b, d) ==
  IF a < 0 \/ b < 0 \/ d <= 0 THEN Thrown
  ELSE IF a = 0 THEN Value(0)
  ELSE IF b > UIntMax \div a THEN Thrown
  ELSE IF (a * b) \div d > IntMax THEN Thrown
  ELSE Value((a * b) \div d)

(* The cost of an amount a at the price b for d units of it, rounded up.    *)
(* All tests come before the operation they protect, and the arithmetic is  *)
(* unsigned, so there is one outcome.                                      *)
ceil_mul_div(a, b, d) ==
  IF a < 0 \/ b < 0 \/ d <= 0 THEN Thrown
  ELSE IF a = 0 THEN Value(0)
  ELSE IF b > UIntMax \div a THEN Thrown
  ELSE LET q  == (a * b) \div d
           up == IF (a * b) % d # 0 THEN q + 1 ELSE q
       IN  IF up > IntMax THEN Thrown ELSE Value(up)
=============================================================================
