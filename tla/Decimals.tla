----------------------------- MODULE Decimals -----------------------------
(***************************************************************************)
(* The SDK's number for a token amount or a rate: an integer and how many  *)
(* digits of it are behind the point (utils/decimal.ts).                   *)
(*                                                                         *)
(* The integers are bigints and never overflow.  What a result loses, it   *)
(* loses where the code divides: every bigint division truncates towards   *)
(* zero, and how many digits it keeps depends on the operands, not on the  *)
(* token.                                                                  *)
(***************************************************************************)
EXTENDS Integers

CONSTANTS
  Base,            \* of the digits: ten
  WadDecimals,     \* of ratios and rates per second: 18
  LoanDecimals     \* of the loan token

ASSUME DigitsAssumption ==
  /\ Base \in Nat \ {0, 1}
  /\ WadDecimals \in Nat
  /\ LoanDecimals \in 0 .. WadDecimals

Decimal == [n : Int, d : Nat]
Dec(n, d) == [n |-> n, d |-> d]
Zero == Dec(0, 0)
One  == Dec(1, 0)

(* 10 ** k: a unit with k digits behind its point.                         *)
Scale[k \in Nat] == IF k = 0 THEN 1 ELSE Base * Scale[k - 1]

(* bigint division: towards zero, whatever the signs.                      *)
Quot(a, b) ==
  IF a >= 0 THEN a \div b ELSE -((-a) \div b)

(* x with k digits, k at least its own.                                    *)
Aligned(x, k) == x.n * Scale[k - x.d]

MoreDigits(x, y) == IF x.d < y.d THEN y.d ELSE x.d

Plus(x, y) ==
  LET d == MoreDigits(x, y) IN Dec(Aligned(x, d) + Aligned(y, d), d)

Minus(x, y) ==
  LET d == MoreDigits(x, y) IN Dec(Aligned(x, d) - Aligned(y, d), d)

Times(x, y) == Dec(x.n * y.n, x.d + y.d)

(* The quotient keeps the digits of both operands; a zero divisor throws.  *)
Over(x, y) == Dec(Quot(x.n * Scale[y.d] * Scale[y.d], y.n), x.d + y.d)

RoundDown(x, k) ==
  IF k < x.d THEN Dec(Quot(x.n, Scale[x.d - k]), k) ELSE Dec(Aligned(x, k), k)

Gt(x, y) == Minus(x, y).n > 0

(* The digits of x as a bigint, when x has no more than k of them.         *)
Raw(x, k) == RoundDown(x, k).n
=============================================================================
