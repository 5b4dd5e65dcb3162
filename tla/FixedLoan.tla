----------------------------- MODULE FixedLoan -----------------------------
(***************************************************************************)
(* What a loan of the lending broker costs to repay                        *)
(* (calculations/loan.ts, read/broker/getBrokerUserPositions.ts).          *)
(*                                                                         *)
(* A fixed position is the record the broker returns: principal and what   *)
(* of it is repaid, the rate, start and end, when principal was last       *)
(* repaid and the interest paid since.                                     *)
(***************************************************************************)
EXTENDS Decimals, Functions

CONSTANTS
  RateDecimals,       \* of the broker's rates: 27
  Year, Block,        \* a year and the ten minutes stamps are rounded to
  RepayBuffer,        \* REPAY_BUFFER_SECONDS, twenty minutes
  DynamicBuffer       \* of a dynamic loan's interest: a tenth, as a Decimal

ASSUME LoanAssumption ==
  /\ RateDecimals \in Nat /\ RepayBuffer \in Nat
  /\ Year \in Nat \ {0} /\ Block \in Nat \ {0}
  /\ DynamicBuffer \in Decimal /\ DynamicBuffer.n >= 0

RateScale == Scale[RateDecimals]

(* Rates are stored with the one that multiplies the principal.            *)
NormalizeAprRate(apr) == IF apr > RateScale THEN apr - RateScale ELSE 0

(* The current block's start, a block later.                               *)
CurrentRoundedTimestamp(clock) == (clock \div Block) * Block + Block

CeilDiv(n, d) == IF n = 0 THEN 0 ELSE (n + d - 1) \div d
Earlier(a, b) == IF a < b THEN a ELSE b
Later(a, b)   == IF a > b THEN a ELSE b

PerSecond(loan) == CeilDiv(NormalizeAprRate(loan.apr), Year)
Remaining(loan) == loan.principal - loan.principalRepaid
Interest(loan, seconds) == CeilDiv(Remaining(loan) * PerSecond(loan) * seconds, RateScale)

(* Variant: measured from the start of the loan.                           *)
AccruedFromStart(loan, at) ==
  LET owed == Interest(loan, Later(Earlier(at, loan.end) - loan.start, 0))
  IN Later(owed - loan.interestRepaid, 0)

(* From the last repayment of principal to `at`, at most to maturity, less *)
(* what has been paid since.                                               *)
AccruedInterest(loan, at) ==
  LET from == Earlier(Later(loan.lastRepaidTime, loan.start), loan.end)
      owed == Interest(loan, Later(Earlier(at, loan.end) - from, 0))
  IN Later(owed - loan.interestRepaid, 0)

(* Half the interest of the time left.                                     *)
Penalty(loan, amount, at) ==
  IF at < loan.end
  THEN CeilDiv(CeilDiv(amount * PerSecond(loan), RateScale) * (loan.end - at), 2)
  ELSE 0

(* Variant: the time ahead is charged at the penalty's half.               *)
ForwardAtHalf(loan, at, buffer) ==
  CeilDiv(Interest(loan, Later(Earlier(at + buffer, loan.end) - at, 0)), 2)

(* Interest ahead of time, for as long as the quote is to hold.            *)
ForwardInterest(loan, at, buffer) ==
  Interest(loan, Later(Earlier(at + buffer, loan.end) - at, 0))

CalculateFixedLoanRepayment(loan, at, buffer) ==
  LET interest == AccruedInterest(loan, at)
      penalty  == Penalty(loan, Remaining(loan), at)
  IN [principal |-> Remaining(loan), interest |-> interest, penalty |-> penalty,
      totalRepay |-> Remaining(loan) + interest + penalty
                       + ForwardInterest(loan, at, buffer)]

(* Variant: the interest may be negative.                                  *)
DynamicAtDiscount(loan) ==
  LET debt     == Times(Dec(loan.normalizedDebt, LoanDecimals), Dec(loan.rate, RateDecimals))
      interest == Minus(debt, Dec(loan.principal, LoanDecimals))
  IN Plus(debt, Times(interest, DynamicBuffer))

(* What a dynamic loan takes: its debt and a margin on its interest, which *)
(* a partial repayment may have left below zero.  The read of the broker   *)
(* gives every dynamic loan its normalized debt; for one that a caller     *)
(* makes up without it the source takes the principal, which is left out.  *)
CalculateDynamicLoanRepayment(loan) ==
  LET debt     == Times(Dec(loan.normalizedDebt, LoanDecimals), Dec(loan.rate, RateDecimals))
      interest == Minus(debt, Dec(loan.principal, LoanDecimals))
  IN Plus(debt, Times(IF interest.n > 0 THEN interest ELSE Zero, DynamicBuffer))

(* Positions with principal left are shown, each at the rounded stamp or,  *)
(* once matured, at its end.                                               *)
ShownAt(loan, clock) ==
  IF loan.end <= clock THEN loan.end ELSE CurrentRoundedTimestamp(clock)

Shown(loan, clock) ==
  LET quote == CalculateFixedLoanRepayment(loan, ShownAt(loan, clock), RepayBuffer)
  IN IF Remaining(loan) > 0 THEN quote.principal + quote.interest ELSE 0

ShownPenalty(loan, clock) ==
  IF Remaining(loan) > 0 THEN Penalty(loan, Remaining(loan), ShownAt(loan, clock)) ELSE 0

(* The totals over an account's positions.                                 *)
BrokerUserPositions(loans, dynamic, clock) ==
  LET fixed == SumFunction([i \in DOMAIN loans |-> Shown(loans[i], clock)])
      flexible == IF dynamic.principal <= 0 THEN 0
                  ELSE Raw(CalculateDynamicLoanRepayment(dynamic), LoanDecimals)
  IN [dynamicOutstanding |-> flexible,
      fixedOutstanding   |-> fixed,
      totalOutstanding   |-> flexible + fixed,
      totalPenalty |-> SumFunction([i \in DOMAIN loans |-> ShownPenalty(loans[i], clock)])]
=============================================================================
