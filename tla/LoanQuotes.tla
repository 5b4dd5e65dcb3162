----------------------------- MODULE LoanQuotes ----------------------------
(***************************************************************************)
(* A borrower of the lending broker reads what his loans cost, has one of  *)
(* them quoted, and sends the quote some time later; meanwhile interest    *)
(* accrues, and he or anybody else may pay a part.                         *)
(***************************************************************************)
EXTENDS FixedLoan, Sequences

CONSTANTS
  MaxClock,        \* bound: how long the loans are watched
  Accounts,        \* the positions an account may have, and its dynamic loan
  MinLoan,         \* no less principal may be left of a loan
  Parts,           \* amounts of a partial repayment
  MaxParts         \* bound: how many there are

(* The positions as the broker returns them (types/loan.ts,                *)
(* FixedLoanPosition and DynamicLoanPosition).                             *)
Position == [principal : Nat, principalRepaid : Nat, apr : Nat, start : Int,
             end : Int, lastRepaidTime : Int, interestRepaid : Nat]
DynamicPosition == [principal : Nat, normalizedDebt : Nat, rate : Nat]

(* Loans are watched from when they were taken, or principal was repaid.   *)
ASSUME QuoteAssumption ==
  /\ MaxClock \in Nat /\ MaxParts \in Nat /\ MinLoan \in Nat /\ Parts \subseteq Nat
  /\ \A account \in Accounts :
       /\ account.fixed \in Seq(Position) /\ account.dynamic \in DynamicPosition
       /\ \A i \in DOMAIN account.fixed :
            LET loan == account.fixed[i] IN
            /\ loan.principalRepaid <= loan.principal /\ loan.start <= 0
            /\ loan.lastRepaidTime = 0 /\ loan.interestRepaid = 0

VARIABLES
  clock,
  loans, dynamic,    \* at the broker
  integral,          \* of each loan's interest since principal was last repaid
  told,              \* what the account was last read to owe, and when
  quote,             \* the loan quoted, its amount and how long that holds
  parts,
  settled            \* what became of the quote

loanVars == <<clock, loans, dynamic, integral, told, quote, parts, settled>>

Unread   == [at |-> "never"]
Unquoted == [loan |-> 0]

---------------------------------------------------------------------------
(* What has accrued, and not been paid, since principal was last repaid.   *)
InterestDue(i) == Later(CeilDiv(integral[i], RateScale) - loans[i].interestRepaid, 0)

(* The broker takes interest first, then the penalty on what principal the *)
(* rest could clear, then principal.                                       *)
Repayment(i, amount) ==
  LET loan      == loans[i]
      interest  == Earlier(amount, InterestDue(i))
      rest      == amount - interest
      penalty   == Earlier(rest, Penalty(loan, Earlier(rest, Remaining(loan)), clock))
      principal == Earlier(rest - penalty, Remaining(loan))
  IN [loan EXCEPT
        !.principalRepaid = @ + principal,
        !.lastRepaidTime  = IF principal > 0 THEN clock ELSE @,
        !.interestRepaid  = IF principal > 0 THEN 0 ELSE @ + interest]

TooSmall(loan) == Remaining(loan) \in 1 .. MinLoan - 1

LoanInit ==
  /\ \E account \in Accounts :
       loans = account.fixed /\ dynamic = account.dynamic
  /\ clock = 0
  /\ integral = [i \in DOMAIN loans |-> 0]
  /\ told = Unread /\ quote = Unquoted /\ parts = 0 /\ settled = "none"

(* Time passes: interest accrues on what is left, up to maturity, and the  *)
(* dynamic rate's index grows.                                             *)
Tick ==
  /\ clock < MaxClock /\ settled = "none"
  /\ clock' = clock + 1
  /\ integral' = [i \in DOMAIN loans |->
       integral[i] + (IF loans[i].start <= clock /\ clock < loans[i].end
                      THEN Remaining(loans[i]) * PerSecond(loans[i]) ELSE 0)]
  /\ dynamic' = [dynamic EXCEPT !.rate = @ + 1]
  /\ UNCHANGED <<loans, told, quote, parts, settled>>

ReadPositions ==
  /\ settled = "none" /\ quote = Unquoted
  /\ told' = [at |-> clock, owes |-> BrokerUserPositions(loans, dynamic, clock)]
  /\ told' # told
  /\ UNCHANGED <<clock, loans, dynamic, integral, quote, parts, settled>>

(* At the rounded stamp, unless the caller names one: now, or the end of a *)
(* loan that has matured.                                                  *)
AskQuote ==
  /\ settled = "none" /\ quote = Unquoted
  /\ \E i \in DOMAIN loans, at \in {clock, CurrentRoundedTimestamp(clock)} :
       LET stamp == IF loans[i].end <= clock THEN loans[i].end ELSE at
       IN /\ Remaining(loans[i]) > 0
          /\ quote' = [loan |-> i, principal |-> Remaining(loans[i]),
               holds |-> at + 2 * RepayBuffer,
               amount |-> CalculateFixedLoanRepayment(loans[i], stamp, RepayBuffer).totalRepay]
  /\ UNCHANGED <<clock, loans, dynamic, integral, told, parts, settled>>

(* A repayment that leaves too little of a loan reverts.                   *)
Settle(i, after) ==
  /\ loans' = [loans EXCEPT ![i] = after]
  /\ integral' = [integral EXCEPT ![i] =
       IF after.principalRepaid > loans[i].principalRepaid THEN 0 ELSE @]

PayPart ==
  /\ settled = "none" /\ parts < MaxParts
  /\ \E i \in DOMAIN loans, amount \in Parts :
       /\ Remaining(loans[i]) > 0
       /\ ~TooSmall(Repayment(i, amount))
       /\ Settle(i, Repayment(i, amount))
  /\ parts' = parts + 1
  /\ UNCHANGED <<clock, dynamic, told, quote, settled>>

SendQuote ==
  /\ settled = "none" /\ quote # Unquoted
  /\ Remaining(loans[quote.loan]) > 0
  /\ LET after == Repayment(quote.loan, quote.amount)
     IN \/ TooSmall(after) /\ settled' = "reverted" /\ UNCHANGED <<loans, integral>>
        \/ ~TooSmall(after) /\ Settle(quote.loan, after)
           /\ settled' = IF Remaining(after) > 0 THEN "partly" ELSE "cleared"
  /\ UNCHANGED <<clock, dynamic, told, quote, parts>>

LoanNext == Tick \/ ReadPositions \/ AskQuote \/ PayPart \/ SendQuote

LoanSpec == LoanInit /\ [][LoanNext]_loanVars
---------------------------------------------------------------------------
(* Correctness.                                                            *)

LoanTypeOK ==
  /\ clock \in 0 .. MaxClock /\ parts \in 0 .. MaxParts
  /\ settled \in {"none", "partly", "reverted", "cleared"}
  /\ \A i \in DOMAIN loans :
       /\ loans[i].principalRepaid \in 0 .. loans[i].principal
       /\ loans[i].interestRepaid \in Nat /\ integral[i] \in Nat
       /\ loans[i].lastRepaidTime \in loans[i].start .. clock
  /\ quote # Unquoted => quote.loan \in DOMAIN loans /\ quote.amount \in Nat

(* A quote sent within twice its buffer clears the loan, whoever paid a    *)
(* part of it in between: what accrues meanwhile is half made up for by    *)
(* the penalty that shrinks.  (A loan whose interest is less than a unit a *)
(* second is the exception: there a second rounds to a whole unit of       *)
(* penalty, and the quote at the stamp ahead can be short at once.)        *)
QuoteClears ==
  (settled \in {"partly", "reverted"} /\ clock < quote.holds)
    => quote.principal * PerSecond(loans[quote.loan]) <= RateScale

(* What an account is read to owe is what the broker would take at once,   *)
(* or what it would take up to a block later: every loan with principal    *)
(* left, matured or not, its interest since principal was last repaid and  *)
(* less what was paid of it; and no less than the debt of a dynamic loan   *)
(* with principal left.                                                    *)
TakesWithin(i, seconds) ==
  LET ahead == Later(Earlier(clock + seconds, loans[i].end) - clock, 0)
      accrued == integral[i] + Remaining(loans[i]) * PerSecond(loans[i]) * ahead
  IN Remaining(loans[i])
       + Later(CeilDiv(accrued, RateScale) - loans[i].interestRepaid, 0)

TotalWithin(seconds) == SumFunction([i \in DOMAIN loans |-> TakesWithin(i, seconds)])

ReadIsOwed ==
  told' # told =>
    LET owes == told'.owes
    IN /\ owes.fixedOutstanding \in TotalWithin(0) .. TotalWithin(Block)
       /\ dynamic.principal > 0 =>
            owes.dynamicOutstanding * RateScale
              >= dynamic.normalizedDebt * dynamic.rate - RateScale + 1

OutstandingIsOwed == [][ReadIsOwed]_loanVars
=============================================================================
