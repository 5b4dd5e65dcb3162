----------------------------- MODULE FiguresProofs -----------------------------
(***************************************************************************)
(* Proofs about the figures an account is given.                           *)
(*                                                                         *)
(* Of loans (LoanQuotes): that a quote clears its loan for twice its       *)
(* buffer, and that what is shown of the loans, one by one and in total,   *)
(* is what the broker would take.  The broker charges from its own         *)
(* integral of the interest; the SDK from the stamps of the position.      *)
(* That both are the same figure is the first part of the invariant.  The  *)
(* second is about the time ahead: what it will cost to clear the loan at  *)
(* any moment until the quote lapses is no more than was quoted, whoever   *)
(* pays a part of it in between.                                           *)
(*                                                                         *)
(* Of a position (Advice): that whatever the caller was advised and sends, *)
(* the chain keeps a position, and that no ratio he is shown of a Smart    *)
(* one is below zero; and that both copies of the arithmetic, on decimals  *)
(* and on bigints, show him the same of a market's.                        *)
(***************************************************************************)
EXTENDS Figures, DecimalProofs

-----------------------------------------------------------------------------
(* What a quote is worth later, in numbers.  A loan of rate r a second (in *)
(* units of 1/S) has an interest of X at a moment with u seconds left; k   *)
(* seconds later it is X + r * k, and the penalty is half of the time left *)
(* at the rate rounded up.                                                 *)

(* Within the buffer the forward interest covers what accrues.             *)
LEMMA HeldForTheBuffer ==
  ASSUME NEW S \in Nat \ {0}, NEW r \in Nat, NEW X \in Nat, NEW u \in Nat,
         NEW k \in Nat, NEW f \in Nat, k <= u, k <= f
  PROVE  CeilDiv(X + r * k, S) + CeilDiv(CeilDiv(r, S) * (u - k), 2)
           <= CeilDiv(X, S) + CeilDiv(CeilDiv(r, S) * u, 2) + CeilDiv(r * f, S)
<1>1. PICK c \in Nat : c = CeilDiv(r, S)
  BY CeilIs
<1>2. r * k \in Nat /\ r * f \in Nat /\ c * u \in Nat /\ c * (u - k) \in Nat
  BY <1>1, ProductNat
<1>3. CeilDiv(X + r * k, S) <= CeilDiv(X, S) + CeilDiv(r * k, S)
  BY <1>2, CeilSum
<1>4. CeilDiv(r * k, S) <= CeilDiv(r * f, S)
  BY <1>2, Times2, CeilGrows
<1>5. CeilDiv(c * (u - k), 2) <= CeilDiv(c * u, 2)
  BY <1>1, <1>2, Times2, CeilGrows
<1>6. /\ CeilDiv(X + r * k, S) \in Nat /\ CeilDiv(X, S) \in Nat
      /\ CeilDiv(r * k, S) \in Nat /\ CeilDiv(r * f, S) \in Nat
      /\ CeilDiv(c * (u - k), 2) \in Nat /\ CeilDiv(c * u, 2) \in Nat
  <2>1. X + r * k \in Nat
    BY <1>2
  <2> QED
    BY <1>2, <2>1, CeilNat, CeilHalf
<1> QED
  BY <1>1, <1>3, <1>4, <1>5, <1>6

(* Beyond it, for as long again, the penalty that shrinks covers the rest. *)
LEMMA HeldForTwice ==
  ASSUME NEW S \in Nat \ {0}, NEW r \in Nat, NEW X \in Nat, NEW u \in Nat,
         NEW k \in Nat, NEW f \in Nat, k <= u, f <= k, k <= 2 * f
  PROVE  CeilDiv(X + r * k, S) + CeilDiv(CeilDiv(r, S) * (u - k), 2)
           <= CeilDiv(X, S) + CeilDiv(CeilDiv(r, S) * u, 2) + CeilDiv(r * f, S)
<1>1. PICK c \in Nat : c = CeilDiv(r, S) /\ r <= S * c
  BY CeilIs
<1>2. PICK e \in Nat : e = k - f
  OBVIOUS
<1>3. /\ r * k \in Nat /\ r * f \in Nat /\ r * e \in Nat /\ c * u \in Nat
      /\ c * (u - k) \in Nat /\ c * e \in Nat /\ X + r * f \in Nat
      /\ X + r * k \in Nat
  BY <1>1, <1>2, ProductNat
<1>4. X + r * k = (X + r * f) + r * e
  BY <1>2
<1>5. CeilDiv(X + r * k, S) <= CeilDiv(X + r * f, S) + CeilDiv(r * e, S)
  BY <1>3, <1>4, CeilSum
<1>6. CeilDiv(X + r * f, S) <= CeilDiv(X, S) + CeilDiv(r * f, S)
  BY <1>3, CeilSum
<1>7. CeilDiv(r * e, S) <= c * e
  <2>1. e * r <= e * (S * c)
    BY <1>1, <1>2, Times2
  <2>2. e * r = r * e /\ e * (S * c) = S * (c * e)
    BY <1>1, <1>2
  <2> QED
    BY <1>3, <2>1, <2>2, CeilLeast
<1>8. CeilDiv(c * (u - k), 2) + c * e <= CeilDiv(c * u, 2)
  <2>1. c * (2 * e) <= c * k
    BY <1>1, <1>2, Times2
  <2>2. c * (2 * e) = 2 * (c * e) /\ c * u = c * (u - k) + c * k
    BY <1>1, <1>2
  <2>3. c * (u - k) + 2 * (c * e) <= c * u
    BY <1>3, <2>1, <2>2
  <2> QED
    BY <1>3, <2>3, HalfLess
<1>9. /\ CeilDiv(X + r * k, S) \in Nat /\ CeilDiv(X, S) \in Nat
      /\ CeilDiv(r * e, S) \in Nat /\ CeilDiv(r * f, S) \in Nat
      /\ CeilDiv(X + r * f, S) \in Nat
      /\ CeilDiv(c * (u - k), 2) \in Nat /\ CeilDiv(c * u, 2) \in Nat
  BY <1>3, CeilNat, CeilHalf
<1> QED
  BY <1>1, <1>3, <1>5, <1>6, <1>7, <1>8, <1>9

(* A quote at a stamp k seconds ahead: before that moment the interest is  *)
(* less and the penalty more, and if a second earns a unit or more the one *)
(* outweighs the other.                                                    *)
LEMMA HeldBefore ==
  ASSUME NEW S \in Nat \ {0}, NEW r \in Nat, NEW X \in Nat, NEW u \in Nat,
         NEW k \in Nat, S <= r
  PROVE  CeilDiv(X, S) + CeilDiv(CeilDiv(r, S) * (u + k), 2)
           <= CeilDiv(X + r * k, S) + CeilDiv(CeilDiv(r, S) * u, 2)
<1>1. PICK c \in Nat : c = CeilDiv(r, S)
  BY CeilIs
<1>2. PICK g \in Nat : g = r \div S /\ S * g <= r /\ r < S * g + S
  BY DivIs
<1>3. g >= 1
  BY <1>2
<1>4. c <= 2 * g
  <2>1. S * (g + 1) = S * g + S
    BY <1>2
  <2>2. S * g \in Int
    BY <1>2
  <2>3. c <= g + 1
    BY <1>1, <1>2, <2>1, <2>2, CeilLeast
  <2> QED
    BY <1>1, <1>2, <1>3, <2>3
<1>5. /\ r * k \in Nat /\ c * u \in Nat /\ c * (u + k) \in Nat /\ g * k \in Nat
      /\ c * k \in Nat
  BY <1>1, <1>2, ProductNat
<1>6. CeilDiv(X, S) + g * k <= CeilDiv(X + r * k, S)
  <2>1. k * (S * g) <= k * r
    BY <1>2, Times2, ProductNat
  <2>2. k * (S * g) = S * (g * k) /\ k * r = r * k
    BY <1>2
  <2> QED
    BY <1>5, <2>1, <2>2, CeilGains
<1>7. CeilDiv(c * (u + k), 2) <= CeilDiv(c * u, 2) + g * k
  <2>1. k * c <= k * (2 * g)
    BY <1>1, <1>2, <1>4, Times2
  <2>2. c * (u + k) = c * u + k * c /\ k * (2 * g) = 2 * (g * k)
    BY <1>1, <1>2
  <2>3. c * (u + k) <= c * u + 2 * (g * k)
    BY <1>5, <2>1, <2>2
  <2> QED
    BY <1>5, <2>3, HalfIs
<1>8. /\ CeilDiv(X + r * k, S) \in Nat /\ CeilDiv(X, S) \in Nat
      /\ CeilDiv(c * (u + k), 2) \in Nat /\ CeilDiv(c * u, 2) \in Nat
  <2>1. X + r * k \in Nat
    BY <1>5
  <2> QED
    BY <1>5, <2>1, CeilNat, CeilHalf
<1> QED
  BY <1>1, <1>5, <1>6, <1>7, <1>8

-----------------------------------------------------------------------------
(* The invariant.                                                          *)

Rate(i) == Remaining(loans[i]) * PerSecond(loans[i])

(* For how long interest has accrued since principal was last repaid.      *)
Ran(i) ==
  Later(Earlier(clock, loans[i].end)
          - Earlier(loans[i].lastRepaidTime, loans[i].end), 0)

(* The broker's books: the integral is what the position's stamps say, and *)
(* no more interest is taken than is due.                                  *)
Kept(i) ==
  /\ loans[i].principalRepaid <= loans[i].principal
  /\ loans[i].start <= 0 /\ loans[i].start <= loans[i].lastRepaidTime
  /\ loans[i].lastRepaidTime <= clock
  /\ integral[i] = Rate(i) * Ran(i)
  /\ loans[i].interestRepaid <= CeilDiv(integral[i], RateScale)

Books ==
  /\ clock \in Nat
  /\ loans \in [DOMAIN loans -> Position]
  /\ integral \in [DOMAIN loans -> Nat]
  /\ \A i \in DOMAIN loans : Kept(i)

(* What it takes to clear a loan at t, if nobody pays a part until then.   *)
Ahead(i, t) ==
  integral[i] + Rate(i) * Later(Earlier(t, loans[i].end) - clock, 0)

Cost(i, t) ==
  Remaining(loans[i])
    + (CeilDiv(Ahead(i, t), RateScale) - loans[i].interestRepaid)
    + CeilDiv(CeilDiv(Rate(i), RateScale) * Later(loans[i].end - t, 0), 2)

(* The quote in hand is enough for as long as it holds.                    *)
QuoteType ==
  quote # Unquoted =>
    /\ quote.loan \in DOMAIN loans
    /\ quote.principal \in Nat /\ quote.amount \in Nat /\ quote.holds \in Int

Holds ==
  (quote # Unquoted /\ settled = "none"
     /\ RateScale < quote.principal * PerSecond(loans[quote.loan]))
    => \A t \in Nat : clock <= t /\ t < quote.holds => Cost(quote.loan, t) <= quote.amount

LInv ==
  /\ clock \in 0 .. MaxClock /\ parts \in 0 .. MaxParts
  /\ settled \in {"none", "partly", "reverted", "cleared"}
  /\ Books /\ QuoteType /\ Holds /\ QuoteClears

-----------------------------------------------------------------------------
(* What a position is.                                                     *)

LEMMA RateScaleNat ==
  RateScale \in Nat \ {0}
BY ScaleIs, LoanAssumption DEF RateScale

LEMMA FixedIs ==
  ASSUME NEW account \in Accounts
  PROVE  /\ account.fixed \in [DOMAIN account.fixed -> Position]
         /\ IsFiniteSet(DOMAIN account.fixed)
<1>1. account.fixed \in Seq(Position)
  BY QuoteAssumption
<1>2. /\ Len(account.fixed) \in Nat
      /\ DOMAIN account.fixed = 1 .. Len(account.fixed)
      /\ \A i \in 1 .. Len(account.fixed) : account.fixed[i] \in Position
  BY <1>1
<1>3. IsFiniteSet(1 .. Len(account.fixed))
  BY <1>2, FS_Interval
<1>4. account.fixed = [i \in DOMAIN account.fixed |-> account.fixed[i]]
  BY <1>1
<1> QED
  BY <1>2, <1>3, <1>4

LEMMA PerSecondNat ==
  ASSUME NEW loan \in Position
  PROVE  PerSecond(loan) \in Nat
<1>1. NormalizeAprRate(loan.apr) \in Nat
  BY RateScaleNat DEF NormalizeAprRate, Position
<1> QED
  BY <1>1, LoanAssumption, CeilNat DEF PerSecond

LEMMA LoanIs ==
  ASSUME Books, NEW i \in DOMAIN loans
  PROVE  /\ clock \in Nat /\ RateScale \in Nat \ {0}
         /\ loans[i] \in Position /\ integral[i] \in Nat /\ Kept(i)
         /\ loans[i].principal \in Nat /\ loans[i].principalRepaid \in Nat
         /\ loans[i].start \in Int /\ loans[i].end \in Int
         /\ loans[i].lastRepaidTime \in Int /\ loans[i].interestRepaid \in Nat
         /\ loans[i].principalRepaid <= loans[i].principal
         /\ loans[i].start <= loans[i].lastRepaidTime
         /\ loans[i].lastRepaidTime <= clock
         /\ loans[i].interestRepaid <= CeilDiv(integral[i], RateScale)
         /\ Remaining(loans[i]) \in Nat
         /\ PerSecond(loans[i]) \in Nat
         /\ Rate(i) \in Nat
<1>1. loans[i] \in Position /\ integral[i] \in Nat /\ Kept(i) /\ clock \in Nat
  BY DEF Books
<1>2. /\ loans[i].principal \in Nat /\ loans[i].principalRepaid \in Nat
      /\ loans[i].start \in Int /\ loans[i].end \in Int
      /\ loans[i].lastRepaidTime \in Int /\ loans[i].interestRepaid \in Nat
  BY <1>1 DEF Position
<1>3. Remaining(loans[i]) \in Nat
  BY <1>1, <1>2 DEF Remaining, Kept
<1>4. PerSecond(loans[i]) \in Nat
  BY <1>1, PerSecondNat
<1>5. Rate(i) \in Nat
  BY <1>3, <1>4, ProductNat DEF Rate
<1> QED
  BY <1>1, <1>2, <1>3, <1>4, <1>5, RateScaleNat DEF Kept

LEMMA PenaltyIs ==
  ASSUME NEW loan, NEW amount, NEW t \in Int, loan.end \in Int,
         CeilDiv(amount * PerSecond(loan), RateScale) \in Nat
  PROVE  Penalty(loan, amount, t) =
           CeilDiv(CeilDiv(amount * PerSecond(loan), RateScale)
                     * Later(loan.end - t, 0), 2)
<1> DEFINE c == CeilDiv(amount * PerSecond(loan), RateScale)
<1>1. CASE t < loan.end
  <2>1. Later(loan.end - t, 0) = loan.end - t
    BY <1>1 DEF Later
  <2> QED
    BY <1>1, <2>1 DEF Penalty
<1>2. CASE ~ (t < loan.end)
  <2>1. Later(loan.end - t, 0) = 0
    BY <1>2 DEF Later
  <2>2. c * 0 = 0
    OBVIOUS
  <2>3. CeilDiv(c * Later(loan.end - t, 0), 2) = 0
    BY <2>1, <2>2 DEF CeilDiv
  <2> QED
    BY <1>2, <2>3 DEF Penalty
<1> QED
  BY <1>1, <1>2

LEMMA AheadIs ==
  ASSUME Books, NEW i \in DOMAIN loans, NEW t \in Int
  PROVE  /\ Ahead(i, t) \in Nat
         /\ Later(Earlier(t, loans[i].end) - clock, 0) \in Nat
         /\ integral[i] <= Ahead(i, t)
         /\ CeilDiv(Ahead(i, t), RateScale) \in Nat
         /\ loans[i].interestRepaid <= CeilDiv(Ahead(i, t), RateScale)
<1>1. /\ clock \in Nat /\ loans[i].end \in Int /\ Rate(i) \in Nat
      /\ integral[i] \in Nat /\ RateScale \in Nat \ {0}
      /\ loans[i].interestRepaid \in Nat
      /\ loans[i].interestRepaid <= CeilDiv(integral[i], RateScale)
  BY LoanIs
<1>2. PICK k \in Nat : k = Later(Earlier(t, loans[i].end) - clock, 0)
  BY <1>1 DEF Later, Earlier
<1>3. Rate(i) * k \in Nat
  BY <1>1, ProductNat
<1>4. Ahead(i, t) \in Nat /\ integral[i] <= Ahead(i, t)
  BY <1>1, <1>2, <1>3 DEF Ahead
<1>5. CeilDiv(integral[i], RateScale) <= CeilDiv(Ahead(i, t), RateScale)
  BY <1>1, <1>4, CeilGrows
<1>6. CeilDiv(Ahead(i, t), RateScale) \in Nat /\ CeilDiv(integral[i], RateScale) \in Nat
  BY <1>1, <1>4, CeilNat
<1> QED
  BY <1>1, <1>2, <1>4, <1>5, <1>6

LEMMA CostNat ==
  ASSUME Books, NEW i \in DOMAIN loans, NEW t \in Int
  PROVE  Cost(i, t) \in Nat
<1>1. /\ loans[i].end \in Int /\ Rate(i) \in Nat /\ RateScale \in Nat \ {0}
      /\ Remaining(loans[i]) \in Nat /\ loans[i].interestRepaid \in Nat
  BY LoanIs
<1>2. /\ CeilDiv(Ahead(i, t), RateScale) \in Nat
      /\ loans[i].interestRepaid <= CeilDiv(Ahead(i, t), RateScale)
  BY AheadIs
<1>3. PICK c \in Nat, u \in Nat :
        c = CeilDiv(Rate(i), RateScale) /\ u = Later(loans[i].end - t, 0)
  BY <1>1, CeilNat DEF Later
<1>4. CeilDiv(c * u, 2) \in Nat
  BY <1>3, ProductNat, CeilHalf
<1> QED
  BY <1>1, <1>2, <1>3, <1>4 DEF Cost

(* The SDK's figure at a stamp that is not in the past, or at the end of a *)
(* loan that has matured, is the broker's.                                 *)
LEMMA AccruedIs ==
  ASSUME Books, NEW i \in DOMAIN loans, NEW at \in Int,
         clock <= at \/ (loans[i].end <= clock /\ at = loans[i].end)
  PROVE  AccruedInterest(loans[i], at)
           = CeilDiv(Ahead(i, at), RateScale) - loans[i].interestRepaid
<1>1. /\ clock \in Nat /\ loans[i].end \in Int /\ Rate(i) \in Nat
      /\ loans[i].start \in Int /\ loans[i].lastRepaidTime \in Int
      /\ loans[i].start <= loans[i].lastRepaidTime
      /\ loans[i].lastRepaidTime <= clock /\ Kept(i)
      /\ loans[i].interestRepaid \in Nat
  BY LoanIs
<1> DEFINE e == loans[i].end
           b == Earlier(loans[i].lastRepaidTime, e)
<1>2. Later(loans[i].lastRepaidTime, loans[i].start) = loans[i].lastRepaidTime
  BY <1>1 DEF Later
<1>3. PICK x \in Nat, y \in Nat :
        /\ x = Later(Earlier(clock, e) - b, 0)
        /\ y = Later(Earlier(at, e) - clock, 0)
        /\ x + y = Later(Earlier(at, e) - b, 0)
  <2>1. PICK c \in Int : c = e
    BY <1>1
  <2>2. PICK d \in Int, m \in Int, h \in Int :
          /\ d = b /\ m = Earlier(clock, e) /\ h = Earlier(at, e)
          /\ d <= m /\ d <= h /\ m <= clock
          /\ (m = clock /\ clock <= h) \/ (m = h /\ h <= clock)
    BY <1>1, <2>1 DEF Earlier
  <2>3. /\ Later(m - d, 0) = m - d /\ Later(h - d, 0) = h - d
        /\ Later(h - clock, 0) = h - m
    BY <1>1, <2>2 DEF Later
  <2> QED
    BY <2>2, <2>3
<1>4. integral[i] = Rate(i) * x
  BY <1>1, <1>3 DEF Kept, Ran
<1>5. Ahead(i, at) = Rate(i) * (x + y)
  BY <1>1, <1>3, <1>4 DEF Ahead
<1>6. AccruedInterest(loans[i], at)
        = Later(CeilDiv(Ahead(i, at), RateScale) - loans[i].interestRepaid, 0)
  BY <1>2, <1>3, <1>5 DEF AccruedInterest, Interest, Rate
<1>7. /\ CeilDiv(Ahead(i, at), RateScale) \in Nat
      /\ loans[i].interestRepaid <= CeilDiv(Ahead(i, at), RateScale)
  BY AheadIs
<1> QED
  BY <1>1, <1>6, <1>7 DEF Later

(* What is due now.                                                        *)
LEMMA DueIs ==
  ASSUME Books, NEW i \in DOMAIN loans
  PROVE  /\ InterestDue(i) = CeilDiv(integral[i], RateScale) - loans[i].interestRepaid
         /\ InterestDue(i) \in Nat
<1>1. /\ integral[i] \in Nat /\ RateScale \in Nat \ {0}
      /\ loans[i].interestRepaid \in Nat
      /\ loans[i].interestRepaid <= CeilDiv(integral[i], RateScale)
  BY LoanIs
<1>2. CeilDiv(integral[i], RateScale) \in Nat
  BY <1>1, CeilNat
<1> QED
  BY <1>1, <1>2 DEF InterestDue, Later

-----------------------------------------------------------------------------
(* What is quoted is what the broker would take at the stamp, and forward  *)
(* interest.                                                               *)

LEMMA QuoteIs ==
  ASSUME Books, NEW i \in DOMAIN loans, NEW at \in Int,
         clock <= at \/ (loans[i].end <= clock /\ at = loans[i].end)
  PROVE  /\ Cost(i, at) \in Nat
         /\ CalculateFixedLoanRepayment(loans[i], at, RepayBuffer).totalRepay
              = Cost(i, at) + CeilDiv(Rate(i) * Later(Earlier(at + RepayBuffer, loans[i].end) - at, 0), RateScale)
<1>1. /\ loans[i].end \in Int /\ Rate(i) \in Nat /\ RateScale \in Nat \ {0}
      /\ Remaining(loans[i]) \in Nat /\ loans[i].interestRepaid \in Nat
      /\ RepayBuffer \in Nat
  BY LoanIs, LoanAssumption
<1>2. /\ CeilDiv(Ahead(i, at), RateScale) \in Nat
      /\ loans[i].interestRepaid <= CeilDiv(Ahead(i, at), RateScale)
  BY AheadIs
<1>3. PICK c \in Nat : c = CeilDiv(Rate(i), RateScale)
  BY <1>1, CeilNat
<1>4. PICK u \in Nat : u = Later(loans[i].end - at, 0)
  BY <1>1 DEF Later
<1>5. CeilDiv(c * u, 2) \in Nat
  BY <1>3, <1>4, ProductNat, CeilHalf
<1>6. Penalty(loans[i], Remaining(loans[i]), at) = CeilDiv(c * u, 2)
  BY <1>1, <1>3, <1>4, PenaltyIs DEF Rate
<1>7. AccruedInterest(loans[i], at)
        = CeilDiv(Ahead(i, at), RateScale) - loans[i].interestRepaid
  BY AccruedIs
<1>8. Cost(i, at) = Remaining(loans[i])
        + (CeilDiv(Ahead(i, at), RateScale) - loans[i].interestRepaid)
        + CeilDiv(c * u, 2)
  BY <1>3, <1>4 DEF Cost
<1>9. CalculateFixedLoanRepayment(loans[i], at, RepayBuffer).totalRepay
        = Remaining(loans[i]) + AccruedInterest(loans[i], at)
            + Penalty(loans[i], Remaining(loans[i]), at)
            + CeilDiv(Rate(i) * Later(Earlier(at + RepayBuffer, loans[i].end) - at, 0), RateScale)
  BY DEF CalculateFixedLoanRepayment, ForwardInterest, Interest, Rate
<1> QED
  BY <1>1, <1>2, <1>5, <1>6, <1>7, <1>8, <1>9

(* It covers what the loan will cost at any moment while it holds.         *)
LEMMA QuoteCovers ==
  ASSUME Books, NEW i \in DOMAIN loans, NEW at \in Nat, clock <= at,
         NEW t \in Nat, clock <= t, t < at + 2 * RepayBuffer,
         RateScale <= Rate(i),
         NEW stamp, stamp = IF loans[i].end <= clock THEN loans[i].end ELSE at
  PROVE  Cost(i, t)
           <= CalculateFixedLoanRepayment(loans[i], stamp, RepayBuffer).totalRepay
<1> DEFINE r  == Rate(i)
           S  == RateScale
           n  == Remaining(loans[i])
           ir == loans[i].interestRepaid
           I  == integral[i]
           Q  == CalculateFixedLoanRepayment(loans[i], stamp, RepayBuffer).totalRepay
<1>1. /\ clock \in Nat /\ r \in Nat /\ S \in Nat \ {0} /\ n \in Nat
      /\ ir \in Nat /\ I \in Nat /\ RepayBuffer \in Nat
  BY LoanIs, LoanAssumption
<1>2. PICK e \in Int : e = loans[i].end
  BY LoanIs
<1>3. PICK c \in Nat : c = CeilDiv(r, S)
  BY <1>1, CeilNat
<1>4. /\ Q = Cost(i, stamp)
              + CeilDiv(r * Later(Earlier(stamp + RepayBuffer, e) - stamp, 0), S)
      /\ Cost(i, stamp) \in Nat
  BY <1>1, <1>2, QuoteIs
<1>5. ASSUME NEW s \in Int
      PROVE  Cost(i, s) = n + (CeilDiv(I + r * Later(Earlier(s, e) - clock, 0), S) - ir)
                            + CeilDiv(c * Later(e - s, 0), 2)
  BY <1>2, <1>3 DEF Cost, Ahead
<1> HIDE DEF r, S, n, ir, I, Q
<1>6. CASE e <= clock
  <2>1. stamp = e
    BY <1>2, <1>6
  <2>2. /\ Later(Earlier(t, e) - clock, 0) = 0 /\ Later(e - t, 0) = 0
        /\ Later(Earlier(e, e) - clock, 0) = 0 /\ Later(e - e, 0) = 0
        /\ Later(Earlier(e + RepayBuffer, e) - e, 0) = 0
    BY <1>1, <1>2, <1>6 DEF Later, Earlier
  <2>3. Cost(i, t) = Cost(i, e)
    BY <1>5, <2>2
  <2>4. CeilDiv(r * 0, S) = 0
    BY <1>1 DEF CeilDiv
  <2>5. Q = Cost(i, e) + CeilDiv(r * 0, S)
    BY <1>4, <2>1, <2>2
  <2>6. Q = Cost(i, e) /\ Cost(i, e) \in Nat
    BY <1>4, <2>1, <2>4, <2>5
  <2> QED
    BY <2>3, <2>6 DEF Q
<1>7. CASE clock < e
  <2>1. stamp = at
    BY <1>1, <1>2, <1>7
  <2>2. PICK va \in Nat, vt \in Nat :
          /\ va = Earlier(at, e) /\ vt = Earlier(t, e)
          /\ clock <= va /\ clock <= vt /\ va <= e /\ vt <= e
          /\ Later(va - clock, 0) = va - clock /\ Later(vt - clock, 0) = vt - clock
          /\ Later(e - at, 0) = e - va /\ Later(e - t, 0) = e - vt
          /\ t <= at => vt <= va
          /\ at <= t => va <= vt
    BY <1>1, <1>2, <1>7 DEF Later, Earlier
  <2>3. PICK f \in Nat :
          /\ f = Later(Earlier(at + RepayBuffer, e) - at, 0)
          /\ vt - va <= f \/ (f <= vt - va /\ vt - va <= 2 * f)
    <3>1. CASE e <= at
      <4>1. va = e /\ vt <= e /\ Earlier(at + RepayBuffer, e) = e
        BY <1>1, <1>2, <2>2, <3>1 DEF Earlier
      <4>2. Later(Earlier(at + RepayBuffer, e) - at, 0) = 0
        BY <1>2, <3>1, <4>1 DEF Later
      <4> QED
        BY <1>2, <2>2, <4>1, <4>2
    <3>2. CASE at < e /\ e <= at + RepayBuffer
      <4>1. va = at /\ vt <= e /\ Earlier(at + RepayBuffer, e) = e
        BY <1>1, <1>2, <2>2, <3>2 DEF Earlier
      <4>2. Later(Earlier(at + RepayBuffer, e) - at, 0) = e - at
        BY <1>2, <3>2, <4>1 DEF Later
      <4> QED
        BY <1>2, <2>2, <3>2, <4>1, <4>2
    <3>3. CASE at + RepayBuffer < e
      <4>1. va = at /\ vt <= t /\ Earlier(at + RepayBuffer, e) = at + RepayBuffer
        BY <1>1, <1>2, <2>2, <3>3 DEF Earlier
      <4>2. Later(Earlier(at + RepayBuffer, e) - at, 0) = RepayBuffer
        BY <1>1, <4>1 DEF Later
      <4> QED
        BY <1>1, <2>2, <4>1, <4>2
    <3> QED
      BY <1>1, <1>2, <3>1, <3>2, <3>3
  <2>4. /\ Cost(i, t) = n + (CeilDiv(I + r * (vt - clock), S) - ir)
                            + CeilDiv(c * (e - vt), 2)
        /\ Cost(i, at) = n + (CeilDiv(I + r * (va - clock), S) - ir)
                            + CeilDiv(c * (e - va), 2)
    BY <1>5, <2>2
  <2>5. Q = Cost(i, at) + CeilDiv(r * f, S)
    BY <1>4, <2>1, <2>3
  <2>6. /\ CeilDiv(I + r * (vt - clock), S) \in Nat
        /\ CeilDiv(I + r * (va - clock), S) \in Nat
        /\ CeilDiv(c * (e - vt), 2) \in Nat /\ CeilDiv(c * (e - va), 2) \in Nat
        /\ CeilDiv(r * f, S) \in Nat
    <3>1. PICK a \in Nat, b \in Nat, g \in Nat, h \in Nat :
            a = vt - clock /\ b = va - clock /\ g = e - vt /\ h = e - va
      BY <1>1, <2>2
    <3>2. /\ I + r * a \in Nat /\ I + r * b \in Nat /\ c * g \in Nat
          /\ c * h \in Nat /\ r * f \in Nat
      BY <1>1, <1>3, <2>3, <3>1, ProductNat
    <3> QED
      BY <1>1, <3>1, <3>2, CeilNat, CeilHalf
  <2>7. CASE t <= at
    <3>1. PICK X \in Nat, u \in Nat, k \in Nat :
            /\ X = I + r * (vt - clock) /\ u = e - va /\ k = va - vt
      <4>1. PICK a \in Nat : a = vt - clock
        BY <1>1, <2>2
      <4>2. r * a \in Nat
        BY <1>1, <4>1, ProductNat
      <4> QED
        BY <1>1, <1>2, <2>2, <2>7, <4>1, <4>2
    <3>2. X + r * k = I + r * (va - clock)
      <4>1. PICK a \in Nat : a = vt - clock /\ va - clock = a + k
        BY <1>1, <2>2, <3>1
      <4>2. r * (a + k) = r * a + r * k
        BY <1>1, <3>1, <4>1
      <4>3. r * a \in Nat /\ r * k \in Nat
        BY <1>1, <3>1, <4>1, ProductNat
      <4> QED
        BY <1>1, <3>1, <4>1, <4>2, <4>3
    <3>3. u + k = e - vt
      BY <1>2, <2>2, <3>1
    <3>4. S <= r
      BY DEF S, r
    <3>5. CeilDiv(X, S) + CeilDiv(c * (u + k), 2)
            <= CeilDiv(X + r * k, S) + CeilDiv(c * u, 2)
      BY <1>1, <1>3, <3>1, <3>4, HeldBefore
    <3> QED
      BY <1>1, <2>1, <2>4, <2>5, <2>6, <3>1, <3>2, <3>3, <3>5 DEF Q
  <2>8. CASE at <= t
    <3>1. PICK X \in Nat, u \in Nat, k \in Nat :
            /\ X = I + r * (va - clock) /\ u = e - va /\ k = vt - va
      <4>1. PICK a \in Nat : a = va - clock
        BY <1>1, <2>2
      <4>2. r * a \in Nat
        BY <1>1, <4>1, ProductNat
      <4> QED
        BY <1>1, <1>2, <2>2, <2>8, <4>1, <4>2
    <3>2. X + r * k = I + r * (vt - clock)
      <4>1. PICK a \in Nat : a = va - clock /\ vt - clock = a + k
        BY <1>1, <2>2, <3>1
      <4>2. r * (a + k) = r * a + r * k
        BY <1>1, <3>1, <4>1
      <4>3. r * a \in Nat /\ r * k \in Nat
        BY <1>1, <3>1, <4>1, ProductNat
      <4> QED
        BY <1>1, <3>1, <4>1, <4>2, <4>3
    <3>3. u - k = e - vt /\ k <= u
      BY <1>2, <2>2, <3>1
    <3>4. k <= f \/ (f <= k /\ k <= 2 * f)
      BY <2>3, <3>1
    <3>5. CeilDiv(X + r * k, S) + CeilDiv(c * (u - k), 2)
            <= CeilDiv(X, S) + CeilDiv(c * u, 2) + CeilDiv(r * f, S)
      BY <1>1, <1>3, <2>3, <3>1, <3>3, <3>4, HeldForTheBuffer, HeldForTwice
    <3> QED
      BY <1>1, <2>1, <2>4, <2>5, <2>6, <3>1, <3>2, <3>3, <3>5 DEF Q
  <2> QED
    BY <1>1, <2>7, <2>8
<1> QED
  BY <1>1, <1>2, <1>6, <1>7

LEMMA RoundedIs ==
  ASSUME clock \in Nat
  PROVE  /\ CurrentRoundedTimestamp(clock) \in Nat
         /\ clock < CurrentRoundedTimestamp(clock)
         /\ CurrentRoundedTimestamp(clock) <= clock + Block
<1>1. Block \in Nat \ {0}
  BY LoanAssumption
<1>2. PICK q \in Nat : q = clock \div Block /\ Block * q <= clock /\ clock < Block * q + Block
  BY <1>1, DivIs
<1>3. q * Block \in Nat /\ q * Block = Block * q
  BY <1>1, <1>2, ProductNat
<1> QED
  BY <1>1, <1>2, <1>3 DEF CurrentRoundedTimestamp

-----------------------------------------------------------------------------
(* What a repayment does to a loan's books, and to its cost later.         *)

(* Two parts rounded up are at most one more than their sum rounded up.    *)
LEMMA CeilParts ==
  ASSUME NEW x \in Nat, NEW y \in Nat, NEW d \in Nat \ {0}
  PROVE  CeilDiv(x, d) + CeilDiv(y, d) <= CeilDiv(x + y, d) + 1
<1>1. PICK p \in Nat, q \in Nat :
        /\ p = CeilDiv(x, d) /\ q = CeilDiv(y, d)
        /\ d * p < x + d /\ d * q < y + d
  BY CeilIs
<1>2. x + y \in Nat
  OBVIOUS
<1>3. PICK s \in Nat : s = CeilDiv(x + y, d) /\ x + y <= d * s
  BY <1>2, CeilIs
<1>4. SUFFICES ASSUME s + 2 <= p + q PROVE FALSE
  BY <1>1, <1>3
<1>5. d * (s + 2) <= d * (p + q)
  BY <1>1, <1>3, <1>4, Times2
<1>6. d * (s + 2) = d * s + 2 * d /\ d * (p + q) = d * p + d * q
  BY <1>1, <1>3
<1>7. d * s \in Nat /\ d * p \in Nat /\ d * q \in Nat
  BY <1>1, <1>3, ProductNat
<1> QED
  BY <1>1, <1>3, <1>5, <1>6, <1>7

LEMMA PenaltyNat ==
  ASSUME Books, NEW i \in DOMAIN loans, NEW amount \in Nat
  PROVE  Penalty(loans[i], amount, clock) \in Nat
<1>1. /\ clock \in Nat /\ loans[i].end \in Int
      /\ PerSecond(loans[i]) \in Nat /\ RateScale \in Nat \ {0}
  BY LoanIs
<1>2. amount * PerSecond(loans[i]) \in Nat
  BY <1>1, ProductNat
<1>3. PICK c \in Nat : c = CeilDiv(amount * PerSecond(loans[i]), RateScale)
  BY <1>1, <1>2, CeilNat
<1>4. PICK u \in Nat : u = Later(loans[i].end - clock, 0)
  BY <1>1 DEF Later
<1>5. CeilDiv(c * u, 2) \in Nat
  BY <1>3, <1>4, ProductNat, CeilHalf
<1> QED
  BY <1>1, <1>3, <1>4, <1>5, PenaltyIs

(* Interest is taken first; an amount that is all a loan costs clears it.  *)
LEMMA RepaymentIs ==
  ASSUME Books, NEW i \in DOMAIN loans, NEW amount \in Nat
  PROVE  \E paid \in Nat, p \in Nat :
           /\ paid <= InterestDue(i) /\ p <= Remaining(loans[i])
           /\ Repayment(i, amount) =
                [loans[i] EXCEPT
                   !.principalRepaid = @ + p,
                   !.lastRepaidTime  = IF p > 0 THEN clock ELSE @,
                   !.interestRepaid  = IF p > 0 THEN 0 ELSE @ + paid]
           /\ Cost(i, clock) <= amount => p = Remaining(loans[i])
<1>1. /\ clock \in Nat /\ Remaining(loans[i]) \in Nat /\ InterestDue(i) \in Nat
      /\ loans[i].end \in Int
  BY LoanIs, DueIs
<1>2. PICK n \in Nat, due \in Nat : n = Remaining(loans[i]) /\ due = InterestDue(i)
  BY <1>1
<1>3. PICK paid \in Nat, rest \in Nat :
        /\ paid = Earlier(amount, due) /\ rest = amount - paid /\ paid <= due
  BY <1>2 DEF Earlier
<1>4. PICK m \in Nat : m = Earlier(rest, n)
  BY <1>2, <1>3 DEF Earlier
<1>5. PICK all \in Nat : all = Penalty(loans[i], m, clock)
  BY <1>4, PenaltyNat
<1>6. PICK pen \in Nat : pen = Earlier(rest, all) /\ pen <= rest /\ pen <= all
  BY <1>3, <1>5 DEF Earlier
<1>7. PICK p \in Nat : p = Earlier(rest - pen, n) /\ p <= n
  BY <1>2, <1>3, <1>6 DEF Earlier
<1>8. Repayment(i, amount) =
        [loans[i] EXCEPT
           !.principalRepaid = @ + p,
           !.lastRepaidTime  = IF p > 0 THEN clock ELSE @,
           !.interestRepaid  = IF p > 0 THEN 0 ELSE @ + paid]
  BY <1>2, <1>3, <1>4, <1>5, <1>6, <1>7 DEF Repayment
<1>9. ASSUME Cost(i, clock) <= amount PROVE p = n
  <2>1. PICK full \in Nat : full = Penalty(loans[i], n, clock)
    BY <1>2, PenaltyNat
  <2>2. Cost(i, clock) = n + due + full
    <3>1. Later(Earlier(clock, loans[i].end) - clock, 0) = 0
      BY <1>1 DEF Later, Earlier
    <3>2. Ahead(i, clock) = integral[i]
      BY <3>1, LoanIs DEF Ahead
    <3>3. due = CeilDiv(Ahead(i, clock), RateScale) - loans[i].interestRepaid
      BY <1>2, <3>2, DueIs
    <3>4. CeilDiv(n * PerSecond(loans[i]), RateScale) \in Nat
      BY <1>2, LoanIs, CeilNat DEF Rate
    <3>5. full = CeilDiv(CeilDiv(n * PerSecond(loans[i]), RateScale)
                           * Later(loans[i].end - clock, 0), 2)
      BY <1>1, <2>1, <3>4, PenaltyIs
    <3> QED
      BY <1>2, <3>3, <3>5 DEF Cost, Rate
  <2>3. paid = due
    BY <1>2, <1>3, <1>9, <2>1, <2>2 DEF Earlier
  <2>4. n + full <= rest
    BY <1>2, <1>3, <1>9, <2>1, <2>2, <2>3
  <2>5. m = n
    BY <1>2, <1>3, <1>4, <2>1, <2>4 DEF Earlier
  <2>6. all = full
    BY <1>5, <2>1, <2>5
  <2>7. n <= rest - pen
    BY <1>2, <1>3, <1>6, <2>1, <2>4, <2>6
  <2> QED
    BY <1>2, <1>3, <1>6, <1>7, <2>7 DEF Earlier
<1> QED
  BY <1>2, <1>3, <1>7, <1>8, <1>9

(* What is settled stays in the books, and makes no loan dearer: a part of *)
(* the principal takes no less of the cost than the unit that rounding its *)
(* interest anew can add.                                                  *)
LEMMA SettleKeeps ==
  ASSUME Books, NEW i \in DOMAIN loans, NEW amount \in Nat,
         Settle(i, Repayment(i, amount)), clock' = clock
  PROVE  /\ Books' /\ DOMAIN loans' = DOMAIN loans
         /\ \A j \in DOMAIN loans : PerSecond(loans'[j]) = PerSecond(loans[j])
         /\ \A j \in DOMAIN loans, t \in Nat :
              clock <= t => Cost(j, t)' \in Int /\ Cost(j, t)' <= Cost(j, t)
<1>0. PICK paid \in Nat, p \in Nat :
        /\ paid <= InterestDue(i) /\ p <= Remaining(loans[i])
        /\ Repayment(i, amount) =
             [loans[i] EXCEPT
                !.principalRepaid = @ + p,
                !.lastRepaidTime  = IF p > 0 THEN clock ELSE @,
                !.interestRepaid  = IF p > 0 THEN 0 ELSE @ + paid]
        /\ Cost(i, clock) <= amount => p = Remaining(loans[i])
  BY RepaymentIs
<1>1. PICK w :
        /\ w = Repayment(i, amount)
        /\ paid \in Nat /\ p \in Nat
        /\ paid <= InterestDue(i) /\ p <= Remaining(loans[i])
        /\ w = [loans[i] EXCEPT
                  !.principalRepaid = @ + p,
                  !.lastRepaidTime  = IF p > 0 THEN clock ELSE @,
                  !.interestRepaid  = IF p > 0 THEN 0 ELSE @ + paid]
  BY <1>0
<1>2. /\ clock \in Nat /\ RateScale \in Nat \ {0}
      /\ loans[i] \in Position /\ integral[i] \in Nat /\ Kept(i)
      /\ loans[i].principal \in Nat /\ loans[i].principalRepaid \in Nat
      /\ loans[i].start \in Int /\ loans[i].end \in Int
      /\ loans[i].lastRepaidTime \in Int /\ loans[i].interestRepaid \in Nat
      /\ loans[i].start <= 0
      /\ Remaining(loans[i]) \in Nat /\ PerSecond(loans[i]) \in Nat
  BY LoanIs DEF Kept
<1>3. /\ w \in Position
      /\ w.principal = loans[i].principal /\ w.start = loans[i].start
      /\ w.end = loans[i].end /\ w.apr = loans[i].apr
      /\ w.principalRepaid = loans[i].principalRepaid + p
      /\ w.lastRepaidTime = (IF p > 0 THEN clock ELSE loans[i].lastRepaidTime)
      /\ w.interestRepaid = (IF p > 0 THEN 0 ELSE loans[i].interestRepaid + paid)
  <2>1. PICK l \in Int, z \in Nat, m \in Nat :
          /\ l = (IF p > 0 THEN clock ELSE loans[i].lastRepaidTime)
          /\ z = (IF p > 0 THEN 0 ELSE loans[i].interestRepaid + paid)
          /\ m = loans[i].principalRepaid + p
    BY <1>2
  <2>2. w = [loans[i] EXCEPT !.principalRepaid = m, !.lastRepaidTime = l, !.interestRepaid = z]
    BY <1>1, <2>1
  <2> QED
    BY <1>2, <2>1, <2>2 DEF Position
<1>4. /\ loans \in [DOMAIN loans -> Position] /\ integral \in [DOMAIN loans -> Nat]
      /\ \A j \in DOMAIN loans : Kept(j)
  BY DEF Books
<1>5. /\ loans' = [loans EXCEPT ![i] = w]
      /\ integral' = [integral EXCEPT ![i] = IF p > 0 THEN 0 ELSE @]
  <2>1. w.principalRepaid > loans[i].principalRepaid <=> p > 0
    BY <1>2, <1>3
  <2>2. /\ loans' = [loans EXCEPT ![i] = w]
        /\ integral' = [integral EXCEPT ![i] =
             IF w.principalRepaid > loans[i].principalRepaid THEN 0 ELSE @]
    BY <1>1 DEF Settle
  <2> QED
    BY <2>1, <2>2
<1>6. /\ loans' \in [DOMAIN loans -> Position] /\ integral' \in [DOMAIN loans -> Nat]
      /\ DOMAIN loans' = DOMAIN loans
      /\ loans'[i] = w /\ integral'[i] = (IF p > 0 THEN 0 ELSE integral[i])
      /\ \A j \in DOMAIN loans \ {i} : loans'[j] = loans[j] /\ integral'[j] = integral[j]
  BY <1>2, <1>3, <1>4, <1>5
<1>7. PerSecond(w) = PerSecond(loans[i])
  BY <1>3 DEF PerSecond
<1>8. Remaining(w) = Remaining(loans[i]) - p /\ Remaining(w) \in Nat
  BY <1>1, <1>2, <1>3 DEF Remaining
<1>9. ASSUME NEW j \in DOMAIN loans \ {i}
      PROVE  Kept(j)' /\ \A t \in Nat : Cost(j, t)' = Cost(j, t)
  <2>1. loans'[j] = loans[j] /\ integral'[j] = integral[j]
    BY <1>6
  <2> QED
    BY <1>4, <2>1 DEF Kept, Rate, Ran, Cost, Ahead
<1>10. ASSUME p = 0
       PROVE  Kept(i)' /\ \A t \in Nat : Cost(i, t)' \in Int /\ Cost(i, t)' <= Cost(i, t)
  <2>1. /\ w.principalRepaid = loans[i].principalRepaid
        /\ w.lastRepaidTime = loans[i].lastRepaidTime
        /\ w.interestRepaid = loans[i].interestRepaid + paid
        /\ integral'[i] = integral[i] /\ Remaining(w) = Remaining(loans[i])
    BY <1>2, <1>3, <1>6, <1>8, <1>10
  <2>2. Rate(i)' = Rate(i) /\ Ran(i)' = Ran(i)
    BY <1>3, <1>6, <1>7, <2>1 DEF Rate, Ran
  <2>3. Kept(i)'
    <3>1. w.interestRepaid <= CeilDiv(integral[i], RateScale)
      <4>1. CeilDiv(integral[i], RateScale) \in Nat
        BY <1>2, CeilNat
      <4> QED
        BY <1>1, <1>2, <2>1, <4>1, DueIs
    <3> QED
      BY <1>2, <1>3, <1>6, <2>1, <2>2, <3>1 DEF Kept
  <2>4. ASSUME NEW t \in Nat
        PROVE  Cost(i, t)' \in Int /\ Cost(i, t)' <= Cost(i, t)
    <3>1. Ahead(i, t)' = Ahead(i, t)
      BY <1>3, <1>6, <2>1, <2>2 DEF Ahead
    <3>2. PICK n \in Nat, a \in Nat, h \in Nat :
            /\ n = Remaining(loans[i]) /\ a = CeilDiv(Ahead(i, t), RateScale)
            /\ h = CeilDiv(CeilDiv(Rate(i), RateScale) * Later(loans[i].end - t, 0), 2)
      <4>1. PICK c \in Nat, u \in Nat : c = CeilDiv(Rate(i), RateScale) /\ u = Later(loans[i].end - t, 0)
        BY <1>2, LoanIs, CeilNat DEF Later
      <4>2. CeilDiv(c * u, 2) \in Nat
        BY <4>1, ProductNat, CeilHalf
      <4> QED
        BY <1>2, <4>1, <4>2, AheadIs
    <3>3. Cost(i, t) = n + (a - loans[i].interestRepaid) + h
      BY <3>2 DEF Cost
    <3>4. Cost(i, t)' = n + (a - (loans[i].interestRepaid + paid)) + h
      BY <1>3, <1>6, <2>1, <2>2, <3>1, <3>2 DEF Cost
    <3> QED
      BY <1>2, <3>2, <3>3, <3>4
  <2> QED
    BY <2>3, <2>4
<1>11. ASSUME p > 0
       PROVE  Kept(i)' /\ \A t \in Nat : Cost(i, t)' \in Int /\ Cost(i, t)' <= Cost(i, t)
  <2>1. /\ w.lastRepaidTime = clock /\ w.interestRepaid = 0 /\ integral'[i] = 0
    BY <1>3, <1>6, <1>11
  <2>2. PICK r \in Nat, q \in Nat : r = Rate(i) /\ q = Rate(i)' /\ q <= r
    <3>1. Rate(i)' = Remaining(w) * PerSecond(loans[i])
      BY <1>6, <1>7 DEF Rate
    <3>2. PerSecond(loans[i]) * Remaining(w) <= PerSecond(loans[i]) * Remaining(loans[i])
      BY <1>2, <1>8, Times2
    <3> QED
      BY <1>2, <1>8, <3>1, <3>2, ProductNat DEF Rate
  <2>3. Kept(i)'
    <3>1. Ran(i)' = 0
      BY <1>2, <1>3, <1>6, <2>1 DEF Ran, Later, Earlier
    <3>2. Rate(i)' * Ran(i)' = 0
      BY <2>2, <3>1
    <3>3. CeilDiv(0, RateScale) = 0
      BY DEF CeilDiv
    <3> QED
      BY <1>1, <1>2, <1>3, <1>6, <2>1, <3>2, <3>3 DEF Kept, Remaining
  <2>4. ASSUME NEW t \in Nat
        PROVE  Cost(i, t)' \in Int /\ Cost(i, t)' <= Cost(i, t)
    <3>1. PICK k \in Nat, u \in Nat :
            /\ k = Later(Earlier(t, loans[i].end) - clock, 0)
            /\ u = Later(loans[i].end - t, 0)
      BY <1>2 DEF Later, Earlier
    <3>2. r * k \in Nat /\ q * k \in Nat /\ integral[i] + r * k \in Nat
      BY <1>2, <2>2, <3>1, ProductNat
    <3>3. PICK c \in Nat, d \in Nat :
            c = CeilDiv(r, RateScale) /\ d = CeilDiv(q, RateScale) /\ d <= c
      BY <1>2, <2>2, CeilNat, CeilGrows
    <3>4. c * u \in Nat /\ d * u \in Nat /\ d * u <= c * u
      <4>1. u * d <= u * c
        BY <3>1, <3>3, Times2
      <4> QED
        BY <3>1, <3>3, <4>1, ProductNat
    <3>5. PICK h \in Nat, g \in Nat :
            h = CeilDiv(c * u, 2) /\ g = CeilDiv(d * u, 2) /\ g <= h
      <4>1. 2 \in Nat \ {0}
        OBVIOUS
      <4> QED
        BY <3>4, <4>1, CeilNat, CeilGrows
    <3>6. PICK a \in Nat, b \in Nat, s \in Nat, o \in Nat :
            /\ a = CeilDiv(integral[i] + r * k, RateScale)
            /\ b = CeilDiv(q * k, RateScale) /\ s = CeilDiv(r * k, RateScale)
            /\ o = CeilDiv(integral[i], RateScale)
            /\ b <= s /\ o + s <= a + 1 /\ loans[i].interestRepaid <= o
      <4>1. k * q <= k * r
        BY <2>2, <3>1, Times2
      <4>2. q * k <= r * k
        BY <2>2, <3>1, <4>1
      <4>3. CeilDiv(q * k, RateScale) <= CeilDiv(r * k, RateScale)
        BY <1>2, <3>2, <4>2, CeilGrows
      <4>4. CeilDiv(integral[i], RateScale) + CeilDiv(r * k, RateScale)
              <= CeilDiv(integral[i] + r * k, RateScale) + 1
        BY <1>2, <3>2, CeilParts
      <4>5. /\ CeilDiv(integral[i] + r * k, RateScale) \in Nat
            /\ CeilDiv(q * k, RateScale) \in Nat /\ CeilDiv(r * k, RateScale) \in Nat
            /\ CeilDiv(integral[i], RateScale) \in Nat
        BY <1>2, <3>2, CeilNat
      <4>6. loans[i].interestRepaid <= CeilDiv(integral[i], RateScale)
        BY LoanIs
      <4> QED
        BY <4>3, <4>4, <4>5, <4>6
    <3>7. Cost(i, t) = Remaining(loans[i]) + (a - loans[i].interestRepaid) + h
      BY <2>2, <3>1, <3>3, <3>5, <3>6 DEF Cost, Ahead
    <3>8. Cost(i, t)' = (Remaining(loans[i]) - p) + (b - 0) + g
      <4>1. Ahead(i, t)' = 0 + q * k
        BY <1>3, <1>6, <2>1, <2>2, <3>1 DEF Ahead
      <4>2. Ahead(i, t)' = q * k
        BY <3>2, <4>1
      <4> QED
        BY <1>3, <1>6, <1>8, <2>1, <2>2, <3>1, <3>3, <3>5, <3>6, <4>2 DEF Cost
    <3> QED
      BY <1>2, <1>11, <3>5, <3>6, <3>7, <3>8
  <2> QED
    BY <2>3, <2>4
<1>12. Kept(i)' /\ \A t \in Nat : Cost(i, t)' \in Int /\ Cost(i, t)' <= Cost(i, t)
  BY <1>10, <1>11
<1>13. Books'
  BY <1>2, <1>6, <1>9, <1>12 DEF Books
<1>14. ASSUME NEW j \in DOMAIN loans PROVE PerSecond(loans'[j]) = PerSecond(loans[j])
  BY <1>6, <1>7
<1>15. ASSUME NEW j \in DOMAIN loans, NEW t \in Nat, clock <= t
       PROVE  Cost(j, t)' \in Int /\ Cost(j, t)' <= Cost(j, t)
  <2>1. CASE j = i
    BY <1>12, <2>1
  <2>2. CASE j # i
    <3>1. Cost(j, t)' = Cost(j, t)
      BY <1>9, <2>2
    <3>2. Cost(j, t) \in Int
      BY CostNat
    <3> QED
      BY <3>1, <3>2
  <2> QED
    BY <2>1, <2>2
<1> QED
  BY <1>6, <1>13, <1>14, <1>15

(* A second that passes is a second less ahead.                            *)
LEMMA TickKeeps ==
  ASSUME Books, Tick
  PROVE  /\ Books'
         /\ \A j \in DOMAIN loans, t \in Nat : clock + 1 <= t => Cost(j, t)' = Cost(j, t)
<1>1. /\ clock \in Nat /\ clock' = clock + 1 /\ loans' = loans
      /\ loans \in [DOMAIN loans -> Position]
      /\ integral' = [i \in DOMAIN loans |->
           integral[i] + (IF loans[i].start <= clock /\ clock < loans[i].end
                          THEN Remaining(loans[i]) * PerSecond(loans[i]) ELSE 0)]
  BY DEF Books, Tick
<1>2. ASSUME NEW i \in DOMAIN loans
      PROVE  /\ integral'[i] \in Nat /\ Kept(i)'
             /\ \A t \in Nat : clock + 1 <= t => Cost(i, t)' = Cost(i, t)
  <2>1. /\ RateScale \in Nat \ {0} /\ Rate(i) \in Nat /\ integral[i] \in Nat
        /\ Kept(i) /\ loans[i].start \in Int /\ loans[i].lastRepaidTime \in Int
        /\ loans[i].lastRepaidTime <= clock /\ loans[i].interestRepaid \in Nat
        /\ loans[i].interestRepaid <= CeilDiv(integral[i], RateScale)
        /\ loans[i].start <= clock
    BY <1>1, LoanIs DEF Kept
  <2>2. PICK e \in Int, r \in Nat, b \in Int :
          /\ e = loans[i].end /\ r = Rate(i) /\ b = Earlier(loans[i].lastRepaidTime, e)
          /\ b <= clock /\ b <= e
    BY <1>1, <2>1, LoanIs DEF Earlier
  <2>3. Rate(i)' = r
    BY <1>1, <2>2 DEF Rate
  <2>4. PICK g \in {0, 1} : g = IF clock < e THEN 1 ELSE 0
    OBVIOUS
  <2>5. integral'[i] = integral[i] + r * g
    BY <1>1, <2>1, <2>2, <2>4 DEF Rate
  <2>6. Later(Earlier(clock + 1, e) - b, 0) = Later(Earlier(clock, e) - b, 0) + g
    BY <1>1, <2>2, <2>4 DEF Later, Earlier
  <2>7. Ran(i)' = Ran(i) + g /\ Ran(i) \in Nat
    <3>1. Ran(i) = Later(Earlier(clock, e) - b, 0)
      BY <2>2 DEF Ran
    <3>2. Ran(i)' = Later(Earlier(clock + 1, e) - b, 0)
      BY <1>1, <2>2 DEF Ran
    <3>3. Later(Earlier(clock, e) - b, 0) \in Nat
      BY <1>1, <2>2 DEF Later, Earlier
    <3> QED
      BY <2>6, <3>1, <3>2, <3>3
  <2>8. integral'[i] \in Nat /\ integral[i] <= integral'[i]
    BY <2>1, <2>4, <2>5, ProductNat
  <2>9. integral'[i] = Rate(i)' * Ran(i)'
    <3>1. PICK x \in Nat : x = Ran(i) /\ integral[i] = r * x
      BY <2>1, <2>2, <2>7 DEF Kept
    <3>2. r * (x + g) = r * x + r * g
      BY <2>4, <3>1
    <3> QED
      BY <2>3, <2>5, <2>7, <3>1, <3>2
  <2>10. loans[i].interestRepaid <= CeilDiv(integral'[i], RateScale)
    <3>1. CeilDiv(integral[i], RateScale) <= CeilDiv(integral'[i], RateScale)
      BY <2>1, <2>8, CeilGrows
    <3>2. CeilDiv(integral[i], RateScale) \in Nat /\ CeilDiv(integral'[i], RateScale) \in Nat
      BY <2>1, <2>8, CeilNat
    <3> QED
      BY <2>1, <3>1, <3>2
  <2>11. Kept(i)'
    BY <1>1, <2>1, <2>9, <2>10 DEF Kept
  <2>12. ASSUME NEW t \in Nat, clock + 1 <= t PROVE Cost(i, t)' = Cost(i, t)
    <3>1. PICK k \in Nat :
            /\ k = Later(Earlier(t, e) - (clock + 1), 0)
            /\ Later(Earlier(t, e) - clock, 0) = g + k
      BY <1>1, <2>2, <2>4, <2>12 DEF Later, Earlier
    <3>2. Ahead(i, t) = integral[i] + r * (g + k)
      BY <2>2, <3>1 DEF Ahead
    <3>3. Ahead(i, t)' = (integral[i] + r * g) + r * k
      BY <1>1, <2>2, <2>3, <2>5, <3>1 DEF Ahead
    <3>4. r * (g + k) = r * g + r * k /\ r * g \in Nat /\ r * k \in Nat
      BY <2>4, <3>1, ProductNat
    <3>5. Ahead(i, t)' = Ahead(i, t)
      BY <2>1, <3>2, <3>3, <3>4
    <3> QED
      BY <1>1, <2>2, <2>3, <3>5 DEF Cost
  <2> QED
    BY <2>8, <2>11, <2>12
<1>3. integral' \in [DOMAIN loans -> Nat]
  BY <1>1, <1>2
<1> QED
  BY <1>1, <1>2, <1>3 DEF Books

-----------------------------------------------------------------------------
(* The invariant is one.                                                   *)

LEMMA InitHolds ==
  FiguresInit => LInv
<1>1. ASSUME OfAPosition PROVE LInv
  <2>1. DOMAIN <<>> = {}
    OBVIOUS
  <2>2. Books
    BY <1>1, <2>1 DEF OfAPosition, Books
  <2> QED
    BY <1>1, <2>2, QuoteAssumption
       DEF OfAPosition, LInv, QuoteType, Holds, QuoteClears
<1>2. ASSUME LoanInit PROVE LInv
  <2>1. PICK account \in Accounts : loans = account.fixed
    BY <1>2 DEF LoanInit
  <2>2. /\ loans \in [DOMAIN loans -> Position]
        /\ \A i \in DOMAIN loans :
             /\ loans[i].principalRepaid <= loans[i].principal /\ loans[i].start <= 0
             /\ loans[i].lastRepaidTime = 0 /\ loans[i].interestRepaid = 0
    BY <2>1, FixedIs, QuoteAssumption
  <2>3. clock = 0 /\ integral = [i \in DOMAIN loans |-> 0]
    BY <1>2 DEF LoanInit
  <2>4. ASSUME NEW i \in DOMAIN loans PROVE Kept(i)
    <3>1. /\ loans[i] \in Position /\ integral[i] = 0
          /\ loans[i].end \in Int /\ loans[i].principal \in Nat
          /\ loans[i].principalRepaid \in Nat
      BY <2>2, <2>3 DEF Position
    <3>2. Ran(i) = 0
      BY <2>2, <2>3, <3>1 DEF Ran, Later, Earlier
    <3>3. Rate(i) \in Nat
      BY <2>2, <3>1, PerSecondNat, ProductNat DEF Rate, Remaining
    <3>4. Rate(i) * Ran(i) = 0
      BY <3>2, <3>3
    <3>5. CeilDiv(0, RateScale) = 0
      BY DEF CeilDiv
    <3> QED
      BY <2>2, <2>3, <3>1, <3>4, <3>5 DEF Kept
  <2>5. Books
    BY <2>2, <2>3, <2>4 DEF Books
  <2> QED
    BY <1>2, <2>5, QuoteAssumption
       DEF LoanInit, LInv, QuoteType, Holds, QuoteClears
<1> QED
  BY <1>1, <1>2 DEF FiguresInit, OfLoans

LEMMA TickStep ==
  ASSUME LInv, Tick
  PROVE  LInv'
<1>1. Books /\ Holds /\ QuoteType
  BY DEF LInv
<1>2. /\ clock' = clock + 1 /\ clock < MaxClock /\ settled = "none"
      /\ loans' = loans /\ quote' = quote /\ parts' = parts /\ settled' = settled
  BY DEF Tick
<1>3. /\ Books'
      /\ \A j \in DOMAIN loans, t \in Nat : clock + 1 <= t => Cost(j, t)' = Cost(j, t)
  BY <1>1, TickKeeps
<1>4. QuoteType'
  BY <1>1, <1>2 DEF QuoteType
<1>5. Holds'
  <2>1. SUFFICES ASSUME quote # Unquoted,
                        RateScale < quote.principal * PerSecond(loans[quote.loan]),
                        NEW t \in Nat, clock + 1 <= t, t < quote.holds
                 PROVE  Cost(quote.loan, t)' <= quote.amount
    BY <1>2 DEF Holds
  <2>2. quote.loan \in DOMAIN loans /\ clock \in Nat
    BY <1>1, <2>1 DEF QuoteType, Books
  <2>3. Cost(quote.loan, t) <= quote.amount
    BY <1>1, <1>2, <2>1, <2>2 DEF Holds
  <2> QED
    BY <1>2, <1>3, <2>1, <2>2, <2>3
<1>6. clock' \in 0 .. MaxClock
  BY <1>2, QuoteAssumption DEF LInv
<1> QED
  BY <1>2, <1>3, <1>4, <1>5, <1>6 DEF LInv, QuoteClears

LEMMA AskStep ==
  ASSUME LInv, AskQuote
  PROVE  LInv'
<1>0. Books
  BY DEF LInv
<1>1. PICK i \in DOMAIN loans, at \in {clock, CurrentRoundedTimestamp(clock)} :
        LET stamp == IF loans[i].end <= clock THEN loans[i].end ELSE at
        IN quote' = [loan |-> i, principal |-> Remaining(loans[i]),
             holds |-> at + 2 * RepayBuffer,
             amount |-> CalculateFixedLoanRepayment(loans[i], stamp, RepayBuffer).totalRepay]
  BY DEF AskQuote
<1>2. PICK stamp :
        /\ stamp = IF loans[i].end <= clock THEN loans[i].end ELSE at
        /\ quote' = [loan |-> i, principal |-> Remaining(loans[i]),
             holds |-> at + 2 * RepayBuffer,
             amount |-> CalculateFixedLoanRepayment(loans[i], stamp, RepayBuffer).totalRepay]
  BY <1>1
<1>3. /\ clock' = clock /\ loans' = loans /\ integral' = integral /\ parts' = parts
      /\ settled' = settled /\ settled = "none"
  BY DEF AskQuote
<1>4. /\ clock \in Nat /\ RepayBuffer \in Nat /\ at \in Nat /\ clock <= at
      /\ Remaining(loans[i]) \in Nat /\ loans[i].end \in Int
      /\ Rate(i) \in Nat /\ RateScale \in Nat \ {0}
  BY <1>0, LoanIs, LoanAssumption, RoundedIs
<1>5. CalculateFixedLoanRepayment(loans[i], stamp, RepayBuffer).totalRepay \in Nat
  <2>1. stamp \in Int /\ (clock <= stamp \/ (loans[i].end <= clock /\ stamp = loans[i].end))
    BY <1>2, <1>4
  <2>2. PICK f \in Nat : f = Later(Earlier(stamp + RepayBuffer, loans[i].end) - stamp, 0)
    BY <1>4, <2>1 DEF Later, Earlier
  <2>3. CeilDiv(Rate(i) * f, RateScale) \in Nat
    BY <1>4, <2>2, ProductNat, CeilNat
  <2> QED
    BY <1>0, <2>1, <2>2, <2>3, QuoteIs
<1>6. Books'
  BY <1>0, <1>3 DEF Books, Kept, Rate, Ran
<1>7. QuoteType'
  BY <1>2, <1>3, <1>4, <1>5 DEF QuoteType
<1>8. Holds'
  <2>1. SUFFICES ASSUME RateScale < Rate(i), NEW t \in Nat, clock <= t,
                        t < at + 2 * RepayBuffer
                 PROVE  Cost(i, t) <= CalculateFixedLoanRepayment(loans[i], stamp, RepayBuffer).totalRepay
    <3>1. \A t \in Nat : Cost(i, t)' = Cost(i, t)
      BY <1>3 DEF Cost, Ahead, Rate
    <3> QED
      BY <1>2, <1>3, <3>1 DEF Holds, Rate
  <2> QED
    BY <1>0, <1>2, <1>4, <2>1, QuoteCovers
<1> QED
  BY <1>3, <1>6, <1>7, <1>8 DEF LInv, QuoteClears

LEMMA PartStep ==
  ASSUME LInv, PayPart
  PROVE  LInv'
<1>1. Books /\ Holds /\ QuoteType
  BY DEF LInv
<1>2. PICK i \in DOMAIN loans, amount \in Parts : Settle(i, Repayment(i, amount))
  BY DEF PayPart
<1>3. /\ clock' = clock /\ quote' = quote /\ parts' = parts + 1 /\ parts < MaxParts
      /\ settled' = settled /\ settled = "none"
  BY DEF PayPart
<1>4. amount \in Nat
  BY QuoteAssumption
<1>5. /\ Books' /\ DOMAIN loans' = DOMAIN loans
      /\ \A j \in DOMAIN loans : PerSecond(loans'[j]) = PerSecond(loans[j])
      /\ \A j \in DOMAIN loans, t \in Nat :
              clock <= t => Cost(j, t)' \in Int /\ Cost(j, t)' <= Cost(j, t)
  BY <1>1, <1>2, <1>3, <1>4, SettleKeeps
<1>6. QuoteType'
  BY <1>1, <1>3, <1>5 DEF QuoteType
<1>7. Holds'
  <2>1. SUFFICES ASSUME quote # Unquoted,
                        RateScale < quote.principal * PerSecond(loans'[quote.loan]),
                        NEW t \in Nat, clock <= t, t < quote.holds
                 PROVE  Cost(quote.loan, t)' <= quote.amount
    BY <1>3 DEF Holds
  <2>2. PICK j \in DOMAIN loans : j = quote.loan
    BY <1>1, <2>1 DEF QuoteType
  <2>3. Cost(j, t) <= quote.amount /\ Cost(j, t) \in Nat
    BY <1>1, <1>3, <1>5, <2>1, <2>2, CostNat DEF Holds
  <2>4. Cost(j, t)' \in Int /\ Cost(j, t)' <= Cost(j, t)
    BY <1>5, <2>1
  <2>5. quote.amount \in Nat
    BY <1>1, <2>1 DEF QuoteType
  <2>6. Cost(j, t)' <= quote.amount
    BY <2>3, <2>4, <2>5
  <2> QED
    BY <1>3, <2>2, <2>6
<1>8. parts' \in 0 .. MaxParts
  BY <1>3, QuoteAssumption DEF LInv
<1> QED
  BY <1>3, <1>5, <1>6, <1>7, <1>8 DEF LInv, QuoteClears

LEMMA SendStep ==
  ASSUME LInv, SendQuote
  PROVE  LInv'
<1>1. Books /\ Holds /\ QuoteType
  BY DEF LInv
<1>2. /\ clock' = clock /\ quote' = quote /\ parts' = parts /\ settled = "none"
      /\ quote # Unquoted
  BY DEF SendQuote
<1>3. PICK i \in DOMAIN loans, amount \in Nat, n \in Nat :
        i = quote.loan /\ amount = quote.amount /\ n = quote.principal
  BY <1>1, <1>2 DEF QuoteType
<1>4. PICK after : after = Repayment(i, amount)
  OBVIOUS
<1>5. \/ TooSmall(after) /\ settled' = "reverted" /\ UNCHANGED <<loans, integral>>
      \/ /\ ~TooSmall(after) /\ Settle(i, after)
         /\ settled' = IF Remaining(after) > 0 THEN "partly" ELSE "cleared"
  BY <1>3, <1>4 DEF SendQuote
<1>6. clock \in Nat /\ PerSecond(loans[i]) \in Nat /\ RateScale \in Nat \ {0}
  BY <1>1, LoanIs
<1>7. ASSUME clock < quote.holds, RateScale < n * PerSecond(loans[i])
      PROVE  Remaining(after) = 0
  <2>1. Cost(i, clock) <= amount
    BY <1>1, <1>2, <1>3, <1>6, <1>7 DEF Holds
  <2>2. PICK paid \in Nat :
          after = [loans[i] EXCEPT
                     !.principalRepaid = @ + Remaining(loans[i]),
                     !.lastRepaidTime  = IF Remaining(loans[i]) > 0 THEN clock ELSE @,
                     !.interestRepaid  = IF Remaining(loans[i]) > 0 THEN 0 ELSE @ + paid]
    BY <1>1, <1>4, <2>1, RepaymentIs
  <2>3. /\ loans[i] \in Position /\ loans[i].principal \in Nat
        /\ loans[i].principalRepaid \in Nat /\ Remaining(loans[i]) \in Nat
    BY <1>1, LoanIs
  <2>4. /\ after.principal = loans[i].principal
        /\ after.principalRepaid = loans[i].principalRepaid + Remaining(loans[i])
    BY <2>2, <2>3 DEF Position
  <2> QED
    BY <2>3, <2>4 DEF Remaining
<1>8. ASSUME settled' \in {"partly", "reverted"}, clock < quote.holds
      PROVE  n * PerSecond(loans[i]) <= RateScale
  <2>1. Remaining(after) # 0
    BY <1>5, <1>8 DEF TooSmall
  <2>2. n * PerSecond(loans[i]) \in Nat
    BY <1>6, ProductNat
  <2> QED
    BY <1>6, <1>7, <1>8, <2>1, <2>2
<1>9. /\ Books' /\ DOMAIN loans' = DOMAIN loans
      /\ PerSecond(loans'[i]) = PerSecond(loans[i])
  <2>1. CASE UNCHANGED <<loans, integral>>
    BY <1>1, <1>2, <2>1 DEF Books, Kept, Rate, Ran
  <2>2. CASE Settle(i, after)
    BY <1>1, <1>2, <1>4, <2>2, SettleKeeps
  <2> QED
    BY <1>5, <2>1, <2>2
<1>10. QuoteClears'
  BY <1>2, <1>3, <1>8, <1>9 DEF QuoteClears
<1>11. QuoteType'
  BY <1>1, <1>2, <1>9 DEF QuoteType
<1>12. settled' \in {"partly", "reverted", "cleared"}
  BY <1>5
<1>13. Holds'
  BY <1>12 DEF Holds
<1> QED
  BY <1>2, <1>9, <1>10, <1>11, <1>12, <1>13 DEF LInv

LEMMA StillStep ==
  ASSUME LInv,
         UNCHANGED <<clock, loans, integral, quote, parts, settled>>
  PROVE  LInv'
<1>1. Books /\ Holds /\ QuoteType
  BY DEF LInv
<1>2. Books'
  BY <1>1 DEF Books, Kept, Rate, Ran
<1>3. QuoteType'
  BY <1>1 DEF QuoteType
<1>4. Holds'
  BY <1>1 DEF Holds, Cost, Ahead, Rate
<1> QED
  BY <1>2, <1>3, <1>4 DEF LInv, QuoteClears

LEMMA NextStep ==
  LInv /\ [FiguresNext]_<<vars, loanVars>> => LInv'
<1> SUFFICES ASSUME LInv, [FiguresNext]_<<vars, loanVars>> PROVE LInv'
  OBVIOUS
<1>1. CASE UNCHANGED loanVars
  BY <1>1, StillStep DEF loanVars
<1>2. CASE LoanNext
  <2>1. CASE Tick
    BY <2>1, TickStep
  <2>2. CASE ReadPositions
    BY <2>2, StillStep DEF ReadPositions
  <2>3. CASE AskQuote
    BY <2>3, AskStep
  <2>4. CASE PayPart
    BY <2>4, PartStep
  <2>5. CASE SendQuote
    BY <2>5, SendStep
  <2> QED
    BY <1>2, <2>1, <2>2, <2>3, <2>4, <2>5 DEF LoanNext
<1> QED
  BY <1>1, <1>2 DEF FiguresNext

(* The books are in order, and the quote in hand is enough, at all times.  *)
LEMMA Invariant ==
  FiguresSpec => []LInv
<1>1. FiguresInit => LInv
  BY InitHolds
<1>2. LInv /\ [FiguresNext]_<<vars, loanVars>> => LInv'
  BY NextStep
<1> QED
  BY <1>1, <1>2, PTL DEF FiguresSpec

-----------------------------------------------------------------------------
(* Types: what is repaid of a loan is part of it, and no repayment is ahead*)
(* of the clock.                                                           *)
THEOREM LoanTypeCorrect ==
  FiguresSpec => []LoanTypeOK
<1>1. LInv => LoanTypeOK
  <2> SUFFICES ASSUME LInv PROVE LoanTypeOK
    OBVIOUS
  <2>1. Books /\ QuoteType
    BY DEF LInv
  <2>2. ASSUME NEW i \in DOMAIN loans
        PROVE  /\ loans[i].principalRepaid \in 0 .. loans[i].principal
               /\ loans[i].interestRepaid \in Nat /\ integral[i] \in Nat
               /\ loans[i].lastRepaidTime \in loans[i].start .. clock
    BY <2>1, LoanIs
  <2> QED
    BY <2>1, <2>2 DEF LInv, LoanTypeOK, QuoteType
<1> QED
  BY <1>1, Invariant, PTL

(* A quote clears its loan when it is sent within twice its buffer, however*)
(* many parts of the loan were paid in between                             *)
(* (calculations/loan.ts, calculateFixedLoanRepayment).                    *)
THEOREM QuoteHolds ==
  FiguresSpec => []QuoteClears
<1>1. LInv => QuoteClears
  BY DEF LInv
<1> QED
  BY <1>1, Invariant, PTL

(* Loan by loan, what the SDK shows is no less than the broker would take  *)
(* at once, and no more than it would take a block later.                  *)
EachLoanIsOwed ==
  \A i \in DOMAIN loans :
    /\ TakesWithin(i, 0) <= Shown(loans[i], clock)
    /\ Shown(loans[i], clock) <= TakesWithin(i, Block)

LEMMA TakesIs ==
  ASSUME Books, NEW i \in DOMAIN loans, NEW s \in Nat
  PROVE  TakesWithin(i, s)
           = Remaining(loans[i])
               + (CeilDiv(Ahead(i, clock + s), RateScale) - loans[i].interestRepaid)
<1>1. clock \in Nat /\ loans[i].interestRepaid \in Nat
  BY LoanIs
<1>2. clock + s \in Int
  BY <1>1
<1>3. /\ CeilDiv(Ahead(i, clock + s), RateScale) \in Nat
      /\ loans[i].interestRepaid <= CeilDiv(Ahead(i, clock + s), RateScale)
  BY <1>2, AheadIs
<1>4. TakesWithin(i, s)
        = Remaining(loans[i])
            + Later(CeilDiv(Ahead(i, clock + s), RateScale) - loans[i].interestRepaid, 0)
  BY DEF TakesWithin, Ahead, Rate
<1> QED
  BY <1>1, <1>3, <1>4 DEF Later

LEMMA AheadGrows ==
  ASSUME Books, NEW i \in DOMAIN loans, NEW s \in Int, NEW t \in Int, s <= t
  PROVE  CeilDiv(Ahead(i, s), RateScale) <= CeilDiv(Ahead(i, t), RateScale)
<1>1. /\ clock \in Nat /\ loans[i].end \in Int /\ Rate(i) \in Nat
      /\ integral[i] \in Nat /\ RateScale \in Nat \ {0}
  BY LoanIs
<1>2. PICK a \in Nat, b \in Nat :
        /\ a = Later(Earlier(s, loans[i].end) - clock, 0)
        /\ b = Later(Earlier(t, loans[i].end) - clock, 0)
        /\ a <= b
  BY <1>1 DEF Later, Earlier
<1>3. Rate(i) * a <= Rate(i) * b /\ Rate(i) * a \in Nat /\ Rate(i) * b \in Nat
  BY <1>1, <1>2, Times2, ProductNat
<1>4. Ahead(i, s) <= Ahead(i, t) /\ Ahead(i, s) \in Nat /\ Ahead(i, t) \in Nat
  BY <1>1, <1>2, <1>3 DEF Ahead
<1> QED
  BY <1>1, <1>4, CeilGrows

LEMMA EachIsOwed ==
  ASSUME LInv
  PROVE  /\ EachLoanIsOwed
         /\ \A i \in DOMAIN loans :
              /\ TakesWithin(i, 0) \in Int /\ TakesWithin(i, Block) \in Int
              /\ Shown(loans[i], clock) \in Int
<1> SUFFICES ASSUME NEW i \in DOMAIN loans
             PROVE  /\ TakesWithin(i, 0) <= Shown(loans[i], clock)
                    /\ Shown(loans[i], clock) <= TakesWithin(i, Block)
                    /\ TakesWithin(i, 0) \in Int /\ TakesWithin(i, Block) \in Int
                    /\ Shown(loans[i], clock) \in Int
  BY DEF EachLoanIsOwed
<1>1. Books
  BY DEF LInv
<1>2. /\ clock \in Nat /\ loans[i].end \in Int /\ Block \in Nat
      /\ loans[i].interestRepaid \in Nat /\ Remaining(loans[i]) \in Nat
  BY <1>1, LoanIs, LoanAssumption
<1>3. PICK at \in Int :
        /\ at = ShownAt(loans[i], clock)
        /\ clock <= at \/ (loans[i].end <= clock /\ at = loans[i].end)
        /\ at <= clock + Block
  BY <1>2, RoundedIs DEF ShownAt
<1>4. Shown(loans[i], clock)
        = Remaining(loans[i])
            + (CeilDiv(Ahead(i, at), RateScale) - loans[i].interestRepaid)
  <2>1. AccruedInterest(loans[i], at)
          = CeilDiv(Ahead(i, at), RateScale) - loans[i].interestRepaid
    BY <1>1, <1>3, AccruedIs
  <2>2. CASE Remaining(loans[i]) > 0
    <3>1. Shown(loans[i], clock) = Remaining(loans[i]) + AccruedInterest(loans[i], at)
      BY <1>3, <2>2 DEF Shown, CalculateFixedLoanRepayment
    <3> QED
      BY <2>1, <3>1
  <2>3. CASE Remaining(loans[i]) = 0
    <3>1. Shown(loans[i], clock) = 0
      BY <2>3 DEF Shown
    <3>2. Rate(i) = 0
      BY <1>1, <2>3, LoanIs DEF Rate
    <3>3. integral[i] = 0
      <4>1. Kept(i) /\ Ran(i) \in Nat
        BY <1>1, LoanIs DEF Ran, Later, Earlier
      <4> QED
        BY <3>2, <4>1 DEF Kept
    <3>4. Later(Earlier(at, loans[i].end) - clock, 0) \in Int
      BY <1>2, <1>3 DEF Later, Earlier
    <3>5. Ahead(i, at) = 0
      BY <3>2, <3>3, <3>4 DEF Ahead
    <3>6. CeilDiv(Ahead(i, at), RateScale) = 0 /\ loans[i].interestRepaid <= 0
      BY <1>1, <3>3, <3>5, LoanIs DEF CeilDiv
    <3> QED
      BY <1>2, <2>3, <3>1, <3>6
  <2> QED
    BY <1>2, <2>2, <2>3
<1>5. CeilDiv(Ahead(i, clock + 0), RateScale) <= CeilDiv(Ahead(i, at), RateScale)
  <2>1. CASE clock <= at
    BY <1>1, <1>2, <2>1, AheadGrows
  <2>2. CASE loans[i].end <= clock /\ at = loans[i].end
    <3>1. /\ Later(Earlier(clock + 0, loans[i].end) - clock, 0) = 0
          /\ Later(Earlier(at, loans[i].end) - clock, 0) = 0
      BY <1>2, <2>2 DEF Later, Earlier
    <3>2. Ahead(i, clock + 0) = Ahead(i, at)
      BY <3>1 DEF Ahead
    <3>3. CeilDiv(Ahead(i, at), RateScale) \in Nat
      BY <1>1, AheadIs
    <3> QED
      BY <3>2, <3>3
  <2> QED
    BY <1>3, <2>1, <2>2
<1>6. CeilDiv(Ahead(i, at), RateScale) <= CeilDiv(Ahead(i, clock + Block), RateScale)
  BY <1>1, <1>2, <1>3, AheadGrows
<1>7. /\ CeilDiv(Ahead(i, at), RateScale) \in Nat
      /\ CeilDiv(Ahead(i, clock + 0), RateScale) \in Nat
      /\ CeilDiv(Ahead(i, clock + Block), RateScale) \in Nat
  BY <1>1, <1>2, AheadIs
<1>8. /\ TakesWithin(i, 0) = Remaining(loans[i])
           + (CeilDiv(Ahead(i, clock + 0), RateScale) - loans[i].interestRepaid)
      /\ TakesWithin(i, Block) = Remaining(loans[i])
           + (CeilDiv(Ahead(i, clock + Block), RateScale) - loans[i].interestRepaid)
  BY <1>1, <1>2, TakesIs
<1> QED
  BY <1>2, <1>4, <1>5, <1>6, <1>7, <1>8

(* Every loan's figure is the broker's, at some moment of the next block   *)
(* (read/broker/getBrokerUserPositions.ts).                                *)
THEOREM LoansAreOwed ==
  FiguresSpec => []EachLoanIsOwed
<1>1. LInv => EachLoanIsOwed
  BY EachIsOwed
<1> QED
  BY <1>1, Invariant, PTL

(* The loans are finitely many, and the dynamic one is a position.         *)
Account ==
  kind = "loans" => IsFiniteSet(DOMAIN loans) /\ dynamic \in DynamicPosition

LEMMA KindKept ==
  Next => kind' = kind
<1>1. ReadInfo => kind' = kind
  BY DEF ReadInfo
<1>2. ReadUser => kind' = kind
  BY DEF ReadUser
<1>3. SimulateBorrowPosition => kind' = kind
  BY DEF SimulateBorrowPosition, Asks
<1>4. SimulateRepayPosition => kind' = kind
  BY DEF SimulateRepayPosition, Asks
<1>5. BorrowOnSmart => kind' = kind
  BY DEF BorrowOnSmart, Asks
<1>6. RepayOnSmart => kind' = kind
  BY DEF RepayOnSmart, Asks
<1>7. MoveOnVault => kind' = kind
  BY DEF MoveOnVault, Asks
<1>8. FirstLeg => kind' = kind
  BY DEF FirstLeg
<1>9. SecondLeg => kind' = kind
  BY DEF SecondLeg
<1>10. Elapse => kind' = kind
  BY DEF Elapse
<1>11. OthersAccrue => kind' = kind
  BY DEF OthersAccrue
<1>12. VaultEarns => kind' = kind
  BY DEF VaultEarns
<1> QED
  BY <1>1, <1>2, <1>3, <1>4, <1>5, <1>6, <1>7, <1>8, <1>9, <1>10, <1>11, <1>12 DEF Next

LEMMA AccountKept ==
  FiguresSpec => []Account
<1>1. FiguresInit => Account
  <2>1. ASSUME OfAPosition PROVE Account
    <3>1. kind # "loans"
      <4>1. kind \in DOMAIN Chain
        BY <2>1 DEF OfAPosition, Init
      <4>2. kind \in DOMAIN ChainTypes
        BY <4>1, AdviceAssumption
      <4> QED
        BY <4>2 DEF ChainTypes
    <3> QED
      BY <3>1 DEF Account
  <2>2. ASSUME LoanInit PROVE Account
    <3>1. PICK account \in Accounts : loans = account.fixed /\ dynamic = account.dynamic
      BY <2>2 DEF LoanInit
    <3> QED
      BY <3>1, FixedIs, QuoteAssumption DEF Account
  <2> QED
    BY <2>1, <2>2 DEF FiguresInit, OfLoans
<1>2. Account /\ [FiguresNext]_<<vars, loanVars>> => Account'
  <2> SUFFICES ASSUME Account, [FiguresNext]_<<vars, loanVars>>, kind' = "loans"
               PROVE  IsFiniteSet(DOMAIN loans') /\ dynamic' \in DynamicPosition
    BY DEF Account
  <2>1. CASE UNCHANGED <<vars, loanVars>>
    BY <2>1 DEF Account, vars, loanVars
  <2>2. CASE kind # "loans" /\ Next /\ UNCHANGED loanVars
    BY <2>2, KindKept
  <2>3. CASE kind = "loans" /\ LoanNext /\ UNCHANGED vars
    <3>1. IsFiniteSet(DOMAIN loans) /\ dynamic \in DynamicPosition
      BY <2>3 DEF Account
    <3>2. DOMAIN loans' = DOMAIN loans
      BY <2>3 DEF LoanNext, Tick, ReadPositions, AskQuote, PayPart, SendQuote, Settle
    <3>3. CASE Tick
      <4>1. PICK n \in Nat : n = dynamic.rate
        BY <3>1 DEF DynamicPosition
      <4>2. dynamic' = [dynamic EXCEPT !.rate = n + 1] /\ n + 1 \in Nat
        BY <3>3, <4>1 DEF Tick
      <4>3. dynamic' \in DynamicPosition
        BY <3>1, <4>2 DEF DynamicPosition
      <4> QED
        BY <3>1, <3>2, <4>3
    <3>4. CASE dynamic' = dynamic
      BY <3>1, <3>2, <3>4
    <3> QED
      BY <2>3, <3>3, <3>4 DEF LoanNext, ReadPositions, AskQuote, PayPart, SendQuote
  <2> QED
    BY <2>1, <2>2, <2>3 DEF FiguresNext
<1> QED
  BY <1>1, <1>2, PTL DEF FiguresSpec

(* What is shown of a dynamic loan is its debt, but for less than a unit,  *)
(* or more.                                                                *)
LEMMA DynamicIsOwed ==
  ASSUME NEW loan \in DynamicPosition
  PROVE  Raw(CalculateDynamicLoanRepayment(loan), LoanDecimals) * RateScale
           >= loan.normalizedDebt * loan.rate - RateScale + 1
<1>1. /\ loan.principal \in Nat /\ loan.normalizedDebt \in Nat /\ loan.rate \in Nat
      /\ LoanDecimals \in Nat /\ RateDecimals \in Nat
  BY LoanAssumption, DigitsAssumption DEF DynamicPosition
<1>2. PICK debt \in Decimal :
        /\ debt = Times(Dec(loan.normalizedDebt, LoanDecimals), Dec(loan.rate, RateDecimals))
        /\ debt.n = loan.normalizedDebt * loan.rate /\ debt.n >= 0
        /\ debt.d = LoanDecimals + RateDecimals
  <2>1. /\ Dec(loan.normalizedDebt, LoanDecimals) \in Decimal
        /\ Dec(loan.rate, RateDecimals) \in Decimal
    BY <1>1 DEF Decimal, Dec
  <2>2. /\ Dec(loan.normalizedDebt, LoanDecimals).n = loan.normalizedDebt
        /\ Dec(loan.normalizedDebt, LoanDecimals).d = LoanDecimals
        /\ Dec(loan.rate, RateDecimals).n = loan.rate
        /\ Dec(loan.rate, RateDecimals).d = RateDecimals
    BY DEF Dec
  <2> QED
    BY <1>1, <2>1, <2>2, TimesIs
<1>3. PICK interest \in Decimal : interest = Minus(debt, Dec(loan.principal, LoanDecimals))
  <2>1. Dec(loan.principal, LoanDecimals) \in Decimal
    BY <1>1 DEF Decimal, Dec
  <2> QED
    BY <2>1, MinusIs
<1>4. PICK margin \in Decimal :
        /\ margin = Times(IF interest.n > 0 THEN interest ELSE Zero, DynamicBuffer)
        /\ margin.n >= 0
  <2>1. PICK earned \in Decimal :
          earned = (IF interest.n > 0 THEN interest ELSE Zero) /\ earned.n >= 0
    <3>1. Zero \in Decimal /\ Zero.n = 0 /\ interest.n \in Int
      BY DEF Zero, Dec, Decimal
    <3> QED
      BY <3>1
  <2> QED
    BY <2>1, LoanAssumption, TimesIs
<1>5. CalculateDynamicLoanRepayment(loan) = Plus(debt, margin)
  BY <1>2, <1>3, <1>4 DEF CalculateDynamicLoanRepayment
<1>6. /\ LoanDecimals <= debt.d /\ debt.d - LoanDecimals = RateDecimals
  BY <1>1, <1>2
<1>7. Raw(Plus(debt, margin), LoanDecimals) * Scale[debt.d - LoanDecimals]
        >= debt.n - Scale[debt.d - LoanDecimals] + 1
  BY <1>1, <1>2, <1>4, <1>6, CutKeeps
<1> QED
  BY <1>2, <1>5, <1>6, <1>7 DEF RateScale

(* The totals an account is shown are what it owes                         *)
(* (read/broker/getBrokerUserPositions.ts): the fixed loans' lies between  *)
(* what the broker would take at once and a block later, however many      *)
(* there are; the dynamic loan's covers its debt.                          *)
THEOREM TotalsAreOwed ==
  FiguresSpec => OutstandingIsOwed
<1>1. LInv => EachLoanIsOwed
  BY EachIsOwed
<1>2. LInv /\ EachLoanIsOwed /\ Account /\ [FiguresNext]_<<vars, loanVars>>
        => [ReadIsOwed]_loanVars
  <2> SUFFICES ASSUME LInv, EachLoanIsOwed, Account, FiguresNext, told' # told
               PROVE  /\ told'.owes.fixedOutstanding \in TotalWithin(0) .. TotalWithin(Block)
                      /\ dynamic.principal > 0 =>
                           told'.owes.dynamicOutstanding * RateScale
                             >= dynamic.normalizedDebt * dynamic.rate - RateScale + 1
    BY DEF ReadIsOwed, loanVars
  <2>1. kind = "loans" /\ ReadPositions
    BY DEF FiguresNext, loanVars, LoanNext, Tick, AskQuote, PayPart, SendQuote
  <2>2. told'.owes = BrokerUserPositions(loans, dynamic, clock)
    BY <2>1 DEF ReadPositions
  <2>3. /\ told'.owes.fixedOutstanding
             = SumFunction([i \in DOMAIN loans |-> Shown(loans[i], clock)])
        /\ dynamic.principal > 0 =>
             told'.owes.dynamicOutstanding
               = Raw(CalculateDynamicLoanRepayment(dynamic), LoanDecimals)
    <3>1. dynamic.principal \in Nat
      BY <2>1 DEF Account, DynamicPosition
    <3> QED
      BY <2>2, <3>1 DEF BrokerUserPositions
  <2>4. told'.owes.fixedOutstanding \in TotalWithin(0) .. TotalWithin(Block)
    <3> DEFINE less == [i \in DOMAIN loans |-> TakesWithin(i, 0)]
               more == [i \in DOMAIN loans |-> TakesWithin(i, Block)]
               shown == [i \in DOMAIN loans |-> Shown(loans[i], clock)]
    <3>1. \A i \in DOMAIN loans :
            /\ TakesWithin(i, 0) \in Int /\ TakesWithin(i, Block) \in Int
            /\ Shown(loans[i], clock) \in Int
      BY EachIsOwed
    <3>2. /\ less \in [DOMAIN loans -> Int] /\ more \in [DOMAIN loans -> Int]
          /\ shown \in [DOMAIN loans -> Int]
      BY <3>1
    <3>3. \A i \in DOMAIN loans : less[i] <= shown[i] /\ shown[i] <= more[i]
      BY DEF EachLoanIsOwed
    <3>4. IsFiniteSet(DOMAIN loans)
      BY <2>1 DEF Account
    <3> HIDE DEF less, more, shown
    <3>5. /\ SumFunction(less) \in Int /\ SumFunction(shown) \in Int
          /\ SumFunction(more) \in Int
          /\ SumFunction(less) <= SumFunction(shown)
          /\ SumFunction(shown) <= SumFunction(more)
      BY <3>2, <3>3, <3>4, SumsGrow
    <3> QED
      BY <2>3, <3>5 DEF less, more, shown, TotalWithin
  <2>5. ASSUME dynamic.principal > 0
        PROVE  told'.owes.dynamicOutstanding * RateScale
                 >= dynamic.normalizedDebt * dynamic.rate - RateScale + 1
    <3>1. dynamic \in DynamicPosition
      BY <2>1 DEF Account
    <3> QED
      BY <2>3, <2>5, <3>1, DynamicIsOwed
  <2> QED
    BY <2>4, <2>5
<1> QED
  BY <1>1, <1>2, Invariant, AccountKept, PTL DEF OutstandingIsOwed, FiguresSpec

-----------------------------------------------------------------------------
(* What the SDK says of a position.                                        *)

LEMMA DecIs ==
  ASSUME NEW n \in Int, NEW d \in Nat
  PROVE  Dec(n, d) \in Decimal /\ Dec(n, d).n = n /\ Dec(n, d).d = d
BY DEF Dec, Decimal

LEMMA UnitsAre ==
  /\ Zero \in Decimal /\ Zero.n = 0 /\ Zero.d = 0
  /\ One \in Decimal /\ One.n = 1 /\ One.d = 0
BY DEF Zero, One, Dec, Decimal

LEMMA DigitsAre ==
  /\ WadDecimals \in Nat /\ LoanDecimals \in Nat /\ CollDecimals \in Nat
  /\ Wad \in Nat \ {0}
<1>1. WadDecimals \in Nat /\ LoanDecimals \in Nat /\ CollDecimals \in Nat
  BY DigitsAssumption, PositionAssumption
<1> QED
  BY <1>1, ScaleIs DEF Wad

(* Interest since the last update is no less than zero.                    *)
LEMMA TaylorNat ==
  ASSUME NEW rate \in Nat, NEW elapsed \in Nat
  PROVE  TaylorCompounded(rate, elapsed) \in Nat
<1>1. PICK w \in Nat \ {0}, f \in Nat : w = Wad /\ f = rate * elapsed
  BY DigitsAre, ProductNat
<1>2. PICK g \in Nat, u \in Nat \ {0}, v \in Nat \ {0} : g = f * f /\ u = 2 * w /\ v = 3 * w
  BY <1>1, ProductNat
<1>3. PICK s \in Nat : s = Quot(g, u)
  BY <1>2, QuotIs
<1>4. PICK h \in Nat : h = s * f
  BY <1>1, <1>3, ProductNat
<1>5. PICK t \in Nat : t = Quot(h, v)
  BY <1>2, <1>4, QuotIs
<1>6. TaylorCompounded(rate, elapsed) = f + s + t
  BY <1>1, <1>2, <1>3, <1>4, <1>5, Zenon DEF TaylorCompounded
<1> QED
  BY <1>6

(* Before it, by a clock that is behind, it takes no more than the whole.  *)
LEMMA TaylorBehind ==
  ASSUME NEW rate \in Nat, NEW elapsed \in Int, NEW k \in Nat,
         -k <= elapsed, rate * k <= Wad
  PROVE  /\ TaylorCompounded(rate, elapsed) \in Int
         /\ TaylorCompounded(rate, elapsed) + Wad >= 0
<1>1. CASE elapsed >= 0
  BY <1>1, TaylorNat, DigitsAre
<1>2. CASE elapsed < 0
  <2>1. PICK w \in Nat \ {0} : w = Wad
    BY DigitsAre
  <2>2. PICK e \in Nat : e = -elapsed /\ e <= k
    BY <1>2
  <2>3. PICK f \in Nat : f = rate * e /\ f <= w /\ rate * elapsed = -f
    <3>1. rate * e <= rate * k /\ rate * e \in Nat /\ rate * k \in Nat
      BY <2>2, Times2, ProductNat
    <3>2. rate * elapsed = -(rate * e)
      BY <2>2
    <3> QED
      BY <2>1, <3>1, <3>2
  <2>4. PICK g \in Nat, u \in Nat \ {0}, v \in Nat \ {0} :
          g = f * f /\ u = 2 * w /\ v = 3 * w /\ (-f) * (-f) = g
    BY <2>1, <2>3, ProductNat
  <2>5. PICK s \in Nat : s = Quot(g, u)
    BY <2>4, QuotIs
  <2>6. PICK h \in Nat : h = s * f /\ s * (-f) = -h
    BY <2>3, <2>5, ProductNat
  <2>7. PICK t \in Nat : t = h \div v /\ v * t <= h
    BY <2>4, <2>6, DivIs
  <2>8. Quot(-h, v) = -t
    <3>1. CASE h = 0
      <4>1. t = 0
        BY <2>4, <2>7, <3>1
      <4>2. Quot(0, v) = 0
        BY <2>4 DEF Quot
      <4> QED
        BY <3>1, <4>1, <4>2
    <3>2. CASE h # 0
      <4>1. ~(-h >= 0) /\ -(-h) = h
        BY <2>6, <3>2
      <4> QED
        BY <2>7, <4>1 DEF Quot
    <3> QED
      BY <3>1, <3>2
  <2>9. t <= s
    <3>1. SUFFICES ASSUME s + 1 <= t PROVE FALSE
      BY <2>5, <2>7
    <3>2. h <= w * s
      <4>1. s * f <= s * w
        BY <2>1, <2>3, <2>5, Times2
      <4> QED
        BY <2>1, <2>5, <2>6, <4>1
    <3>3. w * t <= v * t
      <4>1. v * t = w * t + 2 * (w * t) /\ w * t \in Nat
        BY <2>1, <2>4, <2>7, ProductNat
      <4> QED
        BY <4>1
    <3>4. w * (s + 1) <= w * t
      BY <2>1, <2>5, <2>7, <3>1, Times2
    <3>5. w * (s + 1) = w * s + w /\ w * s \in Nat /\ w * t \in Nat /\ v * t \in Nat
      BY <2>1, <2>4, <2>5, <2>7, ProductNat
    <3> QED
      BY <2>1, <2>6, <2>7, <3>2, <3>3, <3>4, <3>5
  <2>10. TaylorCompounded(rate, elapsed) = -f + s + (-t)
    BY <2>1, <2>3, <2>4, <2>5, <2>6, <2>8 DEF TaylorCompounded
  <2> QED
    BY <2>1, <2>3, <2>5, <2>7, <2>9, <2>10
<1> QED
  BY <1>1, <1>2

(* A debt with its interest is none below zero.                            *)
LEMMA GrownIs ==
  ASSUME NEW base \in Decimal, base.n >= 0, NEW interest \in Int, interest + Wad >= 0
  PROVE  /\ Times(base, Plus(Dec(interest, WadDecimals), One)) \in Decimal
         /\ Times(base, Plus(Dec(interest, WadDecimals), One)).n >= 0
<1>1. Dec(interest, WadDecimals) \in Decimal /\ One \in Decimal
  BY DecIs, DigitsAre, UnitsAre
<1>2. PICK grown \in Decimal : grown = Plus(Dec(interest, WadDecimals), One)
  BY <1>1, PlusIs
<1>3. grown.n >= 0
  <2>1. MoreDigits(Dec(interest, WadDecimals), One) = WadDecimals
    BY DigitsAre DEF MoreDigits, Dec, One
  <2>2. /\ Aligned(Dec(interest, WadDecimals), WadDecimals) = interest * Scale[0]
        /\ Aligned(One, WadDecimals) = Wad
    BY DigitsAre DEF Aligned, Dec, One, Wad
  <2>3. grown.n = interest * Scale[0] + Wad
    BY <1>2, <2>1, <2>2 DEF Plus, Dec
  <2>4. Scale[0] = 1
    BY ScaleIs
  <2> QED
    BY <2>3, <2>4, DigitsAre
<1> QED
  BY <1>2, <1>3, TimesIs

LEMMA LTVIs ==
  ASSUME NEW borrowed \in Decimal, NEW collateral \in Decimal, NEW priceRate \in Decimal
  PROVE  /\ ComputeSmartLTV(borrowed, collateral, priceRate) \in Decimal
         /\ borrowed.n >= 0 => ComputeSmartLTV(borrowed, collateral, priceRate).n >= 0
<1>1. PICK worth \in Decimal : worth = Times(collateral, priceRate)
  BY TimesIs
<1>2. CASE worth.n > 0
  BY <1>1, <1>2, OverIs DEF ComputeSmartLTV
<1>3. CASE ~(worth.n > 0)
  BY <1>1, <1>3, UnitsAre DEF ComputeSmartLTV
<1> QED
  BY <1>2, <1>3

LEMMA LoanableIs ==
  ASSUME NEW collateral \in Decimal, NEW borrowed \in Decimal, NEW ltv \in Decimal,
         NEW priceRate \in Decimal
  PROVE  /\ ComputeLoanable(collateral, borrowed, ltv, priceRate) \in Decimal
         /\ Raw(ComputeLoanable(collateral, borrowed, ltv, priceRate), LoanDecimals) \in Int
<1>1. PICK x \in Decimal : x = Times(collateral, ltv)
  BY TimesIs
<1>2. PICK y \in Decimal : y = Times(x, priceRate)
  BY <1>1, TimesIs
<1>3. PICK z \in Decimal : z = Minus(y, borrowed)
  BY <1>2, MinusIs
<1>4. ComputeLoanable(collateral, borrowed, ltv, priceRate) = RoundDown(z, LoanDecimals)
  BY <1>1, <1>2, <1>3 DEF ComputeLoanable
<1> QED
  BY <1>4, RoundDownIs, DigitsAre

LEMMA PriceRateIs ==
  ASSUME NEW price \in Nat, NEW digits \in Nat
  PROVE  PriceRate(price, digits) \in Decimal /\ PriceRate(price, digits).n >= 0
<1>1. PICK a \in Nat \ {0}, b \in Nat \ {0} : a = Scale[digits] /\ b = Scale[LoanDecimals]
  BY ScaleIs, DigitsAre
<1>2. /\ Dec(price, 2 * WadDecimals) \in Decimal /\ Dec(price, 2 * WadDecimals).n = price
      /\ Dec(a, 0) \in Decimal /\ Dec(a, 0).n = a
      /\ Dec(b, 0) \in Decimal /\ Dec(b, 0).n = b
  BY DecIs, DigitsAre
<1>3. PICK x \in Decimal : x = Times(Dec(price, 2 * WadDecimals), Dec(a, 0)) /\ x.n >= 0
  BY <1>1, <1>2, TimesIs
<1>4. PICK y \in Decimal : y = Over(x, Dec(b, 0)) /\ y.n >= 0
  BY <1>1, <1>2, <1>3, OverIs
<1>5. PriceRate(price, digits) = RoundDown(y, WadDecimals)
  BY <1>1, <1>3, <1>4 DEF PriceRate
<1> QED
  BY <1>4, <1>5, RoundDownIs, DigitsAre

-----------------------------------------------------------------------------
(* The invariant of an account with a position: what is on the chain is a  *)
(* position, what was read of it has no figure below zero, and what is     *)
(* sent are amounts.                                                       *)

(* A market's record c at time t, of kind k, read by a clock that is       *)
(* `behind`.                                                               *)
OnChain(c, k, t, behind) ==
  /\ {"price", "lltv", "rate", "lastUpdate", "borrowAssets", "borrowShares",
      "collateral", "shares"} \subseteq DOMAIN c
  /\ c.price \in Nat /\ c.lltv \in Nat \ {0} /\ c.rate \in Nat
  /\ c.lastUpdate \in Nat /\ c.lastUpdate <= t
  /\ c.borrowAssets \in Nat /\ c.borrowShares \in Nat
  /\ c.collateral \in Nat /\ c.shares \in Nat
  /\ c.shares <= c.borrowShares
  /\ c.rate * behind <= Wad
  /\ k = "smart" =>
       /\ "pool" \in DOMAIN c
       /\ c.pool.balances[1] \in Nat /\ c.pool.balances[2] \in Nat
       /\ c.pool.balances[1] + c.pool.balances[2] > 0 /\ c.pool.totalLp \in Nat

InVault(c) ==
  /\ {"totalAssets", "totalSupply", "shares", "balance", "earned"} \subseteq DOMAIN c
  /\ c.totalSupply \in Nat /\ c.shares \in Nat /\ c.balance \in Nat /\ c.earned \in Nat
  /\ c.shares <= c.totalSupply

GoodInfo(i, k, t, behind) ==
  /\ i.priceRate \in Decimal /\ i.priceRate.n >= 0
  /\ i.lltv \in Decimal /\ i.lltv.n > 0
  /\ i.rateView \in Nat /\ i.rateView * behind <= Wad
  /\ i.lastUpdate \in Nat /\ i.lastUpdate <= t
  /\ i.totalBorrowAssets \in Nat /\ i.totalBorrowShares \in Nat
  /\ k = "smart" =>
       /\ i.balances[1] \in Decimal /\ i.balances[1].n >= 0 /\ i.balances[1].d = LoanDecimals
       /\ i.balances[2] \in Decimal /\ i.balances[2].n >= 0 /\ i.balances[2].d = LoanDecimals
       /\ i.balances[1].n + i.balances[2].n > 0
       /\ i.totalLp \in Decimal /\ i.totalLp.n >= 0

GoodData(d, k) ==
  /\ d.collateral \in Decimal /\ d.collateral.n >= 0
  /\ k = "smart" => d.collateral.d = WadDecimals
  /\ d.borrowed \in Decimal /\ d.borrowed.n >= 0

GoodAsk(a) ==
  \/ a.op = "borrow" /\ a.first \in Nat /\ a.second \in Nat /\ a.most = a.second
  \/ a.op = "repay" /\ a.all \in BOOLEAN /\ (~a.all => a.first \in Nat)

Lent ==
  /\ OnChain(chain, kind, now, lag)
  /\ phase \in {"info", "data"} => GoodInfo(info, kind, now, lag)
  /\ phase = "data" => GoodData(data, kind)
  /\ phase \in {"asked", "half"} => GoodAsk(asked)

Deposit ==
  /\ InVault(chain)
  /\ chain.totalAssets \in Int
  /\ phase \notin Done => chain.totalAssets \in Nat
  /\ phase \in {"start", "info", "data", "asked"} \cup Done
  /\ phase = "data" => data.balance.n = chain.balance
  /\ phase = "asked" =>
       /\ asked.op \in {"deposit", "withdraw"} /\ asked.first \in Nat
       /\ asked.op = "deposit" => asked.first <= chain.balance

RatioShown == kind = "smart" /\ sim # Nothing => sim.LTV.n >= 0

AInv ==
  kind # "loans" =>
    /\ kind \in {"market", "smart", "vault"} /\ phase \in Phases
    /\ now \in 1 .. MaxTime /\ lag \in Nat /\ readAt \in 0 .. now /\ owedThen \in Nat
    /\ kind # "vault" => Lent
    /\ kind = "vault" => Deposit
    /\ RatioShown

LEMMA AInit ==
  FiguresInit => AInv
<1>1. ASSUME OfLoans PROVE AInv
  BY <1>1 DEF OfLoans, AInv
<1>2. ASSUME Init PROVE AInv
  <2>1. kind \in DOMAIN Chain /\ chain \in Chain[kind] /\ phase = "start" /\ now = 1
        /\ readAt = 0 /\ owedThen = 0 /\ sim = Nothing
        /\ (kind # "vault" => lag \in Lags)
    BY <1>2 DEF Init
  <2>2. kind \in DOMAIN ChainTypes /\ chain \in ChainTypes[kind]
    BY <2>1, AdviceAssumption
  <2>3. kind \in {"market", "smart", "vault"}
    <3>1. kind \in DOMAIN ChainTypes
      BY <2>2
    <3> QED
      BY <3>1 DEF ChainTypes
  <2>4. lag \in Nat
    <3>1. lag = 0 \/ lag \in Lags
      BY <1>2 DEF Init
    <3>2. Lags \subseteq Nat
      BY AdviceAssumption
    <3>3. 0 \in Nat
      OBVIOUS
    <3> QED
      BY <3>1, <3>2, <3>3, Zenon
  <2>5. kind # "vault" => Lent
    <3>1. SUFFICES ASSUME kind # "vault" PROVE OnChain(chain, kind, now, lag)
      BY <2>1 DEF Lent
    <3>2. /\ chain.shares <= chain.borrowShares /\ chain.lastUpdate <= 1
          /\ chain.rate * lag <= Wad
          /\ kind = "smart" => chain.pool.balances[1] + chain.pool.balances[2] > 0
      BY <2>1, <3>1, AdviceAssumption
    <3>3. CASE kind = "market"
      <4>1. chain \in Markets
        BY <2>2, <3>3 DEF ChainTypes
      <4> QED
        BY <2>1, <3>2, <3>3, <4>1 DEF Markets, OnChain
    <3>4. CASE kind = "smart"
      <4>1. chain \in SmartMarkets
        BY <2>2, <3>4 DEF ChainTypes
      <4>2. chain.pool \in Pools
        BY <4>1 DEF SmartMarkets
      <4>3. chain.pool.balances[1] \in Nat /\ chain.pool.balances[2] \in Nat
            /\ chain.pool.totalLp \in Nat
        BY <4>2 DEF Pools
      <4> QED
        BY <2>1, <3>2, <3>4, <4>1, <4>3 DEF SmartMarkets, OnChain
    <3> QED
      BY <2>3, <3>1, <3>3, <3>4
  <2>6. kind = "vault" => Deposit
    <3>1. SUFFICES ASSUME kind = "vault" PROVE Deposit
      OBVIOUS
    <3>2. chain \in Vaults
      BY <2>2, <3>1 DEF ChainTypes
    <3>3. chain.shares <= chain.totalSupply
      BY <2>1, <3>1, AdviceAssumption
    <3> QED
      BY <2>1, <3>2, <3>3 DEF Vaults, Deposit, InVault, Done
  <2>7. now \in 1 .. MaxTime /\ readAt \in 0 .. now /\ owedThen \in Nat
    BY <2>1, AdviceAssumption
  <2>8. phase \in Phases /\ RatioShown
    BY <2>1 DEF Phases, RatioShown
  <2> QED
    BY <2>1, <2>3, <2>4, <2>5, <2>6, <2>7, <2>8 DEF AInv
<1> QED
  BY <1>1, <1>2 DEF FiguresInit, OfAPosition

-----------------------------------------------------------------------------
(* The reads.                                                              *)

LEMMA InfoIs ==
  ASSUME NEW c, NEW t \in Nat, NEW behind \in Nat,
         kind \in {"market", "smart"}, OnChain(c, kind, t, behind)
  PROVE  GoodInfo(InfoOf(c), kind, t, behind)
<1>1. /\ c.price \in Nat /\ c.lltv \in Nat \ {0} /\ c.rate \in Nat
      /\ c.lastUpdate \in Nat /\ c.lastUpdate <= t
      /\ c.borrowAssets \in Nat /\ c.borrowShares \in Nat /\ c.rate * behind <= Wad
  BY DEF OnChain
<1>2. /\ Dec(c.lltv, WadDecimals) \in Decimal /\ Dec(c.lltv, WadDecimals).n = c.lltv
  BY <1>1, DecIs, DigitsAre
<1>3. CASE kind = "market"
  <2>1. PICK p \in Decimal : p = PriceRate(c.price, CollDecimals) /\ p.n >= 0
    BY <1>1, PriceRateIs, DigitsAre
  <2>2. InfoOf(c) = MarketExtraInfo(c, CollDecimals)
    BY <1>3 DEF InfoOf
  <2>3. PICK i : i = MarketExtraInfo(c, CollDecimals)
    OBVIOUS
  <2>4. /\ i.priceRate = p /\ i.lltv = Dec(c.lltv, WadDecimals)
        /\ i.rateView = c.rate /\ i.lastUpdate = c.lastUpdate
        /\ i.totalBorrowAssets = c.borrowAssets /\ i.totalBorrowShares = c.borrowShares
    BY <2>1, <2>3 DEF MarketExtraInfo
  <2> QED
    BY <1>1, <1>2, <1>3, <2>1, <2>2, <2>3, <2>4 DEF GoodInfo
<1>4. CASE kind = "smart"
  <2>1. PICK p \in Decimal : p = PriceRate(c.price, WadDecimals) /\ p.n >= 0
    BY <1>1, PriceRateIs, DigitsAre
  <2>2. InfoOf(c) = SmartMarketExtraInfo(c, c.pool)
    BY <1>4 DEF InfoOf
  <2>3. PICK i : i = SmartMarketExtraInfo(c, c.pool)
    OBVIOUS
  <2>4. /\ i.priceRate = p /\ i.lltv = Dec(c.lltv, WadDecimals)
        /\ i.rateView = c.rate /\ i.lastUpdate = c.lastUpdate
        /\ i.totalBorrowAssets = c.borrowAssets /\ i.totalBorrowShares = c.borrowShares
    BY <2>1, <2>3 DEF SmartMarketExtraInfo
  <2>5. /\ i.balances[1] = Dec(c.pool.balances[1], LoanDecimals)
        /\ i.balances[2] = Dec(c.pool.balances[2], LoanDecimals)
        /\ i.totalLp = Dec(c.pool.totalLp, WadDecimals)
    BY <2>3 DEF SmartMarketExtraInfo
  <2>6. PICK a \in Nat, b \in Nat, l \in Nat :
          /\ a = c.pool.balances[1] /\ b = c.pool.balances[2] /\ a + b > 0
          /\ l = c.pool.totalLp
    BY <1>4 DEF OnChain
  <2>7. /\ Dec(a, LoanDecimals) \in Decimal /\ Dec(a, LoanDecimals).n = a
        /\ Dec(b, LoanDecimals) \in Decimal /\ Dec(b, LoanDecimals).n = b
        /\ Dec(a, LoanDecimals).d = LoanDecimals /\ Dec(b, LoanDecimals).d = LoanDecimals
        /\ Dec(l, WadDecimals) \in Decimal /\ Dec(l, WadDecimals).n = l
    BY DecIs, DigitsAre
  <2> QED
    BY <1>1, <1>2, <1>4, <2>1, <2>2, <2>3, <2>4, <2>5, <2>6, <2>7 DEF GoodInfo
<1> QED
  BY <1>3, <1>4

(* The position's share of the totals, and its interest.                   *)
LEMMA OwesIs ==
  ASSUME NEW i, NEW k, NEW t \in Nat, NEW behind \in Nat, NEW shares \in Nat,
         GoodInfo(i, k, t, behind)
  PROVE  Owes(shares, i, t - behind) \in Decimal /\ Owes(shares, i, t - behind).n >= 0
<1>1. /\ i.rateView \in Nat /\ i.lastUpdate \in Nat /\ i.lastUpdate <= t
      /\ i.totalBorrowAssets \in Nat /\ i.totalBorrowShares \in Nat
      /\ i.rateView * behind <= Wad
  BY DEF GoodInfo
<1>2. PICK u \in Int :
        u = TaylorCompounded(i.rateView, (t - behind) - i.lastUpdate) /\ u + Wad >= 0
  <2>1. (t - behind) - i.lastUpdate \in Int /\ -behind <= (t - behind) - i.lastUpdate
    BY <1>1
  <2> QED
    BY <1>1, <2>1, TaylorBehind
<1>3. CASE i.totalBorrowShares = 0
  BY <1>3, UnitsAre DEF Owes
<1>4. CASE i.totalBorrowShares # 0
  <2>1. /\ Dec(i.totalBorrowAssets, LoanDecimals) \in Decimal
        /\ Dec(i.totalBorrowAssets, LoanDecimals).n >= 0
        /\ Dec(shares, WadDecimals) \in Decimal /\ Dec(shares, WadDecimals).n >= 0
        /\ Dec(i.totalBorrowShares, WadDecimals) \in Decimal
        /\ Dec(i.totalBorrowShares, WadDecimals).n > 0
    BY <1>1, <1>4, DecIs, DigitsAre
  <2>2. PICK x \in Decimal :
          /\ x = Times(Dec(i.totalBorrowAssets, LoanDecimals), Dec(shares, WadDecimals))
          /\ x.n >= 0
    BY <2>1, TimesIs
  <2>3. PICK base \in Decimal :
          base = Over(x, Dec(i.totalBorrowShares, WadDecimals)) /\ base.n >= 0
    BY <2>1, <2>2, OverIs
  <2>4. Owes(shares, i, t - behind) = Times(base, Plus(Dec(u, WadDecimals), One))
    BY <1>2, <1>4, <2>2, <2>3 DEF Owes
  <2> QED
    BY <1>2, <2>3, <2>4, GrownIs
<1> QED
  BY <1>3, <1>4

LEMMA DataIs ==
  ASSUME NEW c, NEW i, NEW t \in Nat, NEW behind \in Nat,
         kind \in {"market", "smart"}, OnChain(c, kind, t, behind),
         GoodInfo(i, kind, t, behind)
  PROVE  GoodData(DataOf(c, i, t - behind), kind)
<1> DEFINE position == [collateral |-> c.collateral, borrowShares |-> c.shares]
<1>1. /\ c.collateral \in Nat /\ c.shares \in Nat
      /\ position.collateral = c.collateral /\ position.borrowShares = c.shares
  BY DEF OnChain
<1>2. CASE kind = "market"
  <2>1. DataOf(c, i, t - behind) = MarketUserData(position, i, t - behind)
    BY <1>2 DEF DataOf
  <2> HIDE DEF position
  <2>2. PICK d : d = MarketUserData(position, i, t - behind)
    OBVIOUS
  <2>3. /\ d.collateral = Dec(c.collateral, CollDecimals)
        /\ d.borrowed = Owes(c.shares, i, t - behind)
    BY <1>1, <2>2 DEF MarketUserData
  <2>4. d.collateral \in Decimal /\ d.collateral.n >= 0
    BY <1>1, <2>3, DecIs, DigitsAre
  <2>5. d.borrowed \in Decimal /\ d.borrowed.n >= 0
    BY <1>1, <2>3, OwesIs
  <2> QED
    BY <1>2, <2>1, <2>2, <2>4, <2>5 DEF GoodData
<1>3. CASE kind = "smart"
  <2>1. DataOf(c, i, t - behind) = SmartMarketUserData(position, i, t - behind)
    BY <1>3 DEF DataOf
  <2> HIDE DEF position
  <2>2. PICK d : d = SmartMarketUserData(position, i, t - behind)
    OBVIOUS
  <2>3. PICK base \in Decimal :
          /\ base = IF i.totalBorrowShares = 0 THEN Zero
                    ELSE Dec((c.shares * i.totalBorrowAssets) \div i.totalBorrowShares,
                             LoanDecimals)
          /\ base.n >= 0
    <3>1. i.totalBorrowAssets \in Nat /\ i.totalBorrowShares \in Nat
      BY DEF GoodInfo
    <3>2. CASE i.totalBorrowShares = 0
      BY <3>2, UnitsAre
    <3>3. CASE i.totalBorrowShares # 0
      <4>1. PICK x \in Nat : x = c.shares * i.totalBorrowAssets
        BY <1>1, <3>1, ProductNat
      <4>2. x \div i.totalBorrowShares \in Nat
        BY <3>1, <3>3, DivIs
      <4> QED
        BY <3>3, <4>1, <4>2, DecIs, DigitsAre
    <3> QED
      BY <3>2, <3>3
  <2>4. PICK u \in Int :
          u = TaylorCompounded(i.rateView, (t - behind) - i.lastUpdate) /\ u + Wad >= 0
    <3>1. /\ i.rateView \in Nat /\ i.lastUpdate \in Nat /\ i.lastUpdate <= t
          /\ i.rateView * behind <= Wad
      BY DEF GoodInfo
    <3>2. (t - behind) - i.lastUpdate \in Int /\ -behind <= (t - behind) - i.lastUpdate
      BY <3>1
    <3> QED
      BY <3>1, <3>2, TaylorBehind
  <2>5. /\ d.collateral = Dec(c.collateral, WadDecimals)
        /\ d.borrowed = Times(base, Plus(Dec(u, WadDecimals), One))
    BY <1>1, <2>2, <2>3, <2>4 DEF SmartMarketUserData
  <2>6. d.collateral \in Decimal /\ d.collateral.n >= 0 /\ d.collateral.d = WadDecimals
    BY <1>1, <2>5, DecIs, DigitsAre
  <2>7. d.borrowed \in Decimal /\ d.borrowed.n >= 0
    BY <2>3, <2>4, <2>5, GrownIs
  <2> QED
    BY <1>3, <2>1, <2>2, <2>6, <2>7 DEF GoodData
<1> QED
  BY <1>2, <1>3

-----------------------------------------------------------------------------
(* The simulations of a Smart position.                                    *)

LEMMA SameDigits ==
  ASSUME NEW x \in Decimal, NEW y \in Decimal, x.d = y.d
  PROVE  /\ Plus(x, y).n = x.n + y.n /\ Plus(x, y).d = x.d
         /\ Minus(x, y).n = x.n - y.n /\ Minus(x, y).d = x.d
<1>1. x.n \in Int /\ y.n \in Int /\ x.d \in Nat
  BY DEF Decimal
<1>2. MoreDigits(x, y) = x.d /\ x.d - x.d = 0
  BY <1>1 DEF MoreDigits
<1>3. Scale[0] = 1
  BY ScaleIs
<1>4. Aligned(x, x.d) = x.n /\ Aligned(y, x.d) = y.n
  BY <1>1, <1>2, <1>3 DEF Aligned
<1> QED
  BY <1>2, <1>4 DEF Plus, Minus, Dec

(* The caller's quote is an amount, and adding to the pool takes no LP.    *)
LEMMA LpOutputIs ==
  ASSUME NEW i, NEW t, NEW behind, GoodInfo(i, "smart", t, behind),
         NEW amounts, amounts[1] \in Decimal, amounts[2] \in Decimal,
         NEW lp \in Decimal, lp.d = WadDecimals, NEW slippage \in Decimal
  PROVE  /\ ComputeLpOutput(amounts, lp, slippage, i) \in Decimal
         /\ ComputeLpOutput(amounts, lp, slippage, i).d = WadDecimals
         /\ lp.n >= 0 /\ amounts[1].n >= 0 /\ amounts[2].n >= 0
              => ComputeLpOutput(amounts, lp, slippage, i).n >= lp.n
<1>1. /\ i.balances[1] \in Decimal /\ i.balances[2] \in Decimal
      /\ i.balances[1].d = i.balances[2].d
      /\ i.balances[1].n + i.balances[2].n > 0
      /\ i.totalLp \in Decimal /\ i.totalLp.n >= 0
  BY DEF GoodInfo
<1>2. PICK sum \in Decimal : sum = Plus(i.balances[1], i.balances[2]) /\ sum.n > 0
  <2>1. Plus(i.balances[1], i.balances[2]) \in Decimal
    BY <1>1, PlusIs
  <2>2. Plus(i.balances[1], i.balances[2]).n = i.balances[1].n + i.balances[2].n
    BY <1>1, SameDigits
  <2> QED
    BY <1>1, <2>1, <2>2
<1>3. PICK a \in Decimal :
        /\ a = Plus(amounts[1], amounts[2])
        /\ amounts[1].n >= 0 /\ amounts[2].n >= 0 => a.n >= 0
  BY PlusIs
<1>4. PICK b \in Decimal : b = Times(a, i.totalLp) /\ (a.n >= 0 => b.n >= 0)
  BY <1>1, TimesIs
<1>5. PICK moved \in Decimal : moved = Over(b, sum) /\ (b.n >= 0 => moved.n >= 0)
  BY <1>2, OverIs
<1>6. PICK factor \in Decimal, more \in Decimal :
        factor = Plus(One, slippage) /\ more = Times(moved, factor)
  <2>1. PICK factor \in Decimal : factor = Plus(One, slippage)
    BY UnitsAre, PlusIs
  <2> QED
    BY <2>1, TimesIs
<1>7. PICK change \in Decimal :
        /\ change = IF moved.n < 0 THEN Times(moved, Plus(One, slippage)) ELSE moved
        /\ moved.n >= 0 => change = moved
  <2>1. moved.n \in Int
    BY DEF Decimal
  <2> QED
    BY <1>6, <2>1
<1>8. ComputeLpOutput(amounts, lp, slippage, i) = RoundDown(Plus(lp, change), WadDecimals)
  BY <1>2, <1>3, <1>4, <1>5, <1>7 DEF ComputeLpOutput
<1>9. /\ RoundDown(Plus(lp, change), WadDecimals) \in Decimal
      /\ RoundDown(Plus(lp, change), WadDecimals).d = WadDecimals
  BY PlusIs, RoundDownIs, DigitsAre
<1>10. ASSUME lp.n >= 0, amounts[1].n >= 0, amounts[2].n >= 0
       PROVE  RoundDown(Plus(lp, change), WadDecimals).n >= lp.n
  <2>1. change.n >= 0
    BY <1>3, <1>4, <1>5, <1>7, <1>10
  <2>2. Raw(Plus(lp, change), lp.d) >= lp.n
    BY <1>10, <2>1, CutToItsOwn
  <2> QED
    BY <2>2 DEF Raw
<1> QED
  BY <1>8, <1>9, <1>10

LEMMA PairIs ==
  ASSUME NEW pair \in Pairs
  PROVE  /\ pair[1] \in Decimal /\ pair[1].n >= 0
         /\ pair[2] \in Decimal /\ pair[2].n >= 0
         /\ Negated(pair[1]) \in Decimal /\ Negated(pair[2]) \in Decimal
<1>1. PICK a \in LpAmounts : pair = [i \in 1 .. 2 |-> Dec(a, LoanDecimals)]
  BY DEF Pairs
<1>2. a \in Nat
  BY AdviceAssumption
<1>3. Dec(a, LoanDecimals) \in Decimal /\ Dec(a, LoanDecimals).n >= 0
  BY <1>2, DecIs, DigitsAre
<1>4. pair[1] = Dec(a, LoanDecimals) /\ pair[2] = Dec(a, LoanDecimals)
  BY <1>1
<1>5. ASSUME NEW x \in Decimal PROVE Negated(x) \in Decimal
  BY DEF Negated, Decimal, Dec
<1> QED
  BY <1>3, <1>4, <1>5

(* What is left after a supply is no less than before, quoted or not.      *)
LEMMA LpSuppliedIs ==
  ASSUME GoodInfo(info, "smart", now, lag), GoodData(data, "smart"),
         NEW lp \in Nat, NEW pair \in Pairs, NEW quoted \in BOOLEAN
  PROVE  /\ LpSupplied(Dec(lp, WadDecimals), pair, quoted, data, info) \in Decimal
         /\ LpSupplied(Dec(lp, WadDecimals), pair, quoted, data, info).d = WadDecimals
         /\ LpSupplied(Dec(lp, WadDecimals), pair, quoted, data, info).n >= data.collateral.n
<1>1. PICK had \in Decimal : had = data.collateral /\ had.n >= 0 /\ had.d = WadDecimals
  BY DEF GoodData
<1>2. PICK put \in Decimal : put = Dec(lp, WadDecimals) /\ put.n = lp /\ put.d = WadDecimals
  BY DecIs, DigitsAre
<1>3. had.n \in Int /\ had.n >= had.n
  BY DEF Decimal
<1>4. CASE lp > 0
  <2>1. Plus(had, put) \in Decimal
    BY PlusIs
  <2>2. Plus(had, put).d = WadDecimals /\ Plus(had, put).n = had.n + put.n
    BY <1>1, <1>2, SameDigits
  <2>3. LpSupplied(put, pair, quoted, data, info) = Plus(had, put)
    BY <1>1, <1>2, <1>4 DEF LpSupplied
  <2> QED
    BY <1>1, <1>2, <1>3, <1>4, <2>1, <2>2, <2>3
<1>5. CASE ~(lp > 0) /\ quoted
  <2>1. /\ pair[1] \in Decimal /\ pair[1].n >= 0
        /\ pair[2] \in Decimal /\ pair[2].n >= 0 /\ Zero \in Decimal
    BY PairIs, UnitsAre
  <2>2. /\ ComputeLpOutput(pair, had, Zero, info) \in Decimal
        /\ ComputeLpOutput(pair, had, Zero, info).d = WadDecimals
        /\ ComputeLpOutput(pair, had, Zero, info).n >= had.n
    BY <1>1, <2>1, LpOutputIs
  <2>3. LpSupplied(put, pair, quoted, data, info) = ComputeLpOutput(pair, had, Zero, info)
    BY <1>1, <1>2, <1>5 DEF LpSupplied
  <2> QED
    BY <1>1, <1>2, <2>2, <2>3
<1>6. CASE ~(lp > 0) /\ ~quoted
  <2>1. LpSupplied(put, pair, quoted, data, info) = had
    BY <1>1, <1>2, <1>6 DEF LpSupplied
  <2> QED
    BY <1>1, <1>2, <1>3, <2>1
<1> QED
  BY <1>4, <1>5, <1>6

(* A Smart borrow puts LP in, or none, and shows no ratio below zero.      *)
LEMMA SmartBorrowIs ==
  ASSUME GoodInfo(info, "smart", now, lag), GoodData(data, "smart"),
         NEW lp \in LpAmounts, NEW pair \in Pairs, NEW borrow \in Amounts,
         NEW quoted \in BOOLEAN
  PROVE  /\ Raw(Minus(LpSupplied(Dec(lp, WadDecimals), pair, TRUE, data, info),
                      data.collateral), WadDecimals) \in Nat
         /\ SimulateSmartMarketBorrow(Dec(lp, WadDecimals), pair, Dec(borrow, LoanDecimals),
              quoted, data, info).LTV.n >= 0
<1>1. lp \in Nat /\ borrow \in Nat
  BY AdviceAssumption
<1>2. /\ data.collateral \in Decimal /\ data.collateral.n >= 0
      /\ data.collateral.d = WadDecimals
      /\ data.borrowed \in Decimal /\ data.borrowed.n >= 0
      /\ info.priceRate \in Decimal
  BY DEF GoodInfo, GoodData
<1>3. PICK out \in Decimal :
        /\ out = LpSupplied(Dec(lp, WadDecimals), pair, TRUE, data, info)
        /\ out.d = WadDecimals /\ out.n >= data.collateral.n
  BY <1>1, LpSuppliedIs
<1>4. PICK kept \in Decimal :
        /\ kept = LpSupplied(Dec(lp, WadDecimals), pair, quoted, data, info)
        /\ kept.n >= data.collateral.n
  BY <1>1, LpSuppliedIs
<1>5. PICK owed \in Decimal : owed = Plus(data.borrowed, Dec(borrow, LoanDecimals)) /\ owed.n >= 0
  <2>1. Dec(borrow, LoanDecimals) \in Decimal /\ Dec(borrow, LoanDecimals).n >= 0
    BY <1>1, DecIs, DigitsAre
  <2> QED
    BY <1>2, <2>1, PlusIs
<1>6. SimulateSmartMarketBorrow(Dec(lp, WadDecimals), pair, Dec(borrow, LoanDecimals),
        quoted, data, info).LTV = ComputeSmartLTV(owed, kept, info.priceRate)
  BY <1>4, <1>5 DEF SimulateSmartMarketBorrow
<1>7. ComputeSmartLTV(owed, kept, info.priceRate).n >= 0
  BY <1>2, <1>5, LTVIs
<1>8. PICK put \in Decimal : put = Minus(out, data.collateral) /\ put.n >= 0
  <2>1. Minus(out, data.collateral).n = out.n - data.collateral.n
    BY <1>2, <1>3, SameDigits
  <2>2. out.n \in Int /\ data.collateral.n \in Int
    BY <1>2, <1>3 DEF Decimal
  <2>3. PICK put \in Decimal : put = Minus(out, data.collateral)
    BY <1>2, <1>3, MinusIs
  <2>4. PICK a \in Int, b \in Int : a = out.n /\ b = data.collateral.n
    BY <2>2
  <2>5. a >= b
    BY <1>3, <2>4
  <2>6. put.n = a - b
    BY <2>1, <2>3, <2>4, Zenon
  <2> QED
    BY <2>3, <2>5, <2>6
<1>9. Raw(put, WadDecimals) \in Nat
  BY <1>8, RoundDownIs, DigitsAre
<1>10. Raw(Minus(LpSupplied(Dec(lp, WadDecimals), pair, TRUE, data, info), data.collateral),
           WadDecimals) = Raw(put, WadDecimals)
  BY <1>3, <1>8, Zenon
<1> QED
  BY <1>6, <1>7, <1>9, <1>10, Zenon

(* What he is advised to take out is an amount.                            *)
LEMMA SmartAdviceIs ==
  ASSUME GoodInfo(info, "smart", now, lag), GoodData(data, "smart"), NEW repay \in Decimal,
         NEW slippage
  PROVE  Raw(ComputeSmartWithdrawable(data.collateral, data.borrowed, repay, info, slippage,
               TRUE)[3], WadDecimals) \in Int
<1>1. /\ data.collateral \in Decimal /\ data.borrowed \in Decimal
      /\ info.priceRate \in Decimal /\ info.priceRate.n >= 0
      /\ info.lltv \in Decimal /\ info.lltv.n > 0
      /\ Threshold \in Decimal /\ Threshold.n > 0
  BY PositionAssumption DEF GoodInfo, GoodData
<1> DEFINE w == ComputeSmartWithdrawable(data.collateral, data.borrowed, repay, info, slippage, TRUE)
<1>2. CASE info.priceRate.n = 0 \/ info.totalLp.n = 0
  <2>1. w[3] = Zero
    BY <1>2 DEF ComputeSmartWithdrawable
  <2> QED
    BY <2>1, UnitsAre, RoundDownIs, DigitsAre
<1>3. CASE ~(info.priceRate.n = 0 \/ info.totalLp.n = 0)
  <2>1. info.priceRate.n > 0
    BY <1>1, <1>3 DEF Decimal
  <2>2. PICK x \in Decimal : x = Minus(data.borrowed, repay)
    BY <1>1, MinusIs
  <2>3. PICK y \in Decimal : y = Over(x, info.priceRate)
    BY <1>1, <2>1, OverIs
  <2>4. PICK z \in Decimal : z = Over(y, info.lltv)
    BY <1>1, OverIs
  <2>5. PICK u \in Decimal : u = Over(z, Threshold)
    BY <1>1, OverIs
  <2>6. PICK v \in Decimal : v = Minus(data.collateral, u)
    BY <1>1, MinusIs
  <2>7. w[3] = RoundDown(v, WadDecimals)
    BY <1>3, <2>2, <2>3, <2>4, <2>5, <2>6 DEF ComputeSmartWithdrawable
  <2> QED
    BY <2>7, RoundDownIs, DigitsAre
<1> QED
  BY <1>2, <1>3

(* A Smart exit shows no ratio below zero, whatever is repaid.             *)
LEMMA SmartRepayIs ==
  ASSUME GoodInfo(info, "smart", now, lag), GoodData(data, "smart"),
         NEW owed \in Int, NEW lp \in Int, NEW pair \in Pairs, NEW slippage,
         NEW all, NEW whole, NEW swapType, NEW quoted
  PROVE  SimulateSmartMarketRepay(swapType, Dec(owed, LoanDecimals), Dec(lp, WadDecimals),
           pair, slippage, all, whole, quoted, data, info).LTV.n >= 0
<1>1. /\ data.collateral \in Decimal /\ data.collateral.d = WadDecimals
      /\ data.borrowed \in Decimal /\ info.priceRate \in Decimal
  BY DEF GoodInfo, GoodData
<1>2. Dec(owed, LoanDecimals) \in Decimal /\ Dec(lp, WadDecimals) \in Decimal
  BY DecIs, DigitsAre
<1> DEFINE negated == [i \in 1 .. 2 |-> Negated(pair[i])]
<1>3. ComputeLpOutput(negated, data.collateral, Zero, info) \in Decimal
  <2>1. negated[1] \in Decimal /\ negated[2] \in Decimal
    BY PairIs
  <2> HIDE DEF negated
  <2> QED
    BY <1>1, <2>1, UnitsAre, LpOutputIs
<1>4. PICK out \in Decimal :
        out = LpLeft(swapType, Dec(lp, WadDecimals), pair, whole, Zero, quoted, data, info)
  <2>1. Minus(data.collateral, Dec(lp, WadDecimals)) \in Decimal
    BY <1>1, <1>2, MinusIs
  <2> HIDE DEF negated
  <2>2. LpLeft(swapType, Dec(lp, WadDecimals), pair, whole, Zero, quoted, data, info)
          \in {Minus(data.collateral, Dec(lp, WadDecimals)), Zero,
               ComputeLpOutput(negated, data.collateral, Zero, info), data.collateral}
    BY DEF LpLeft, negated
  <2> QED
    BY <1>1, <1>3, <2>1, <2>2, UnitsAre
<1>5. PICK left \in Decimal : left = Minus(data.borrowed, Dec(owed, LoanDecimals))
  BY <1>1, <1>2, MinusIs
<1>6. PICK ratio \in Decimal : ratio = ComputeSmartLTV(left, out, info.priceRate)
  BY <1>1, LTVIs
<1>7. SimulateSmartMarketRepay(swapType, Dec(owed, LoanDecimals), Dec(lp, WadDecimals),
        pair, slippage, all, whole, quoted, data, info).LTV = ShownLTV(ratio)
  BY <1>4, <1>5, <1>6 DEF SimulateSmartMarketRepay
<1>8. ShownLTV(ratio).n >= 0
  <2>1. ratio.n \in Int
    BY DEF Decimal
  <2> QED
    BY <2>1, UnitsAre DEF ShownLTV
<1> QED
  BY <1>7, <1>8

-----------------------------------------------------------------------------
(* Moolah's accounting.                                                    *)

(* Interest and operations change five fields of a market's record.        *)
LEMMA Altered ==
  ASSUME NEW c, NEW e, NEW k, NEW t, NEW u \in Nat, NEW behind, OnChain(c, k, t, behind),
         DOMAIN e = DOMAIN c,
         \A x \in DOMAIN c \ {"borrowAssets", "borrowShares", "collateral", "shares",
                              "lastUpdate"} : e[x] = c[x],
         e.borrowAssets \in Nat, e.borrowShares \in Nat, e.collateral \in Nat,
         e.shares \in Nat, e.shares <= e.borrowShares,
         e.lastUpdate \in Nat, e.lastUpdate <= u
  PROVE  OnChain(e, k, u, behind)
<1>1. e.price = c.price /\ e.lltv = c.lltv /\ e.rate = c.rate
  BY DEF OnChain
<1>2. k = "smart" => "pool" \in DOMAIN e /\ e.pool = c.pool
  BY DEF OnChain
<1> QED
  BY <1>1, <1>2 DEF OnChain

LEMMA CeilingIs ==
  ASSUME NEW n \in Nat, NEW d \in Nat \ {0}
  PROVE  CeilingOf(n, d) \in Nat
<1>1. n + d - 1 \in Nat
  OBVIOUS
<1> QED
  BY <1>1, DivIs DEF CeilingOf

LEMMA DebtIs ==
  ASSUME NEW c, NEW k, NEW t, NEW behind, OnChain(c, k, t, behind)
  PROVE  Debt(c) \in Nat
<1>1. c.shares \in Nat /\ c.borrowAssets + 1 \in Nat /\ c.borrowShares + 1 \in Nat \ {0}
  BY DEF OnChain
<1>2. c.shares * (c.borrowAssets + 1) \in Nat
  BY <1>1, ProductNat
<1> QED
  BY <1>1, <1>2, CeilingIs DEF Debt

(* Booking the interest changes the assets and the time alone.             *)
LEMMA BookedIs ==
  ASSUME NEW c, NEW k, NEW behind, now \in Nat, OnChain(c, k, now, behind)
  PROVE  /\ OnChain(Accrued(c), k, now, behind)
         /\ DOMAIN Accrued(c) = DOMAIN c
         /\ \A x \in DOMAIN c \ {"borrowAssets", "lastUpdate"} : Accrued(c)[x] = c[x]
         /\ Accrued(c).lastUpdate = now
<1>1. /\ c.rate \in Nat /\ c.lastUpdate \in Nat /\ c.lastUpdate <= now
      /\ c.borrowAssets \in Nat /\ c.borrowShares \in Nat /\ c.collateral \in Nat
      /\ c.shares \in Nat /\ c.shares <= c.borrowShares
      /\ {"lastUpdate", "borrowAssets", "borrowShares", "collateral", "shares"}
           \subseteq DOMAIN c
  BY DEF OnChain
<1>2. PICK u \in Nat : u = TaylorCompounded(c.rate, now - c.lastUpdate)
  <2>1. now - c.lastUpdate \in Nat
    BY <1>1
  <2> QED
    BY <1>1, <2>1, TaylorNat
<1>3. PICK g \in Nat : g = (c.borrowAssets * u) \div Wad
  <2>1. c.borrowAssets * u \in Nat
    BY <1>1, <1>2, ProductNat
  <2> QED
    BY <2>1, DivIs, DigitsAre
<1>4. Accrued(c) = [c EXCEPT !.borrowAssets = @ + g, !.lastUpdate = now]
  BY <1>2, <1>3 DEF Accrued
<1>5. PICK e : e = [c EXCEPT !.borrowAssets = @ + g, !.lastUpdate = now]
  OBVIOUS
<1>6. /\ DOMAIN e = DOMAIN c
      /\ \A x \in DOMAIN c \ {"borrowAssets", "lastUpdate"} : e[x] = c[x]
      /\ e.borrowAssets = c.borrowAssets + g /\ e.lastUpdate = now
  BY <1>1, <1>5
<1>7. /\ e.borrowShares = c.borrowShares /\ e.collateral = c.collateral
      /\ e.shares = c.shares
  BY <1>1, <1>6
<1>8. e.borrowAssets \in Nat
  BY <1>1, <1>6
<1>9. OnChain(e, k, now, behind)
  BY <1>1, <1>6, <1>7, <1>8, Altered
<1> QED
  BY <1>4, <1>5, <1>6, <1>9

LEMMA BorrowedIs ==
  ASSUME NEW c, NEW k, NEW t \in Nat, NEW behind, NEW amount \in Nat,
         OnChain(c, k, t, behind)
  PROVE  OnChain(Borrowed(c, amount), k, t, behind)
<1>1. /\ c.borrowAssets \in Nat /\ c.borrowShares \in Nat /\ c.collateral \in Nat
      /\ c.shares \in Nat /\ c.shares <= c.borrowShares
      /\ c.lastUpdate \in Nat /\ c.lastUpdate <= t
      /\ {"lastUpdate", "borrowAssets", "borrowShares", "collateral", "shares"}
           \subseteq DOMAIN c
  BY DEF OnChain
<1>2. PICK n \in Nat : n = CeilingOf(amount * (c.borrowShares + 1), c.borrowAssets + 1)
  <2>1. c.borrowShares + 1 \in Nat /\ c.borrowAssets + 1 \in Nat \ {0}
    BY <1>1
  <2> QED
    BY <2>1, ProductNat, CeilingIs
<1>3. PICK e : e = [c EXCEPT !.shares = @ + n, !.borrowShares = @ + n,
                             !.borrowAssets = @ + amount]
  OBVIOUS
<1>4. Borrowed(c, amount) = e
  BY <1>2, <1>3 DEF Borrowed
<1>5. /\ DOMAIN e = DOMAIN c
      /\ \A x \in DOMAIN c \ {"borrowAssets", "borrowShares", "shares"} : e[x] = c[x]
      /\ e.borrowAssets = c.borrowAssets + amount
      /\ e.borrowShares = c.borrowShares + n /\ e.shares = c.shares + n
      /\ e.collateral = c.collateral /\ e.lastUpdate = c.lastUpdate
  BY <1>1, <1>3
<1>6. /\ e.borrowAssets \in Nat /\ e.borrowShares \in Nat /\ e.shares \in Nat
      /\ e.shares <= e.borrowShares
  BY <1>1, <1>5
<1>7. OnChain(e, k, t, behind)
  BY <1>1, <1>5, <1>6, Altered
<1> QED
  BY <1>4, <1>7

(* Collateral put in, or taken out and not more than there is.             *)
LEMMA MovedIs ==
  ASSUME NEW c, NEW k, NEW t \in Nat, NEW behind, NEW left \in Nat,
         OnChain(c, k, t, behind)
  PROVE  OnChain([c EXCEPT !.collateral = left], k, t, behind)
<1>1. /\ c.borrowAssets \in Nat /\ c.borrowShares \in Nat /\ c.collateral \in Nat
      /\ c.shares \in Nat /\ c.shares <= c.borrowShares
      /\ c.lastUpdate \in Nat /\ c.lastUpdate <= t
      /\ {"lastUpdate", "borrowAssets", "borrowShares", "collateral", "shares"}
           \subseteq DOMAIN c
  BY DEF OnChain
<1>2. PICK e : e = [c EXCEPT !.collateral = left]
  OBVIOUS
<1>3. /\ DOMAIN e = DOMAIN c
      /\ \A x \in DOMAIN c \ {"collateral"} : e[x] = c[x]
      /\ e.borrowAssets = c.borrowAssets /\ e.borrowShares = c.borrowShares
      /\ e.shares = c.shares /\ e.collateral = left /\ e.lastUpdate = c.lastUpdate
  BY <1>1, <1>2
<1>4. OnChain(e, k, t, behind)
  BY <1>1, <1>3, Altered
<1> QED
  BY <1>2, <1>4

(* A repayment that leaves no shares below zero.                           *)
LEMMA RepaidIs ==
  ASSUME NEW c, NEW k, NEW t \in Nat, NEW behind, NEW amount, NEW all \in BOOLEAN,
         OnChain(c, k, t, behind), ~all => amount \in Nat,
         ~(Repaid(c, amount, all).shares < 0)
  PROVE  OnChain(Repaid(c, amount, all), k, t, behind)
<1>1. /\ c.borrowAssets \in Nat /\ c.borrowShares \in Nat /\ c.collateral \in Nat
      /\ c.shares \in Nat /\ c.shares <= c.borrowShares
      /\ c.lastUpdate \in Nat /\ c.lastUpdate <= t
      /\ {"lastUpdate", "borrowAssets", "borrowShares", "collateral", "shares"}
           \subseteq DOMAIN c
  BY DEF OnChain
<1>2. PICK n \in Nat :
        n = IF all THEN c.shares
            ELSE (amount * (c.borrowShares + 1)) \div (c.borrowAssets + 1)
  <2>1. CASE all
    BY <1>1, <2>1
  <2>2. CASE ~all
    <3>1. /\ amount \in Nat /\ c.borrowShares + 1 \in Nat
          /\ c.borrowAssets + 1 \in Nat \ {0}
      BY <1>1, <2>2
    <3>2. amount * (c.borrowShares + 1) \in Nat
      BY <3>1, ProductNat
    <3>3. (amount * (c.borrowShares + 1)) \div (c.borrowAssets + 1) \in Nat
      BY <3>1, <3>2, DivIs
    <3> QED
      BY <2>2, <3>3
  <2> QED
    BY <2>1, <2>2
<1>3. PICK paid \in Nat : paid = IF all THEN Debt(c) ELSE amount
  BY DebtIs
<1>4. PICK e : e = [c EXCEPT !.shares = @ - n, !.borrowShares = @ - n,
                             !.borrowAssets = IF @ > paid THEN @ - paid ELSE 0]
  OBVIOUS
<1>5. Repaid(c, amount, all) = e
  BY <1>2, <1>3, <1>4 DEF Repaid
<1>6. /\ DOMAIN e = DOMAIN c
      /\ \A x \in DOMAIN c \ {"borrowAssets", "borrowShares", "shares"} : e[x] = c[x]
      /\ e.borrowAssets = IF c.borrowAssets > paid THEN c.borrowAssets - paid ELSE 0
      /\ e.borrowShares = c.borrowShares - n /\ e.shares = c.shares - n
      /\ e.collateral = c.collateral /\ e.lastUpdate = c.lastUpdate
  BY <1>1, <1>4
<1>7. e.shares >= 0
  BY <1>1, <1>5, <1>6
<1>8. /\ e.borrowAssets \in Nat /\ e.borrowShares \in Nat /\ e.shares \in Nat
      /\ e.shares <= e.borrowShares
  BY <1>1, <1>6, <1>7
<1>9. OnChain(e, k, t, behind)
  BY <1>1, <1>6, <1>8, Altered
<1> QED
  BY <1>5, <1>9

(* A vault's shares are part of its supply.                                *)
LEMMA VaultKept ==
  ASSUME InVault(chain), chain.totalAssets \in Nat, NEW amount \in Nat
  PROVE  /\ amount <= chain.balance => InVault(Deposited(chain, amount))
         /\ Deposited(chain, amount).totalAssets \in Int
         /\ Deposited(chain, amount).shares >= 0
         /\ ~(Withdrawn(chain, amount).shares < 0) => InVault(Withdrawn(chain, amount))
         /\ Withdrawn(chain, amount).totalAssets \in Int
<1>1. /\ chain.totalSupply \in Nat /\ chain.shares \in Nat /\ chain.balance \in Nat
      /\ chain.earned \in Nat /\ chain.shares <= chain.totalSupply
      /\ {"totalAssets", "totalSupply", "shares", "balance", "earned"} \subseteq DOMAIN chain
  BY DEF InVault
<1>2. PICK x \in Nat, d \in Nat \ {0} :
        x = amount * (chain.totalSupply + 1) /\ d = chain.totalAssets + 1
  <2>1. chain.totalSupply + 1 \in Nat /\ chain.totalAssets + 1 \in Nat \ {0}
    BY <1>1
  <2> QED
    BY <2>1, ProductNat
<1>3. PICK n \in Nat : n = x \div d
  BY <1>2, DivIs
<1>4. PICK m \in Nat : m = CeilingOf(x, d)
  BY <1>2, CeilingIs
<1>5. PICK e : e = [chain EXCEPT !.shares = @ + n, !.totalSupply = @ + n,
                                 !.totalAssets = @ + amount, !.balance = @ - amount]
  OBVIOUS
<1>6. PICK f : f = [chain EXCEPT !.shares = @ - m, !.totalSupply = @ - m,
                                 !.totalAssets = @ - amount, !.balance = @ + amount]
  OBVIOUS
<1>7. Deposited(chain, amount) = e /\ Withdrawn(chain, amount) = f
  BY <1>2, <1>3, <1>4, <1>5, <1>6 DEF Deposited, Withdrawn
<1>8. /\ DOMAIN e = DOMAIN chain /\ e.shares = chain.shares + n
      /\ e.totalSupply = chain.totalSupply + n /\ e.totalAssets = chain.totalAssets + amount
      /\ e.balance = chain.balance - amount /\ e.earned = chain.earned
  BY <1>1, <1>5
<1>9. /\ DOMAIN f = DOMAIN chain /\ f.shares = chain.shares - m
      /\ f.totalSupply = chain.totalSupply - m /\ f.totalAssets = chain.totalAssets - amount
      /\ f.balance = chain.balance + amount /\ f.earned = chain.earned
  BY <1>1, <1>6
<1>10. amount <= chain.balance => InVault(e)
  BY <1>1, <1>8 DEF InVault
<1>11. ~(f.shares < 0) => InVault(f)
  BY <1>1, <1>9 DEF InVault
<1>12. e.totalAssets \in Int /\ f.totalAssets \in Int /\ e.shares >= 0
  BY <1>1, <1>8, <1>9
<1> QED
  BY <1>7, <1>10, <1>11, <1>12

-----------------------------------------------------------------------------
(* The steps.                                                              *)

LEMMA ReadInfoStep ==
  ASSUME AInv, kind # "loans", ReadInfo
  PROVE  AInv'
<1>1. /\ kind \in {"market", "smart", "vault"} /\ now \in 1 .. MaxTime /\ lag \in Nat
      /\ readAt \in 0 .. now /\ owedThen \in Nat
      /\ (kind # "vault" => Lent) /\ (kind = "vault" => Deposit) /\ RatioShown
  BY DEF AInv
<1>2. /\ phase = "start" /\ info' = InfoOf(chain) /\ phase' = "info"
      /\ kind' = kind /\ now' = now /\ lag' = lag /\ chain' = chain /\ readAt' = readAt
      /\ owedThen' = owedThen /\ sim' = sim /\ asked' = asked
  BY DEF ReadInfo
<1>3. kind # "vault" => Lent'
  <2>1. SUFFICES ASSUME kind # "vault" PROVE Lent'
    OBVIOUS
  <2>2. OnChain(chain, kind, now, lag)
    BY <1>1, <2>1 DEF Lent
  <2>3. now \in Nat /\ kind \in {"market", "smart"}
    BY <1>1, <2>1
  <2>4. GoodInfo(InfoOf(chain), kind, now, lag)
    BY <1>1, <2>2, <2>3, InfoIs
  <2> QED
    BY <1>2, <2>2, <2>4 DEF Lent
<1>4. kind = "vault" => Deposit'
  BY <1>1, <1>2 DEF Deposit, Done
<1>5. phase' \in Phases /\ RatioShown'
  BY <1>1, <1>2 DEF Phases, RatioShown
<1> QED
  BY <1>1, <1>2, <1>3, <1>4, <1>5 DEF AInv

LEMMA ReadUserStep ==
  ASSUME AInv, kind # "loans", ReadUser
  PROVE  AInv'
<1>1. /\ kind \in {"market", "smart", "vault"} /\ now \in 1 .. MaxTime /\ lag \in Nat
      /\ (kind # "vault" => Lent) /\ (kind = "vault" => Deposit) /\ RatioShown
  BY DEF AInv
<1>2. /\ phase = "info" /\ data' = DataOf(chain, info, now - lag) /\ phase' = "data"
      /\ readAt' = now /\ owedThen' = IF kind = "vault" THEN 0 ELSE Debt(Accrued(chain))
      /\ kind' = kind /\ now' = now /\ lag' = lag /\ chain' = chain /\ info' = info
      /\ sim' = sim /\ asked' = asked
  BY DEF ReadUser
<1>3. now \in Nat
  BY <1>1
<1>4. kind # "vault" => Lent' /\ owedThen' \in Nat
  <2>1. SUFFICES ASSUME kind # "vault" PROVE Lent' /\ owedThen' \in Nat
    OBVIOUS
  <2>2. OnChain(chain, kind, now, lag) /\ GoodInfo(info, kind, now, lag)
    BY <1>1, <1>2, <2>1 DEF Lent
  <2>3. kind \in {"market", "smart"}
    BY <1>1, <2>1
  <2>4. GoodData(DataOf(chain, info, now - lag), kind)
    BY <1>1, <1>3, <2>2, <2>3, DataIs
  <2>5. Debt(Accrued(chain)) \in Nat
    <3>1. OnChain(Accrued(chain), kind, now, lag)
      BY <1>3, <2>2, BookedIs
    <3> QED
      BY <3>1, DebtIs
  <2> QED
    BY <1>2, <2>1, <2>2, <2>4, <2>5 DEF Lent
<1>5. kind = "vault" => Deposit' /\ owedThen' \in Nat
  <2>1. SUFFICES ASSUME kind = "vault" PROVE Deposit' /\ owedThen' \in Nat
    OBVIOUS
  <2>2. Deposit
    BY <1>1, <2>1
  <2>3. data' = VaultUserData(chain, info)
    BY <1>2, <2>1 DEF DataOf
  <2>4. data'.balance.n = chain.balance
    BY <2>3 DEF VaultUserData, Dec
  <2> QED
    BY <1>2, <2>1, <2>2, <2>4 DEF Deposit, Done
<1>6. phase' \in Phases /\ RatioShown' /\ readAt' \in 0 .. now
  BY <1>1, <1>2 DEF Phases, RatioShown
<1> QED
  BY <1>1, <1>2, <1>4, <1>5, <1>6 DEF AInv

(* What a simulation leaves as it was.                                     *)
LEMMA AskedStep ==
  ASSUME AInv, kind \in {"market", "smart"}, phase = "data",
         NEW op, NEW first, NEW second, NEW most, NEW all, NEW detail,
         NEW blind, NEW result,
         Asks(op, first, second, most, all, detail, blind, result),
         \/ op = "borrow" /\ first \in Nat /\ second \in Nat /\ most = second
         \/ op = "repay" /\ all \in BOOLEAN /\ (~all => first \in Nat),
         kind = "smart" => result.LTV.n >= 0
  PROVE  AInv'
<1>1. /\ now \in 1 .. MaxTime /\ lag \in Nat
      /\ readAt \in 0 .. now /\ owedThen \in Nat /\ Lent
  BY DEF AInv
<1>2. /\ asked' = [op |-> op, first |-> first, second |-> second, most |-> most,
                   all |-> all, detail |-> detail, blind |-> blind]
      /\ sim' = result /\ phase' = "asked"
      /\ kind' = kind /\ now' = now /\ lag' = lag /\ chain' = chain /\ readAt' = readAt
      /\ owedThen' = owedThen
  BY DEF Asks
<1>3. /\ asked'.op = op /\ asked'.first = first /\ asked'.second = second
      /\ asked'.most = most /\ asked'.all = all
  BY <1>2
<1>4. GoodAsk(asked')
  BY <1>3 DEF GoodAsk
<1>5. Lent'
  BY <1>1, <1>2, <1>4 DEF Lent
<1>6. phase' \in Phases /\ RatioShown'
  BY <1>2 DEF Phases, RatioShown
<1> QED
  BY <1>1, <1>2, <1>5, <1>6 DEF AInv

(* The amounts he picks are his own or as advised.                         *)
LEMMA ChoiceIs ==
  ASSUME NEW own, own \subseteq Nat, NEW advised \in Int, NEW n \in Choices(own, advised)
  PROVE  n \in Nat
BY DEF Choices

LEMMA BorrowPositionStep ==
  ASSUME AInv, SimulateBorrowPosition
  PROVE  AInv'
<1>1. PICK supply \in Amounts :
        \E borrow \in Choices(Amounts, Raw(
             SimulateMarketBorrow(supply, 0, data, info).baseLoanable, LoanDecimals)) :
          Asks("borrow", supply, borrow, borrow, FALSE, "none", FALSE,
               SimulateMarketBorrow(supply, borrow, data, info))
  BY DEF SimulateBorrowPosition
<1>2. PICK advised :
        advised = Raw(SimulateMarketBorrow(supply, 0, data, info).baseLoanable, LoanDecimals)
  OBVIOUS
<1>3. PICK borrow \in Choices(Amounts, advised) :
        Asks("borrow", supply, borrow, borrow, FALSE, "none", FALSE,
             SimulateMarketBorrow(supply, borrow, data, info))
  BY <1>1, <1>2
<1>4. kind = "market" /\ phase = "data"
  BY DEF SimulateBorrowPosition
<1>5. GoodInfo(info, kind, now, lag) /\ GoodData(data, kind)
  BY <1>4 DEF AInv, Lent
<1>6. supply \in Nat /\ Amounts \subseteq Nat
  BY AdviceAssumption
<1>7. advised \in Int
  <2>1. /\ data.collateral \in Decimal /\ data.borrowed \in Decimal
        /\ info.priceRate \in Decimal /\ info.lltv \in Decimal /\ Threshold \in Decimal
    BY <1>5, PositionAssumption DEF GoodInfo, GoodData
  <2>2. PICK all \in Decimal : all = Plus(data.collateral, Dec(supply, CollDecimals))
    <3>1. Dec(supply, CollDecimals) \in Decimal
      BY <1>6, DecIs, DigitsAre
    <3> QED
      BY <2>1, <3>1, PlusIs
  <2>3. PICK margin \in Decimal : margin = Times(info.lltv, Threshold)
    BY <2>1, TimesIs
  <2>4. SimulateMarketBorrow(supply, 0, data, info).baseLoanable
          = ComputeLoanable(all, data.borrowed, margin, info.priceRate)
    BY <2>2, <2>3 DEF SimulateMarketBorrow
  <2> QED
    BY <1>2, <2>1, <2>2, <2>3, <2>4, LoanableIs
<1>8. borrow \in Nat
  BY <1>3, <1>6, <1>7, ChoiceIs
<1> QED
  BY <1>3, <1>4, <1>6, <1>8, AskedStep

LEMMA RepayPositionStep ==
  ASSUME AInv, SimulateRepayPosition
  PROVE  AInv'
<1>1. PICK repay \in Amounts, all \in BOOLEAN :
        \E withdraw \in Choices(Amounts, Raw(
             SimulateMarketRepay(repay, 0, all, data, info).withdrawable, CollDecimals)) :
          Asks("repay", repay, withdraw, withdraw, all, "none", FALSE,
               SimulateMarketRepay(repay, withdraw, all, data, info))
  BY DEF SimulateRepayPosition
<1>2. PICK withdraw :
        Asks("repay", repay, withdraw, withdraw, all, "none", FALSE,
             SimulateMarketRepay(repay, withdraw, all, data, info))
  BY <1>1
<1>3. repay \in Nat /\ kind = "market" /\ phase = "data"
  BY AdviceAssumption DEF SimulateRepayPosition
<1> QED
  BY <1>2, <1>3, AskedStep

LEMMA BorrowOnSmartStep ==
  ASSUME AInv, BorrowOnSmart
  PROVE  AInv'
<1>1. PICK lp \in LpAmounts, pair \in Pairs, borrow \in Amounts, quoted \in BOOLEAN :
        LET put == Raw(Minus(LpSupplied(Dec(lp, WadDecimals), pair, TRUE, data, info),
                             data.collateral), WadDecimals)
        IN Asks("borrow", put, borrow, borrow, FALSE, "none", ~quoted /\ pair[1].n # 0,
                SimulateSmartMarketBorrow(Dec(lp, WadDecimals), pair,
                  Dec(borrow, LoanDecimals), quoted, data, info))
  BY DEF BorrowOnSmart
<1>2. PICK result : result = SimulateSmartMarketBorrow(Dec(lp, WadDecimals), pair,
                               Dec(borrow, LoanDecimals), quoted, data, info)
  OBVIOUS
<1>3. PICK put : put = Raw(Minus(LpSupplied(Dec(lp, WadDecimals), pair, TRUE, data, info),
                                 data.collateral), WadDecimals)
  OBVIOUS
<1>4. PICK blind : blind = (~quoted /\ pair[1].n # 0)
  OBVIOUS
<1>5. Asks("borrow", put, borrow, borrow, FALSE, "none", blind, result)
  BY <1>1, <1>2, <1>3, <1>4, Zenon
<1>6. borrow \in Nat /\ kind = "smart" /\ phase = "data"
  BY AdviceAssumption DEF BorrowOnSmart
<1>7. GoodInfo(info, "smart", now, lag) /\ GoodData(data, "smart")
  BY <1>6 DEF AInv, Lent
<1>8. put \in Nat /\ result.LTV.n >= 0
  BY <1>2, <1>3, <1>7, SmartBorrowIs
<1> QED
  BY <1>5, <1>6, <1>8, AskedStep

LEMMA RepayOnSmartStep ==
  ASSUME AInv, RepayOnSmart
  PROVE  AInv'
<1>1. kind = "smart" /\ phase = "data"
  BY DEF RepayOnSmart
<1>2. GoodInfo(info, "smart", now, lag) /\ GoodData(data, "smart")
  BY <1>1 DEF AInv, Lent
<1>3. PICK repay \in Amounts, all \in BOOLEAN, whole \in BOOLEAN,
           quoted \in BOOLEAN,
           swapType \in {"lp", "fixed", "variable"}, pair \in Pairs,
           slippage \in Slippages :
        \E lp \in Choices(LpAmounts, Raw(ComputeSmartWithdrawable(data.collateral,
             data.borrowed, IF all THEN data.borrowed ELSE Dec(repay, LoanDecimals),
             info, slippage, TRUE)[3], WadDecimals)) :
          LET owed == IF all THEN Raw(data.borrowed, LoanDecimals) ELSE repay
              out(taken) == Raw(Minus(data.collateral,
                              LpLeft(swapType, Dec(lp, WadDecimals), pair, whole, taken,
                                     TRUE, data, info)), WadDecimals)
          IN /\ swapType # "lp" => lp = 0
             /\ swapType = "lp" => pair[1].n = 0 /\ quoted
             /\ Asks("repay", owed, out(Zero),
                     out(IF swapType = "variable" THEN slippage ELSE Zero),
                     all, swapType, ~quoted /\ ~whole /\ pair[1].n # 0,
                     SimulateSmartMarketRepay(swapType, Dec(owed, LoanDecimals),
                       Dec(lp, WadDecimals), pair, slippage, all, whole, quoted, data, info))
  BY Zenon DEF RepayOnSmart
<1>4. PICK lp \in Choices(LpAmounts, Raw(ComputeSmartWithdrawable(data.collateral,
             data.borrowed, IF all THEN data.borrowed ELSE Dec(repay, LoanDecimals),
             info, slippage, TRUE)[3], WadDecimals)) :
          LET owed == IF all THEN Raw(data.borrowed, LoanDecimals) ELSE repay
              out(taken) == Raw(Minus(data.collateral,
                              LpLeft(swapType, Dec(lp, WadDecimals), pair, whole, taken,
                                     TRUE, data, info)), WadDecimals)
          IN /\ swapType # "lp" => lp = 0
             /\ swapType = "lp" => pair[1].n = 0 /\ quoted
             /\ Asks("repay", owed, out(Zero),
                     out(IF swapType = "variable" THEN slippage ELSE Zero),
                     all, swapType, ~quoted /\ ~whole /\ pair[1].n # 0,
                     SimulateSmartMarketRepay(swapType, Dec(owed, LoanDecimals),
                       Dec(lp, WadDecimals), pair, slippage, all, whole, quoted, data, info))
  BY <1>3
<1>5. repay \in Nat /\ LpAmounts \subseteq Nat
  BY AdviceAssumption
<1>6. PICK paid \in Decimal : paid = IF all THEN data.borrowed ELSE Dec(repay, LoanDecimals)
  <2>1. Dec(repay, LoanDecimals) \in Decimal /\ data.borrowed \in Decimal
    BY <1>2, <1>5, DecIs, DigitsAre DEF GoodData
  <2> QED
    BY <2>1
<1>7. lp \in Int
  <2>1. PICK advised \in Int :
          advised = Raw(ComputeSmartWithdrawable(data.collateral, data.borrowed, paid,
                          info, slippage, TRUE)[3], WadDecimals)
    BY <1>2, SmartAdviceIs
  <2>2. lp \in Choices(LpAmounts, Raw(ComputeSmartWithdrawable(data.collateral,
              data.borrowed, IF all THEN data.borrowed ELSE Dec(repay, LoanDecimals),
              info, slippage, TRUE)[3], WadDecimals))
    BY <1>4
  <2>3. lp \in Choices(LpAmounts, advised)
    <3>1. (IF all THEN data.borrowed ELSE Dec(repay, LoanDecimals)) = paid
      BY <1>6
    <3> QED
      BY <2>1, <2>2, <3>1, Zenon
  <2> QED
    <3>1. lp \in Nat
      BY <1>5, <2>3, ChoiceIs
    <3> QED
      BY <3>1
<1>8. PICK sent \in Int :
        /\ sent = IF all THEN Raw(data.borrowed, LoanDecimals) ELSE repay
        /\ ~all => sent = repay
  <2>1. Raw(data.borrowed, LoanDecimals) \in Int
    BY <1>2, RoundDownIs, DigitsAre DEF GoodData
  <2> QED
    BY <1>5, <2>1
<1>9. PICK shown : shown = SimulateSmartMarketRepay(swapType, Dec(sent, LoanDecimals),
                             Dec(lp, WadDecimals), pair, slippage, all, whole, quoted,
                             data, info)
  OBVIOUS
<1>10. PICK second :
         second = Raw(Minus(data.collateral,
                        LpLeft(swapType, Dec(lp, WadDecimals), pair, whole, Zero,
                               TRUE, data, info)), WadDecimals)
  OBVIOUS
<1>11. PICK most :
         most = Raw(Minus(data.collateral,
                      LpLeft(swapType, Dec(lp, WadDecimals), pair, whole,
                             IF swapType = "variable" THEN slippage ELSE Zero,
                             TRUE, data, info)), WadDecimals)
  OBVIOUS
<1>14. PICK blind : blind = (~quoted /\ ~whole /\ pair[1].n # 0)
  OBVIOUS
<1>12. Asks("repay", sent, second, most, all, swapType, blind, shown)
  BY <1>4, <1>8, <1>9, <1>10, <1>11, <1>14, Zenon
<1>13. shown.LTV.n >= 0
  BY <1>2, <1>7, <1>9, SmartRepayIs
<1> QED
  BY <1>1, <1>5, <1>8, <1>12, <1>13, AskedStep

LEMMA MoveOnVaultStep ==
  ASSUME AInv, MoveOnVault
  PROVE  AInv'
<1>1. PICK amount \in Amounts, op \in {"deposit", "withdraw"} :
        /\ \E result : Asks(op, amount, 0, 0, FALSE, "none", FALSE, result)
        /\ op = "deposit" => amount <= data.balance.n
  <2>1. PICK amount \in Amounts :
          \/ /\ amount <= data.balance.n
             /\ Asks("deposit", amount, 0, 0, FALSE, "none", FALSE, SimulateVaultDeposit(amount, data))
          \/ /\ amount <= data.locked.n
             /\ Asks("withdraw", amount, 0, 0, FALSE, "none", FALSE, SimulateVaultWithdraw(amount, data))
    BY DEF MoveOnVault
  <2>2. CASE /\ amount <= data.balance.n
             /\ Asks("deposit", amount, 0, 0, FALSE, "none", FALSE, SimulateVaultDeposit(amount, data))
    BY <2>2
  <2>3. CASE Asks("withdraw", amount, 0, 0, FALSE, "none", FALSE, SimulateVaultWithdraw(amount, data))
    BY <2>3
  <2> QED
    BY <2>1, <2>2, <2>3
<1>2. /\ kind = "vault" /\ phase = "data" /\ Deposit /\ now \in 1 .. MaxTime /\ lag \in Nat
      /\ readAt \in 0 .. now /\ owedThen \in Nat
  BY DEF MoveOnVault, AInv
<1>3. /\ asked'.op = op /\ asked'.first = amount /\ phase' = "asked"
      /\ kind' = kind /\ now' = now /\ lag' = lag /\ chain' = chain /\ readAt' = readAt
      /\ owedThen' = owedThen
  BY <1>1 DEF Asks
<1>4. amount \in Nat
  BY AdviceAssumption
<1>5. Deposit'
  BY <1>1, <1>2, <1>3, <1>4 DEF Deposit, Done
<1>6. phase' \in Phases /\ RatioShown'
  BY <1>2, <1>3 DEF Phases, RatioShown
<1> QED
  BY <1>2, <1>3, <1>5, <1>6 DEF AInv

LEMMA FirstLegStep ==
  ASSUME AInv, kind # "loans", FirstLeg
  PROVE  AInv'
<1>1. /\ kind \in {"market", "smart", "vault"} /\ now \in 1 .. MaxTime /\ lag \in Nat
      /\ readAt \in 0 .. now /\ owedThen \in Nat
      /\ (kind # "vault" => Lent) /\ (kind = "vault" => Deposit) /\ RatioShown
  BY DEF AInv
<1>2. /\ phase = "asked"
      /\ kind' = kind /\ now' = now /\ lag' = lag /\ readAt' = readAt
      /\ owedThen' = owedThen /\ sim' = sim /\ asked' = asked
  BY DEF FirstLeg
<1>3. PICK c :
        /\ c = CASE asked.op = "borrow"   -> [chain EXCEPT !.collateral = @ + asked.first]
                 [] asked.op = "repay"    -> Repaid(Accrued(chain), asked.first, asked.all)
                 [] asked.op = "deposit"  -> Deposited(chain, asked.first)
                 [] asked.op = "withdraw" -> Withdrawn(chain, asked.first)
        /\ chain' = IF c.shares < 0 THEN chain ELSE c
        /\ phase' = IF c.shares < 0 THEN "unpaid" ELSE IF kind = "vault" THEN "landed" ELSE "half"
  BY DEF FirstLeg
<1>4. now \in Nat
  BY <1>1
<1>5. phase' \in Phases /\ RatioShown'
  BY <1>1, <1>2, <1>3 DEF Phases, RatioShown
<1>6. ASSUME kind # "vault" PROVE Lent'
  <2>1. OnChain(chain, kind, now, lag) /\ GoodAsk(asked)
    BY <1>1, <1>2, <1>6 DEF Lent
  <2>2. ASSUME ~(c.shares < 0) PROVE OnChain(c, kind, now, lag)
    <3>1. CASE asked.op = "borrow"
      <4>1. c = [chain EXCEPT !.collateral = chain.collateral + asked.first]
        <5>1. "collateral" \in DOMAIN chain
          BY <2>1 DEF OnChain
        <5> QED
          BY <1>3, <3>1, <5>1
      <4>2. chain.collateral + asked.first \in Nat
        <5>1. asked.first \in Nat /\ chain.collateral \in Nat
          BY <2>1, <3>1 DEF GoodAsk, OnChain
        <5> QED
          BY <5>1
      <4> QED
        BY <1>4, <2>1, <4>1, <4>2, MovedIs
    <3>2. CASE asked.op = "repay"
      <4>1. c = Repaid(Accrued(chain), asked.first, asked.all)
        BY <1>3, <3>2
      <4>2. asked.all \in BOOLEAN /\ (~asked.all => asked.first \in Nat)
        BY <2>1, <3>2 DEF GoodAsk
      <4>3. OnChain(Accrued(chain), kind, now, lag)
        BY <1>4, <2>1, BookedIs
      <4>4. PICK b : b = Accrued(chain)
        OBVIOUS
      <4>5. OnChain(b, kind, now, lag) /\ ~(Repaid(b, asked.first, asked.all).shares < 0)
        BY <2>2, <4>1, <4>3, <4>4
      <4>6. OnChain(Repaid(b, asked.first, asked.all), kind, now, lag)
        BY <1>4, <4>2, <4>5, RepaidIs
      <4> QED
        BY <4>1, <4>4, <4>6
    <3> QED
      BY <2>1, <3>1, <3>2 DEF GoodAsk
  <2>3. OnChain(chain', kind, now, lag)
    BY <1>3, <2>1, <2>2
  <2> QED
    BY <1>2, <1>3, <1>6, <2>1, <2>3 DEF Lent
<1>7. ASSUME kind = "vault" PROVE Deposit'
  <2>1. /\ InVault(chain) /\ chain.totalAssets \in Nat
        /\ asked.op \in {"deposit", "withdraw"} /\ asked.first \in Nat
        /\ asked.op = "deposit" => asked.first <= chain.balance
    BY <1>1, <1>2, <1>7 DEF Deposit, Done
  <2>2. ASSUME ~(c.shares < 0) PROVE InVault(c) /\ c.totalAssets \in Int
    <3>1. CASE asked.op = "deposit"
      <4>1. c = Deposited(chain, asked.first)
        BY <1>3, <3>1
      <4> QED
        BY <2>1, <3>1, <4>1, VaultKept
    <3>2. CASE asked.op = "withdraw"
      <4>1. c = Withdrawn(chain, asked.first)
        BY <1>3, <3>2
      <4> QED
        BY <2>1, <2>2, <4>1, VaultKept
    <3> QED
      BY <2>1, <3>1, <3>2
  <2>3. InVault(chain') /\ chain'.totalAssets \in Int
    BY <1>3, <2>1, <2>2
  <2>4. phase' \in {"unpaid", "landed"}
    BY <1>3, <1>7
  <2> QED
    BY <2>3, <2>4 DEF Deposit, Done
<1> QED
  BY <1>1, <1>2, <1>5, <1>6, <1>7 DEF AInv

LEMMA SecondLegStep ==
  ASSUME AInv, kind # "loans", SecondLeg
  PROVE  AInv'
<1>1. /\ kind \in {"market", "smart", "vault"} /\ now \in 1 .. MaxTime /\ lag \in Nat
      /\ readAt \in 0 .. now /\ owedThen \in Nat
      /\ (kind # "vault" => Lent) /\ (kind = "vault" => Deposit) /\ RatioShown
  BY DEF AInv
<1>2. /\ phase = "half"
      /\ kind' = kind /\ now' = now /\ lag' = lag /\ readAt' = readAt
      /\ owedThen' = owedThen /\ sim' = sim /\ asked' = asked
  BY DEF SecondLeg
<1>3. kind # "vault"
  BY <1>1, <1>2 DEF Deposit, Done
<1>4. OnChain(chain, kind, now, lag) /\ GoodAsk(asked)
  BY <1>1, <1>2, <1>3 DEF Lent
<1>5. PICK amount \in asked.second .. asked.most :
        LET c == IF asked.op = "borrow" THEN Borrowed(Accrued(chain), amount)
                 ELSE [Accrued(chain) EXCEPT !.collateral = @ - amount]
            fails == amount # 0 /\ (c.collateral < 0 \/ ~Healthy(c))
        IN /\ chain' = IF fails THEN chain ELSE IF amount = 0 THEN chain ELSE c
           /\ phase' = IF fails THEN "refused" ELSE "landed"
  BY DEF SecondLeg
<1>6. amount \in Int /\ asked.second <= amount /\ amount <= asked.most
  OBVIOUS
<1>7. now \in Nat
  BY <1>1
<1>8. PICK b : b = Accrued(chain)
  OBVIOUS
<1>9. OnChain(b, kind, now, lag)
  BY <1>4, <1>7, <1>8, BookedIs
<1>10. PICK c : c = IF asked.op = "borrow" THEN Borrowed(b, amount)
                    ELSE [b EXCEPT !.collateral = @ - amount]
  OBVIOUS
<1>11. /\ chain' = chain \/ (chain' = c /\ ~(c.collateral < 0))
       /\ phase' \in {"refused", "landed"}
  <2>1. /\ chain' = IF amount # 0 /\ (c.collateral < 0 \/ ~Healthy(c)) THEN chain
                    ELSE IF amount = 0 THEN chain ELSE c
        /\ phase' = IF amount # 0 /\ (c.collateral < 0 \/ ~Healthy(c)) THEN "refused"
                    ELSE "landed"
    BY <1>5, <1>8, <1>10
  <2> QED
    BY <2>1
<1>12. ASSUME ~(c.collateral < 0) PROVE OnChain(c, kind, now, lag)
  <2>1. CASE asked.op = "borrow"
    <3>1. amount \in Nat
      BY <1>4, <1>6, <2>1 DEF GoodAsk
    <3> QED
      BY <1>7, <1>9, <1>10, <2>1, <3>1, BorrowedIs
  <2>2. CASE asked.op # "borrow"
    <3>1. "collateral" \in DOMAIN b /\ b.collateral \in Nat
      BY <1>9 DEF OnChain
    <3>2. PICK left \in Int : left = b.collateral - amount
      BY <1>6, <3>1
    <3>3. c = [b EXCEPT !.collateral = left]
      BY <1>10, <2>2, <3>1, <3>2
    <3>4. left >= 0
      BY <1>12, <3>1, <3>3
    <3> QED
      BY <1>7, <1>9, <3>3, <3>4, MovedIs
  <2> QED
    BY <2>1, <2>2
<1>13. Lent'
  <2>1. OnChain(chain', kind, now, lag)
    BY <1>4, <1>11, <1>12
  <2> QED
    BY <1>2, <1>11, <2>1 DEF Lent
<1>14. phase' \in Phases /\ RatioShown'
  BY <1>1, <1>2, <1>11 DEF Phases, RatioShown
<1> QED
  BY <1>1, <1>2, <1>3, <1>13, <1>14 DEF AInv

LEMMA ElapseStep ==
  ASSUME AInv, kind # "loans", Elapse
  PROVE  AInv'
<1>1. /\ kind \in {"market", "smart", "vault"} /\ phase \in Phases /\ now \in 1 .. MaxTime
      /\ lag \in Nat /\ readAt \in 0 .. now /\ owedThen \in Nat
      /\ (kind # "vault" => Lent) /\ RatioShown
  BY DEF AInv
<1>2. /\ kind # "vault" /\ now < MaxTime /\ now' = now + 1
      /\ kind' = kind /\ lag' = lag /\ readAt' = readAt /\ chain' = chain /\ info' = info
      /\ data' = data /\ phase' = phase
      /\ owedThen' = owedThen /\ sim' = sim /\ asked' = asked
  BY DEF Elapse
<1>3. now \in Nat /\ MaxTime \in Nat
  BY <1>1, AdviceAssumption
<1>4. ASSUME NEW c, OnChain(c, kind, now, lag) PROVE OnChain(c, kind, now + 1, lag)
  BY <1>3, <1>4 DEF OnChain
<1>5. ASSUME NEW i, GoodInfo(i, kind, now, lag) PROVE GoodInfo(i, kind, now + 1, lag)
  BY <1>3, <1>5 DEF GoodInfo
<1>6. Lent'
  BY <1>1, <1>2, <1>4, <1>5 DEF Lent
<1>7. now' \in 1 .. MaxTime /\ readAt' \in 0 .. now' /\ RatioShown'
  BY <1>1, <1>2, <1>3 DEF RatioShown
<1> QED
  BY <1>1, <1>2, <1>6, <1>7 DEF AInv

LEMMA OthersAccrueStep ==
  ASSUME AInv, kind # "loans", OthersAccrue
  PROVE  AInv'
<1>1. /\ kind \in {"market", "smart", "vault"} /\ phase \in Phases /\ now \in 1 .. MaxTime
      /\ lag \in Nat /\ readAt \in 0 .. now /\ owedThen \in Nat
      /\ (kind # "vault" => Lent) /\ RatioShown
  BY DEF AInv
<1>2. /\ kind # "vault" /\ chain' = Accrued(chain)
      /\ kind' = kind /\ lag' = lag /\ readAt' = readAt /\ now' = now /\ info' = info
      /\ data' = data /\ phase' = phase
      /\ owedThen' = owedThen /\ sim' = sim /\ asked' = asked
  BY DEF OthersAccrue
<1>3. OnChain(Accrued(chain), kind, now, lag)
  <2>1. OnChain(chain, kind, now, lag) /\ now \in Nat
    BY <1>1, <1>2 DEF Lent
  <2> QED
    BY <2>1, BookedIs
<1>4. Lent' /\ RatioShown'
  BY <1>1, <1>2, <1>3 DEF Lent, RatioShown
<1> QED
  BY <1>1, <1>2, <1>4 DEF AInv

LEMMA VaultEarnsStep ==
  ASSUME AInv, kind # "loans", VaultEarns
  PROVE  AInv'
<1>1. /\ phase \in Phases /\ now \in 1 .. MaxTime
      /\ lag \in Nat /\ readAt \in 0 .. now /\ owedThen \in Nat
      /\ (kind = "vault" => Deposit) /\ RatioShown
  BY DEF AInv
<1>2. /\ kind = "vault" /\ phase \notin Done
      /\ chain' = [chain EXCEPT !.totalAssets = @ + 1, !.earned = @ + 1]
      /\ kind' = kind /\ lag' = lag /\ readAt' = readAt /\ now' = now /\ info' = info
      /\ data' = data /\ phase' = phase
      /\ owedThen' = owedThen /\ sim' = sim /\ asked' = asked
  BY DEF VaultEarns
<1>3. InVault(chain) /\ chain.totalAssets \in Nat
  BY <1>1, <1>2 DEF Deposit
<1>4. PICK e : e = [chain EXCEPT !.totalAssets = @ + 1, !.earned = @ + 1]
  OBVIOUS
<1>5. /\ DOMAIN e = DOMAIN chain /\ e.totalAssets = chain.totalAssets + 1
      /\ e.earned = chain.earned + 1 /\ e.shares = chain.shares
      /\ e.totalSupply = chain.totalSupply /\ e.balance = chain.balance
  BY <1>3, <1>4 DEF InVault
<1>6. InVault(e) /\ e.totalAssets \in Nat
  BY <1>3, <1>5 DEF InVault
<1>7. Deposit'
  <2>1. chain' = e
    BY <1>2, <1>4
  <2> QED
    BY <1>1, <1>2, <1>5, <1>6, <2>1 DEF Deposit
<1>8. RatioShown'
  BY <1>1, <1>2 DEF RatioShown
<1> QED
  BY <1>1, <1>2, <1>7, <1>8 DEF AInv

(* Nothing of a position's moves while only loans are watched.             *)
LEMMA AStep ==
  ASSUME AInv, [FiguresNext]_<<vars, loanVars>>
  PROVE  AInv'
<1>1. CASE kind # "loans" /\ Next
  <2>1. kind # "loans"
    BY <1>1
  <2>2. CASE ReadInfo
    BY <2>1, <2>2, ReadInfoStep
  <2>3. CASE ReadUser
    BY <2>1, <2>3, ReadUserStep
  <2>4. CASE SimulateBorrowPosition
    BY <2>4, BorrowPositionStep
  <2>5. CASE SimulateRepayPosition
    BY <2>5, RepayPositionStep
  <2>6. CASE BorrowOnSmart
    BY <2>6, BorrowOnSmartStep
  <2>7. CASE RepayOnSmart
    BY <2>7, RepayOnSmartStep
  <2>8. CASE MoveOnVault
    BY <2>8, MoveOnVaultStep
  <2>9. CASE FirstLeg
    BY <2>1, <2>9, FirstLegStep
  <2>10. CASE SecondLeg
    BY <2>1, <2>10, SecondLegStep
  <2>11. CASE Elapse
    BY <2>1, <2>11, ElapseStep
  <2>12. CASE OthersAccrue
    BY <2>1, <2>12, OthersAccrueStep
  <2>13. CASE VaultEarns
    BY <2>1, <2>13, VaultEarnsStep
  <2> QED
    BY <1>1, <2>2, <2>3, <2>4, <2>5, <2>6, <2>7, <2>8, <2>9, <2>10, <2>11, <2>12, <2>13
       DEF Next
<1>2. CASE UNCHANGED vars
  BY <1>2 DEF vars, AInv, Lent, Deposit, RatioShown
<1> QED
  BY <1>1, <1>2 DEF FiguresNext

(* What is read, simulated, quoted and on the chain is of its type.        *)
THEOREM TypesHold ==
  FiguresSpec => []TypeOK
<1>1. FiguresSpec => []AInv
  <2>1. AInv /\ [FiguresNext]_<<vars, loanVars>> => AInv'
    BY AStep
  <2> QED
    BY <2>1, AInit, PTL DEF FiguresSpec
<1>2. AInv /\ kind # "loans" => AdviceTypeOK
  <2>1. SUFFICES ASSUME AInv, kind # "loans" PROVE AdviceTypeOK
    OBVIOUS
  <2>2. kind # "vault" => Lent
    BY <2>1 DEF AInv
  <2>3. kind # "vault" => /\ chain.collateral \in Nat /\ chain.borrowAssets \in Nat
                          /\ chain.shares \in Nat /\ chain.borrowShares >= chain.shares
                          /\ chain.lastUpdate \in 0 .. now
    BY <2>1, <2>2 DEF Lent, OnChain, AInv
  <2>4. kind = "vault" => /\ chain.balance \in Nat /\ chain.shares \in Nat
                          /\ chain.totalSupply >= chain.shares
    BY <2>1 DEF AInv, Deposit, InVault
  <2> QED
    BY <2>1, <2>3, <2>4 DEF AInv, AdviceTypeOK, RatioShown
<1>3. AInv /\ LoanTypeOK => TypeOK
  BY <1>2 DEF TypeOK
<1> QED
  BY <1>1, <1>3, LoanTypeCorrect, PTL

-----------------------------------------------------------------------------
(* The two copies of a position's arithmetic, in numbers.  A debt of b     *)
(* parts in h is, in wads, no less than w and no more than m; a collateral *)
(* has c units of g wads.                                                  *)

(* The ratio, on decimals and on bigints: a debt of b parts in h of a      *)
(* wad's digits, a collateral of c units of g wads.                        *)
LEMMA RatioCore ==
  ASSUME NEW b \in Nat, NEW h \in Nat \ {0}, NEW u \in Nat \ {0}, NEW g \in Nat \ {0},
         NEW S \in Nat \ {0}, S = u * g,
         NEW c \in Nat \ {0}, NEW p \in Nat \ {0},
         NEW w \in Nat, NEW m \in Nat, h * w <= b * S, b * S <= h * m,
         NEW q \in Nat, NEW L \in Nat, NEW t \in Nat \ {0},
         (c * p) * q <= b * (u * S) * (u * S), b * (u * S) * (u * S) < (c * p) * q + c * p,
         (h * u) * L <= q, q < (h * u) * L + h * u,
         S * t <= (c * g) * p, (c * g) * p < S * t + S
  PROVE  /\ L * t <= m * S
         /\ w * S < (L + 1) * (t + 1)
<1>1. PICK P \in Nat \ {0} : P = c * p
  OBVIOUS
<1>2. PICK k \in Nat \ {0} : k = h * u
  OBVIOUS
<1>3. P * g = (c * g) * p
  BY <1>1
<1>4. b * (u * S) * (u * S) = (b * S) * (u * u * S)
  OBVIOUS
<1>5. PICK e \in Nat \ {0} : e = u * u * S
  OBVIOUS
<1>6. PICK B \in Nat : B = b * S
  OBVIOUS
<1>7. P * q <= B * e /\ B * e < P * q + P
  BY <1>1, <1>4, <1>5, <1>6
<1>8. L * t <= m * S
  <2>1. P * (k * L) <= P * q
    BY <1>1, <1>2, Times2
  <2>2. B * e <= (h * m) * e
    <3>1. e * B <= e * (h * m)
      BY <1>5, <1>6, Times2
    <3> QED
      BY <1>5, <1>6, <3>1
  <2>3. P * (k * L) <= (h * m) * e
    BY <1>7, <2>1, <2>2
  <2>4. /\ P * (k * L) = k * (P * L)
        /\ (h * m) * e = k * (m * (u * S))
    BY <1>1, <1>2, <1>5
  <2>5. P * L <= m * (u * S)
    <3>1. P * L \in Int /\ m * (u * S) \in Int
      BY <1>1
    <3> QED
      BY <1>2, <2>3, <2>4, <3>1, CancelLe
  <2>6. g * (P * L) <= g * (m * (u * S))
    BY <1>1, <2>5, Times2
  <2>7. g * (m * (u * S)) = S * (m * S)
    OBVIOUS
  <2>8. g * (P * L) = L * (P * g)
    BY <1>1
  <2>9. L * (S * t) <= L * (P * g)
    BY <1>1, <1>3, Times2
  <2>10. L * (S * t) = S * (L * t)
    OBVIOUS
  <2>11. S * (L * t) <= S * (m * S)
    BY <1>1, <2>6, <2>7, <2>8, <2>9, <2>10
  <2> QED
    BY <2>11, CancelLe
<1>9. w * S < (L + 1) * (t + 1)
  <2>1. q + 1 <= k * (L + 1)
    BY <1>2
  <2>2. P * (q + 1) <= P * (k * (L + 1))
    BY <1>1, <1>2, <2>1, Times2
  <2>3. (h * w) * e <= B * e
    <3>1. e * (h * w) <= e * B
      BY <1>5, <1>6, Times2
    <3> QED
      BY <1>5, <1>6, <3>1
  <2>4. (h * w) * e < P * (k * (L + 1))
    <3>1. P * (q + 1) = P * q + P
      BY <1>1
    <3> QED
      BY <1>1, <1>2, <1>5, <1>6, <1>7, <2>2, <2>3, <3>1
  <2>5. /\ P * (k * (L + 1)) = k * (P * (L + 1))
        /\ (h * w) * e = k * (w * (u * S))
    BY <1>1, <1>2, <1>5
  <2>6. w * (u * S) < P * (L + 1)
    <3>1. P * (L + 1) \in Int /\ w * (u * S) \in Int
      BY <1>1
    <3> QED
      BY <1>2, <2>4, <2>5, <3>1, CancelLt
  <2>7. w * (u * S) + 1 <= P * (L + 1)
    BY <1>1, <2>6
  <2>8. g * (w * (u * S) + 1) <= g * (P * (L + 1))
    BY <1>1, <2>7, Times2
  <2>9. g * (w * (u * S) + 1) = S * (w * S) + g
    OBVIOUS
  <2>10. g * (P * (L + 1)) = (L + 1) * (P * g)
    BY <1>1
  <2>11. (L + 1) * (P * g) <= (L + 1) * (S * (t + 1))
    <3>1. P * g <= S * (t + 1)
      BY <1>1, <1>3
    <3> QED
      BY <1>1, <3>1, Times2
  <2>12. (L + 1) * (S * (t + 1)) = S * ((L + 1) * (t + 1))
    OBVIOUS
  <2>13. S * (w * S) < S * ((L + 1) * (t + 1))
    BY <1>1, <2>8, <2>9, <2>10, <2>11, <2>12
  <2> QED
    BY <2>13, CancelLt
<1> QED
  BY <1>8, <1>9

(* The liquidation price.                                                  *)
LEMMA LiqCore ==
  ASSUME NEW b \in Nat, NEW h \in Nat \ {0}, NEW u \in Nat \ {0}, NEW g \in Nat \ {0},
         NEW S \in Nat \ {0}, S = u * g,
         NEW c \in Nat \ {0}, NEW l \in Nat \ {0},
         NEW w \in Nat, NEW m \in Nat, h * w <= b * S, b * S <= h * m,
         NEW q \in Nat, NEW r \in Nat, NEW L \in Nat, NEW E \in Nat,
         c * q <= b * u * u, b * u * u < c * q + c,
         l * r <= q * S * S, q * S * S < l * r + l,
         (h * u) * L <= r, r < (h * u) * L + h * u,
         S * S < (l * (h * u)) * E + l * (h * u)
  PROVE  /\ (c * g) * (l * L) <= m * S * S
         /\ \A R \in Nat : (c * g) * (l * R) <= w * S * S => R <= L + E + 1
<1>1. PICK k \in Nat \ {0} : k = h * u
  OBVIOUS
<1>2. PICK Q \in Nat \ {0} : Q = S * S
  OBVIOUS
<1>3. q * S * S = Q * q /\ m * S * S = m * Q /\ w * S * S = w * Q
  BY <1>2
<1>4. (c * g) * (l * L) <= m * S * S
  <2>1. l * (k * L) <= Q * q
    <3>1. l * (k * L) <= l * r
      BY <1>1, Times2
    <3> QED
      BY <1>1, <1>2, <1>3, <3>1
  <2>2. c * (l * (k * L)) <= c * (Q * q)
    BY <1>1, <1>2, <2>1, Times2
  <2>3. Q * (c * q) <= Q * (b * u * u)
    BY <1>2, Times2
  <2>4. c * (Q * q) = Q * (c * q)
    BY <1>2
  <2>5. c * (l * (k * L)) <= Q * (b * u * u)
    BY <1>1, <1>2, <2>2, <2>3, <2>4
  <2>6. g * (c * (l * (k * L))) <= g * (Q * (b * u * u))
    BY <1>1, <1>2, <2>5, Times2
  <2>7. g * (Q * (b * u * u)) = (u * Q) * (b * S)
    BY <1>2
  <2>8. (u * Q) * (b * S) <= (u * Q) * (h * m)
    BY <1>2, Times2
  <2>9. (u * Q) * (h * m) = k * (m * Q)
    BY <1>1, <1>2
  <2>10. g * (c * (l * (k * L))) = k * ((c * g) * (l * L))
    BY <1>1
  <2>11. k * ((c * g) * (l * L)) <= k * (m * Q)
    BY <1>1, <1>2, <2>6, <2>7, <2>8, <2>9, <2>10
  <2> QED
    BY <1>1, <1>2, <1>3, <2>11, CancelLe
<1>5. ASSUME NEW R \in Nat, (c * g) * (l * R) <= w * S * S
      PROVE  R <= L + E + 1
  <2>1. PICK Y \in Nat : Y = L + E + 2
    OBVIOUS
  <2>2. Q * (q + 1) <= l * (k * Y)
    <3>1. l * (r + 1) <= l * (k * (L + 1))
      <4>1. r + 1 <= k * (L + 1)
        BY <1>1
      <4> QED
        BY <1>1, <4>1, Times2
    <3>2. Q * q < l * (k * (L + 1))
      BY <1>1, <1>2, <1>3, <3>1
    <3>3. Q < l * (k * (E + 1))
      <4>1. (l * k) * E + l * k = l * (k * (E + 1))
        BY <1>1
      <4> QED
        BY <1>1, <1>2, <4>1
    <3>4. l * (k * Y) = l * (k * (L + 1)) + l * (k * (E + 1))
      BY <1>1, <2>1
    <3>5. Q * (q + 1) = Q * q + Q
      BY <1>2
    <3> QED
      BY <1>1, <1>2, <3>2, <3>3, <3>4, <3>5
  <2>3. Q * (b * u * u) < Q * (c * (q + 1))
    <3>1. b * u * u + 1 <= c * (q + 1)
      OBVIOUS
    <3>2. Q * (b * u * u + 1) <= Q * (c * (q + 1))
      BY <1>2, <3>1, Times2
    <3>3. Q * (b * u * u + 1) = Q * (b * u * u) + Q
      BY <1>2
    <3> QED
      BY <1>2, <3>2, <3>3
  <2>4. Q * (c * (q + 1)) <= c * (l * (k * Y))
    <3>1. c * (Q * (q + 1)) <= c * (l * (k * Y))
      BY <1>1, <1>2, <2>1, <2>2, Times2
    <3>2. c * (Q * (q + 1)) = Q * (c * (q + 1))
      BY <1>2
    <3> QED
      BY <3>1, <3>2
  <2>5. Q * (b * u * u) + 1 <= c * (l * (k * Y))
    BY <1>1, <1>2, <2>1, <2>3, <2>4
  <2>6. g * (Q * (b * u * u) + 1) <= g * (c * (l * (k * Y)))
    BY <1>1, <1>2, <2>1, <2>5, Times2
  <2>7. g * (Q * (b * u * u) + 1) = (u * Q) * (b * S) + g
    BY <1>2
  <2>8. (u * Q) * (h * w) <= (u * Q) * (b * S)
    BY <1>2, Times2
  <2>9. (u * Q) * (h * w) = k * (w * Q)
    BY <1>1, <1>2
  <2>10. k * ((c * g) * (l * R)) <= k * (w * Q)
    BY <1>1, <1>2, <1>3, <1>5, Times2
  <2>11. PICK z \in Nat \ {0} : z = k * ((c * g) * l)
    BY <1>1
  <2>12. k * ((c * g) * (l * R)) = z * R /\ g * (c * (l * (k * Y))) = z * Y
    BY <1>1, <2>1, <2>11
  <2>13. z * R < z * Y
    BY <1>1, <1>2, <2>1, <2>6, <2>7, <2>8, <2>9, <2>10, <2>11, <2>12
  <2>14. R < Y
    BY <2>1, <2>11, <2>13, CancelLt
  <2> QED
    BY <2>1, <2>14
<1> QED
  BY <1>4, <1>5

(* What may be borrowed: the margin of c units' worth, less the debt.      *)
LEMMA LoanableCore ==
  ASSUME NEW b \in Nat, NEW h \in Nat \ {0}, NEW u \in Nat \ {0}, NEW g \in Nat \ {0},
         NEW S \in Nat \ {0}, S = u * g,
         NEW s \in Nat \ {0}, NEW z \in Nat \ {0}, S = s * z,
         NEW c \in Nat, NEW p \in Nat, NEW M \in Nat, NEW T \in Nat \ {0},
         NEW w \in Nat, NEW m \in Nat, h * w <= b * S, b * S <= h * m,
         NEW H \in Nat \ {0}, NEW a \in Nat \ {0}, NEW e \in Nat \ {0}, NEW k \in Nat \ {0},
         H = (u * S * T * S) * a, H = h * e, H = k * s,
         NEW N \in Int, N = (c * (M * T) * p) * a - b * e
  PROVE  /\ \A n \in Nat : k * n <= N => S * (S * (n * z + w)) <= (c * g) * M * p
         /\ \A y \in Nat \ {0} : S * (S * (y + m)) <= (c * g) * M * p =>
              /\ N > 0
              /\ \A n \in Nat : N < k * n + k => y <= n * z + z - 1
<1>1. PICK X \in Nat : X = (c * (M * T) * p) * a
  OBVIOUS
<1>2. PICK W \in Nat : W = c * M * p
  OBVIOUS
<1>3. PICK j \in Nat \ {0} : j = S * T * a
  OBVIOUS
<1>4. S * X = j * W
  BY <1>1, <1>2, <1>3
<1>5. H = j * (u * S)
  BY <1>3
<1>6. (c * g) * M * p = g * W
  BY <1>2
<1>7. S * N = j * W - S * (b * e)
  <2>1. S * N = S * X - S * (b * e)
    BY <1>1
  <2> QED
    BY <1>4, <2>1
<1>8. S * (b * e) = e * (b * S)
  OBVIOUS
<1>9. ASSUME NEW n \in Nat, k * n <= N
      PROVE  S * (S * (n * z + w)) <= (c * g) * M * p
  <2>1. S * (k * n) <= S * N
    BY <1>9, Times2
  <2>2. S * (k * n) = H * (n * z)
    OBVIOUS
  <2>3. e * (h * w) <= e * (b * S)
    BY Times2
  <2>4. e * (h * w) = H * w
    OBVIOUS
  <2>5. H * (n * z) + H * w <= j * W
    BY <1>2, <1>3, <1>7, <1>8, <2>1, <2>2, <2>3, <2>4
  <2>6. H * (n * z) + H * w = j * ((u * S) * (n * z + w))
    BY <1>3, <1>5
  <2>7. (u * S) * (n * z + w) <= W
    BY <1>2, <1>3, <2>5, <2>6, CancelLe
  <2>8. g * ((u * S) * (n * z + w)) <= g * W
    BY <1>2, <2>7, Times2
  <2>9. g * ((u * S) * (n * z + w)) = S * (S * (n * z + w))
    OBVIOUS
  <2> QED
    BY <1>6, <2>8, <2>9
<1>10. ASSUME NEW y \in Nat \ {0}, S * (S * (y + m)) <= (c * g) * M * p
       PROVE  /\ N > 0
              /\ \A n \in Nat : N < k * n + k => y <= n * z + z - 1
  <2>1. g * ((u * S) * (y + m)) = S * (S * (y + m))
    OBVIOUS
  <2>2. g * ((u * S) * (y + m)) <= g * W
    BY <1>6, <1>10, <2>1
  <2>3. (u * S) * (y + m) <= W
    BY <1>2, <2>2, CancelLe
  <2>4. j * ((u * S) * (y + m)) <= j * W
    BY <1>2, <1>3, <2>3, Times2
  <2>5. j * ((u * S) * (y + m)) = H * y + H * m
    BY <1>3, <1>5
  <2>6. e * (b * S) <= e * (h * m)
    BY Times2
  <2>7. e * (h * m) = H * m
    OBVIOUS
  <2>8. H * y <= S * N
    BY <1>2, <1>3, <1>7, <1>8, <2>4, <2>5, <2>6, <2>7
  <2>9. S * 0 < S * N
    BY <2>8
  <2>10. N > 0
    BY <2>9, CancelLt
  <2>11. ASSUME NEW n \in Nat, N < k * n + k PROVE y <= n * z + z - 1
    <3>1. k * (n + 1) = k * n + k
      OBVIOUS
    <3>2. N + 1 <= k * (n + 1)
      BY <2>11, <3>1
    <3>3. S * (N + 1) <= S * (k * (n + 1))
      BY <3>2, Times2
    <3>4. S * (N + 1) = S * N + S
      OBVIOUS
    <3>5. S * (k * (n + 1)) = H * (n * z + z)
      OBVIOUS
    <3>6. H * y < H * (n * z + z)
      BY <2>8, <3>3, <3>4, <3>5
    <3>7. y < n * z + z
      BY <3>6, CancelLt
    <3> QED
      BY <3>7
  <2> QED
    BY <2>10, <2>11
<1> QED
  BY <1>9, <1>10

(* Three quotients of a debt with many digits lose less than a wad's unit. *)
LEMMA LossIsSmall ==
  ASSUME NEW S \in Nat, S >= 2, NEW T \in Nat \ {0}, T <= S,
         NEW l \in Nat \ {0}, NEW t \in Nat \ {0},
         NEW h \in Nat, S * S * S <= h
  PROVE  l * t + (T * T) * l + (T * T) * (S * S) <= (l * t) * (T * S * h)
<1>1. PICK x \in Nat \ {0} : x = (l * t) * T
  OBVIOUS
<1>2. PICK c \in Nat : c = S * S * S
  OBVIOUS
<1>3. l * t <= x
  <2>1. (l * t) * 1 <= (l * t) * T
    BY Times2
  <2> QED
    BY <1>1, <2>1
<1>4. (T * T) * l <= x * S
  <2>1. (T * l) * T <= (T * l) * S
    BY Times2
  <2>2. (T * l * S) * 1 <= (T * l * S) * t
    BY Times2
  <2>3. /\ (T * l) * T = (T * T) * l /\ (T * l) * S = (T * l * S) * 1
        /\ (T * l * S) * t = x * S
    BY <1>1
  <2>4. (T * l) * S \in Int /\ x * S \in Int
    BY <1>1
  <2> QED
    BY <2>1, <2>2, <2>3, <2>4
<1>5. (T * T) * (S * S) <= x * c
  <2>1. (T * (S * S)) * T <= (T * (S * S)) * S
    BY Times2
  <2>2. (T * c) * 1 <= (T * c) * (l * t)
    BY <1>2, Times2
  <2>3. /\ (T * (S * S)) * T = (T * T) * (S * S) /\ (T * (S * S)) * S = (T * c) * 1
        /\ (T * c) * (l * t) = x * c
    BY <1>1, <1>2
  <2> QED
    BY <1>1, <1>2, <2>1, <2>2, <2>3
<1>6. 1 + S + c <= S * c
  <2>1. c * 2 <= c * S
    BY <1>2, Times2
  <2>2. S * 2 <= S * S
    BY Times2
  <2>3. (S * S) * 2 <= (S * S) * S
    BY Times2
  <2>4. S * S \in Nat /\ c = (S * S) * S
    BY <1>2
  <2> QED
    BY <1>2, <2>1, <2>2, <2>3, <2>4
<1>7. x * (1 + S + c) <= x * (S * h)
  <2>1. S * c <= S * h
    BY <1>2, Times2
  <2>2. 1 + S + c <= S * h
    BY <1>2, <1>6, <2>1
  <2> QED
    BY <1>1, <1>2, <2>2, Times2
<1>8. x * (1 + S + c) = x + x * S + x * c
  BY <1>1, <1>2
<1>9. x * (S * h) = (l * t) * (T * S * h)
  BY <1>1
<1> QED
  BY <1>1, <1>2, <1>3, <1>4, <1>5, <1>7, <1>8, <1>9

(* What must stay: the debt over the price, the LLTV and the margin, or    *)
(* over the price and both at once.                                        *)
LEMMA StaysCore ==
  ASSUME NEW b \in Nat, NEW h \in Nat \ {0}, NEW S \in Nat \ {0}, NEW T \in Nat \ {0},
         NEW g \in Nat \ {0}, NEW k \in Nat \ {0}, k = h * S * T * g,
         NEW p \in Nat \ {0}, NEW l \in Nat \ {0}, NEW t \in Nat \ {0},
         NEW M \in Nat \ {0}, M * T = l * t,
         NEW w \in Nat, NEW m \in Nat, h * w <= b * S, b * S <= h * m,
         NEW q \in Nat, NEW r \in Nat, NEW y \in Nat,
         p * q <= b * S * S, b * S * S < p * q + p,
         l * r <= q * S * S, q * S * S < l * r + l,
         t * y <= r * T * T, r * T * T < t * y + t
  PROVE  /\ \A R \in Nat, f \in Nat : m * S * S < (p * M) * (R + 1) /\ R <= f * g
                                        => y < (f + 1) * k
         /\ S >= 2 /\ T <= S /\ S * S * S <= h =>
              \A R \in Nat, j \in Nat : (p * M) * R <= w * S * S /\ y <= j * k
                                         => R <= j * g
<1>1. PICK Q \in Nat \ {0}, U \in Nat \ {0} : Q = S * S /\ U = T * T
  OBVIOUS
<1>2. /\ b * S * S = b * Q /\ q * S * S = q * Q /\ r * T * T = r * U
      /\ m * S * S = m * Q /\ w * S * S = w * Q
  BY <1>1
<1>3. PICK x \in Nat \ {0} : x = l * t
  OBVIOUS
<1>4. PICK v \in Nat \ {0} : v = T * S * h
  OBVIOUS
<1>5. k = v * g
  BY <1>4
<1>6. (U * S) * (h * M) = x * v
  BY <1>1, <1>3, <1>4
<1>7. ASSUME NEW R \in Nat, NEW f \in Nat, m * S * S < (p * M) * (R + 1), R <= f * g
      PROVE  y < (f + 1) * k
  <2>1. (x * p) * y <= (U * Q) * (b * Q)
    <3>1. (l * p) * (t * y) <= (l * p) * (r * U)
      BY <1>1, <1>2, Times2
    <3>2. (p * U) * (l * r) <= (p * U) * (q * Q)
      BY <1>1, <1>2, Times2
    <3>3. (U * Q) * (p * q) <= (U * Q) * (b * Q)
      BY <1>1, <1>2, Times2
    <3>4. /\ (l * p) * (t * y) = (x * p) * y
          /\ (l * p) * (r * U) = (p * U) * (l * r)
          /\ (p * U) * (q * Q) = (U * Q) * (p * q)
      BY <1>1, <1>3
    <3> QED
      BY <1>1, <1>3, <3>1, <3>2, <3>3, <3>4
  <2>2. (U * Q) * (b * Q) <= (U * S) * (h * (m * Q))
    <3>1. (U * Q * S) * (b * S) <= (U * Q * S) * (h * m)
      BY <1>1, Times2
    <3>2. (U * Q * S) * (b * S) = (U * Q) * (b * Q)
      BY <1>1
    <3>3. (U * Q * S) * (h * m) = (U * S) * (h * (m * Q))
      BY <1>1
    <3> QED
      BY <3>1, <3>2, <3>3
  <2>3. m * Q < (p * M) * (f * g + 1)
    <3>1. (p * M) * (R + 1) <= (p * M) * (f * g + 1)
      BY <1>7, Times2
    <3> QED
      BY <1>1, <1>2, <1>7, <3>1
  <2>4. (U * S * h) * (m * Q + 1) <= (U * S * h) * ((p * M) * (f * g + 1))
    <3>1. m * Q + 1 <= (p * M) * (f * g + 1)
      BY <1>1, <2>3
    <3> QED
      BY <1>1, <3>1, Times2
  <2>5. (U * S * h) * (m * Q + 1) = (U * S) * (h * (m * Q)) + U * S * h
    BY <1>1
  <2>6. (U * S * h) * ((p * M) * (f * g + 1)) = (x * p) * (v * (f * g + 1))
    <3>1. (U * S * h) * ((p * M) * (f * g + 1)) = ((U * S) * (h * M)) * (p * (f * g + 1))
      BY <1>1
    <3>2. (x * v) * (p * (f * g + 1)) = (x * p) * (v * (f * g + 1))
      BY <1>3, <1>4
    <3> QED
      BY <1>6, <3>1, <3>2
  <2>7. U * S * h > 0
    BY <1>1
  <2>8. (x * p) * y < (x * p) * (v * (f * g + 1))
    BY <1>1, <1>3, <1>4, <2>1, <2>2, <2>4, <2>5, <2>6, <2>7
  <2>9. y < v * (f * g + 1)
    BY <1>3, <1>4, <2>8, CancelLt
  <2>10. v * (f * g + 1) <= (f + 1) * k
    <3>1. v * 1 <= v * g
      BY <1>4, Times2
    <3>2. v * (f * g + 1) = f * (v * g) + v
      BY <1>4
    <3>3. (f + 1) * k = f * (v * g) + v * g
      BY <1>4, <1>5
    <3> QED
      BY <1>4, <3>1, <3>2, <3>3
  <2> QED
    BY <1>4, <2>9, <2>10
<1>8. ASSUME S >= 2, T <= S, S * S * S <= h, NEW R \in Nat, NEW j \in Nat,
             (p * M) * R <= w * S * S, y <= j * k
      PROVE  R <= j * g
  <2>1. SUFFICES ASSUME j * g + 1 <= R PROVE FALSE
    OBVIOUS
  <2>2. (U * Q) * (b * Q) < p * (x * (j * k) + x + U * l + U * Q)
    <3>1. r * U < t * (j * k + 1)
      <4>1. t * y <= t * (j * k)
        BY <1>8, Times2
      <4>2. t * (j * k + 1) = t * (j * k) + t
        OBVIOUS
      <4> QED
        BY <1>1, <1>2, <4>1, <4>2
    <3>2. l * (r * U) <= l * (t * (j * k + 1))
      BY <1>1, <3>1, Times2
    <3>3. U * (q * Q) <= U * (l * r + l)
      BY <1>1, <1>2, Times2
    <3>4. U * (l * r + l) = l * (r * U) + U * l
      BY <1>1
    <3>5. l * (t * (j * k + 1)) = x * (j * k) + x
      BY <1>3
    <3>6. U * (q * Q) <= x * (j * k) + x + U * l
      BY <1>1, <1>3, <3>2, <3>3, <3>4, <3>5
    <3>7. PICK A \in Nat : A = x * (j * k) + x + U * l
      BY <1>1, <1>3
    <3>8. p * (U * (q * Q)) <= p * A
      BY <1>1, <3>6, <3>7, Times2
    <3>9. (U * Q) * (b * Q + 1) <= (U * Q) * (p * q + p)
      BY <1>1, <1>2, Times2
    <3>10. (U * Q) * (p * q + p) = p * (U * (q * Q)) + p * (U * Q)
      BY <1>1
    <3>11. p * (A + U * Q) = p * A + p * (U * Q)
      BY <1>1, <3>7
    <3>12. (U * Q) * (b * Q + 1) = (U * Q) * (b * Q) + U * Q
      BY <1>1
    <3>13. (U * Q) * (b * Q) < p * (A + U * Q)
      BY <1>1, <3>7, <3>8, <3>9, <3>10, <3>11, <3>12
    <3> QED
      BY <3>7, <3>13
  <2>3. p * (x * (j * k) + x * v) <= (U * Q) * (b * Q)
    <3>1. (p * M) * (j * g + 1) <= (p * M) * R
      BY <2>1, Times2
    <3>2. (p * M) * (j * g + 1) <= w * Q
      BY <1>1, <1>2, <1>8, <3>1
    <3>3. (U * S * h) * ((p * M) * (j * g + 1)) <= (U * S * h) * (w * Q)
      BY <1>1, <3>2, Times2
    <3>4. (U * Q * S) * (h * w) <= (U * Q * S) * (b * S)
      BY <1>1, Times2
    <3>5. (U * S * h) * (w * Q) = (U * Q * S) * (h * w)
      BY <1>1
    <3>6. (U * Q * S) * (b * S) = (U * Q) * (b * Q)
      BY <1>1
    <3>7. (U * S * h) * ((p * M) * (j * g + 1)) = ((U * S) * (h * M)) * (p * (j * g + 1))
      BY <1>1
    <3>8. (x * v) * (p * (j * g + 1)) = p * (x * (j * (v * g)) + x * v)
      BY <1>3, <1>4
    <3>9. ((U * S) * (h * M)) * (p * (j * g + 1)) = p * (x * (j * k) + x * v)
      BY <1>5, <1>6, <3>8
    <3> QED
      BY <1>1, <3>3, <3>4, <3>5, <3>6, <3>7, <3>9
  <2>4. x * (j * k) + x * v < x * (j * k) + x + U * l + U * Q
    <3>1. PICK A \in Nat, B \in Nat :
            A = x * (j * k) + x * v /\ B = x * (j * k) + x + U * l + U * Q
      BY <1>1, <1>3, <1>4
    <3>2. p * A < p * B
      BY <1>1, <2>2, <2>3, <3>1
    <3>3. A < B
      BY <3>1, <3>2, CancelLt
    <3> QED
      BY <3>1, <3>3
  <2>5. x + U * l + U * Q <= x * v
    <3>1. l * t + (T * T) * l + (T * T) * (S * S) <= (l * t) * (T * S * h)
      BY <1>8, LossIsSmall
    <3> QED
      BY <1>1, <1>3, <1>4, <3>1
  <2>6. x * (j * k) \in Int /\ x * v \in Int /\ U * l \in Int /\ U * Q \in Int
    BY <1>1, <1>3, <1>4
  <2> QED
    BY <1>3, <2>4, <2>5, <2>6
<1> QED
  BY <1>7, <1>8

-----------------------------------------------------------------------------
(* A debt b, w whole wads of it, and m wads that are no less.              *)
Owing(b, w, m) ==
  /\ b \in Decimal /\ b.n >= 0 /\ w \in Nat /\ m \in Nat
  /\ Scale[b.d] * w <= b.n * Wad /\ b.n * Wad < Scale[b.d] * w + Scale[b.d]
  /\ b.n * Wad <= Scale[b.d] * m

LEMMA OwingIs ==
  ASSUME NEW b, NEW w, NEW m, Owing(b, w, m)
  PROVE  w = Wads(b) /\ w <= m
<1>0. b \in Decimal /\ b.n \in Nat /\ b.d \in Nat
  BY DEF Owing, Decimal
<1>1. PICK n \in Nat, S \in Nat \ {0}, h \in Nat \ {0} : n = b.n /\ S = Wad /\ h = Scale[b.d]
  BY <1>0, ScaleIs, DigitsAre
<1>2. PICK q \in Nat : q = Wads(b) /\ h * q <= n * S /\ n * S < h * q + h
  BY <1>0, <1>1, RawCut, DigitsAre DEF Wads, Wad
<1>3. n * S \in Nat /\ w \in Nat /\ m \in Nat
      /\ h * w <= n * S /\ n * S < h * w + h /\ n * S <= h * m
  BY <1>1 DEF Owing
<1>4. w = q
  <2>1. PICK x \in Nat : x = n * S
    BY <1>3
  <2>2. w = x \div h
    BY <1>1, <1>3, <2>1, DivUnique
  <2>3. q = x \div h
    BY <1>1, <1>2, <2>1, DivUnique
  <2> QED
    BY <2>2, <2>3
<1>5. h * w <= h * m
  BY <1>1, <1>3
<1>6. w <= m
  BY <1>1, <1>3, <1>5, CancelLe
<1> QED
  BY <1>2, <1>4, <1>6

(* What the raw amount of a token is in wads.                              *)
LEMMA InWadsIs ==
  ASSUME NEW y \in Nat, NEW d \in Nat, d <= WadDecimals
  PROVE  /\ WadDecimals - d \in Nat /\ Wad = Scale[d] * Scale[WadDecimals - d]
         /\ InWads(y, d) = y * Scale[WadDecimals - d] /\ InWads(y, d) \in Nat
<1>1. Dec(y, d) \in Decimal /\ Dec(y, d).n = y /\ Dec(y, d).d = d
  BY DecIs
<1>2. /\ WadDecimals - d \in Nat /\ Wad = Scale[d] * Scale[WadDecimals - d]
      /\ InWads(y, d) = y * Scale[WadDecimals - d]
  BY <1>1, RawExact, DigitsAre DEF InWads, Wads, Wad
<1>3. y * Scale[WadDecimals - d] \in Nat
  BY <1>2, ScaleIs
<1> QED
  BY <1>2, <1>3

LEMMA OwingMore ==
  ASSUME NEW b, NEW w, NEW m, Owing(b, w, m), NEW y \in Nat
  PROVE  Owing(Plus(b, Dec(y, LoanDecimals)), w + InWads(y, LoanDecimals),
               m + InWads(y, LoanDecimals))
<1>1. b \in Decimal /\ b.n >= 0 /\ w \in Nat /\ m \in Nat
  BY DEF Owing
<1>2. PICK n \in Nat, S \in Nat \ {0}, h \in Nat \ {0} : n = b.n /\ S = Wad /\ h = Scale[b.d]
  <2>1. b.n \in Nat /\ b.d \in Nat
    BY <1>1 DEF Decimal
  <2> QED
    BY <2>1, ScaleIs, DigitsAre
<1>3. PICK s \in Nat \ {0}, z \in Nat \ {0}, x \in Nat :
        /\ s = Scale[LoanDecimals] /\ S = s * z /\ x = y * z /\ x = InWads(y, LoanDecimals)
  <2>1. LoanDecimals \in Nat /\ LoanDecimals <= WadDecimals
    BY DigitsAssumption
  <2>2. WadDecimals - LoanDecimals \in Nat
        /\ Wad = Scale[LoanDecimals] * Scale[WadDecimals - LoanDecimals]
        /\ InWads(y, LoanDecimals) = y * Scale[WadDecimals - LoanDecimals]
        /\ InWads(y, LoanDecimals) \in Nat
    BY <2>1, InWadsIs
  <2> QED
    BY <1>2, <2>1, <2>2, ScaleIs
<1> DEFINE v == Dec(y, LoanDecimals)
<1>4. v \in Decimal /\ v.n = y /\ v.d = LoanDecimals
  BY DecIs, DigitsAre
<1> HIDE DEF v
<1>5. PICK a \in Nat \ {0}, e \in Nat \ {0} :
        /\ Scale[MoreDigits(b, v)] = h * a /\ Scale[MoreDigits(b, v)] = s * e
        /\ Plus(b, v) = Dec(n * a + y * e, MoreDigits(b, v))
  BY <1>1, <1>2, <1>3, <1>4, Digitwise
<1>6. MoreDigits(b, v) \in Nat
  BY <1>1, <1>4, MoreDigitsIs
<1>7. PICK k \in Nat : k = n * a + y * e
  OBVIOUS
<1>8. /\ Plus(b, v) \in Decimal /\ Plus(b, v).n = k /\ Scale[Plus(b, v).d] = h * a
  BY <1>5, <1>6, <1>7, DecIs
<1>9. k * S = a * (n * S) + (h * a) * x
  <2>1. k * S = a * (n * S) + (s * e) * (y * z)
    BY <1>3, <1>7
  <2> QED
    BY <1>3, <1>5, <2>1
<1>10. h * w <= n * S /\ n * S + 1 <= h * w + h /\ n * S <= h * m
  BY <1>1, <1>2 DEF Owing
<1>11. a * (h * w) <= a * (n * S) /\ a * (n * S + 1) <= a * (h * w + h)
       /\ a * (n * S) <= a * (h * m)
  BY <1>1, <1>10, Times2
<1>12. /\ a * (h * w) + (h * a) * x = (h * a) * (w + x)
       /\ a * (h * m) + (h * a) * x = (h * a) * (m + x)
       /\ a * (h * w + h) + (h * a) * x = (h * a) * (w + x) + h * a
       /\ a * (n * S + 1) = a * (n * S) + a
  BY <1>1
<1>13. /\ (h * a) * (w + x) <= k * S /\ k * S < (h * a) * (w + x) + h * a
       /\ k * S <= (h * a) * (m + x)
  BY <1>1, <1>9, <1>11, <1>12
<1>14. w + x \in Nat /\ m + x \in Nat /\ k >= 0
  BY <1>1
<1> QED
  BY <1>2, <1>3, <1>8, <1>13, <1>14 DEF Owing, v

LEMMA OwingLess ==
  ASSUME NEW b, NEW w, NEW m, Owing(b, w, m), NEW y \in Nat,
         Minus(b, Dec(y, LoanDecimals)).n >= 0
  PROVE  /\ InWads(y, LoanDecimals) \in Nat /\ InWads(y, LoanDecimals) <= w
         /\ Owing(Minus(b, Dec(y, LoanDecimals)), w - InWads(y, LoanDecimals),
                  m - InWads(y, LoanDecimals))
<1>1. b \in Decimal /\ b.n >= 0 /\ w \in Nat /\ m \in Nat /\ w <= m
  BY OwingIs DEF Owing
<1>2. PICK n \in Nat, S \in Nat \ {0}, h \in Nat \ {0} : n = b.n /\ S = Wad /\ h = Scale[b.d]
  <2>1. b.n \in Nat /\ b.d \in Nat
    BY <1>1 DEF Decimal
  <2> QED
    BY <2>1, ScaleIs, DigitsAre
<1>3. PICK s \in Nat \ {0}, z \in Nat \ {0}, x \in Nat :
        /\ s = Scale[LoanDecimals] /\ S = s * z /\ x = y * z /\ x = InWads(y, LoanDecimals)
  <2>1. LoanDecimals \in Nat /\ LoanDecimals <= WadDecimals
    BY DigitsAssumption
  <2>2. WadDecimals - LoanDecimals \in Nat
        /\ Wad = Scale[LoanDecimals] * Scale[WadDecimals - LoanDecimals]
        /\ InWads(y, LoanDecimals) = y * Scale[WadDecimals - LoanDecimals]
        /\ InWads(y, LoanDecimals) \in Nat
    BY <2>1, InWadsIs
  <2> QED
    BY <1>2, <2>1, <2>2, ScaleIs
<1> DEFINE v == Dec(y, LoanDecimals)
<1>4. v \in Decimal /\ v.n = y /\ v.d = LoanDecimals
  BY DecIs, DigitsAre
<1>0. Minus(b, v).n >= 0
  OBVIOUS
<1> HIDE DEF v
<1>5. PICK a \in Nat \ {0}, e \in Nat \ {0} :
        /\ Scale[MoreDigits(b, v)] = h * a /\ Scale[MoreDigits(b, v)] = s * e
        /\ Minus(b, v) = Dec(n * a - y * e, MoreDigits(b, v))
  BY <1>1, <1>2, <1>3, <1>4, Digitwise
<1>6. MoreDigits(b, v) \in Nat
  BY <1>1, <1>4, MoreDigitsIs
<1>7. PICK k \in Nat : k = n * a - y * e
  <2>1. n * a - y * e \in Int
    OBVIOUS
  <2>2. Minus(b, v).n = n * a - y * e
    BY <1>5, <1>6, <2>1, DecIs
  <2> QED
    BY <1>0, <2>1, <2>2
<1>8. /\ Minus(b, v) \in Decimal /\ Minus(b, v).n = k /\ Scale[Minus(b, v).d] = h * a
  BY <1>5, <1>6, <1>7, DecIs
<1>9. k * S = a * (n * S) - (h * a) * x
  <2>1. k * S = a * (n * S) - (s * e) * (y * z)
    BY <1>3, <1>7
  <2> QED
    BY <1>3, <1>5, <2>1
<1>10. h * w <= n * S /\ n * S + 1 <= h * w + h /\ n * S <= h * m
  BY <1>1, <1>2 DEF Owing
<1>11. a * (h * w) <= a * (n * S) /\ a * (n * S + 1) <= a * (h * w + h)
       /\ a * (n * S) <= a * (h * m)
  BY <1>1, <1>10, Times2
<1>12. /\ a * (h * w) - (h * a) * x = (h * a) * (w - x)
       /\ a * (h * m) - (h * a) * x = (h * a) * (m - x)
       /\ a * (h * w + h) - (h * a) * x = (h * a) * (w - x) + h * a
       /\ a * (n * S + 1) = a * (n * S) + a
  BY <1>1
<1>13. /\ (h * a) * (w - x) <= k * S /\ k * S < (h * a) * (w - x) + h * a
       /\ k * S <= (h * a) * (m - x)
  BY <1>1, <1>9, <1>11, <1>12
<1>14. x <= w
  <2>1. (h * a) * (w - x) + h * a = (h * a) * (w - x + 1)
    BY <1>1
  <2>2. (h * a) * 0 < (h * a) * (w - x + 1)
    <3>1. (h * a) * 0 = 0 /\ k * S >= 0
      BY <1>2, <1>7, <1>5
    <3>2. k * S < (h * a) * (w - x + 1)
      BY <1>13, <2>1
    <3>3. k * S \in Int /\ (h * a) * (w - x + 1) \in Int
      BY <1>1, <1>2, <1>3, <1>5, <1>7
    <3> QED
      BY <3>1, <3>2, <3>3
  <2>3. h * a \in Nat \ {0}
    OBVIOUS
  <2>4. 0 < w - x + 1
    BY <1>1, <2>2, <2>3, CancelLt
  <2> QED
    BY <1>1, <2>4
<1>15. w - x \in Nat /\ m - x \in Nat /\ k >= 0
  BY <1>1, <1>14
<1> QED
  BY <1>2, <1>3, <1>8, <1>13, <1>14, <1>15 DEF Owing, v

-----------------------------------------------------------------------------
(* The figures of a position, computed twice.                              *)

(* A collateral in wads: u of its units are a token, and g wads a unit.    *)
LEMMA CollateralIs ==
  ASSUME NEW c \in Decimal, c.d = CollDecimals
  PROVE  /\ Scale[CollDecimals] \in Nat \ {0} /\ Scale[WadDecimals - CollDecimals] \in Nat \ {0}
         /\ Wad = Scale[CollDecimals] * Scale[WadDecimals - CollDecimals]
         /\ Wads(c) = c.n * Scale[WadDecimals - CollDecimals]
         /\ c.n > 0 => AtLeastZero(Wads(c)) = c.n * Scale[WadDecimals - CollDecimals]
         /\ c.n <= 0 => AtLeastZero(Wads(c)) = 0
<1>1. CollDecimals \in Nat /\ CollDecimals <= WadDecimals
      /\ WadDecimals - CollDecimals \in Nat
  BY PositionAssumption, DigitsAre
<1>2. PICK g \in Nat \ {0} : g = Scale[WadDecimals - CollDecimals]
  BY <1>1, ScaleIs
<1>3. Wad = Scale[CollDecimals] * g /\ Wads(c) = c.n * g
  BY <1>1, <1>2, RawExact, DigitsAre DEF Wads, Wad
<1>4. PICK n \in Int : n = c.n
  BY DEF Decimal
<1>5. (n > 0 => n * g > 0) /\ (n <= 0 => n * g <= 0)
  <2>1. n <= 0 => g * n <= g * 0
    BY <1>2, <1>4, Times2
  <2>2. n > 0 => g * 1 <= g * n
    BY <1>2, <1>4, Times2
  <2> QED
    BY <1>2, <1>4, <2>1, <2>2
<1> QED
  BY <1>1, <1>2, <1>3, <1>4, <1>5, ScaleIs DEF AtLeastZero

LEMMA RatioAgrees ==
  ASSUME NEW c \in Decimal, c.d = CollDecimals,
         NEW b, NEW w, NEW m, Owing(b, w, m),
         NEW price \in Decimal, price.n > 0, price.d = WadDecimals,
         NEW C, C = AtLeastZero(Wads(c)),
         NEW worth, worth = Quot(C * price.n, Wad),
         NEW shown, shown = ComputeLTV(b, c, price)
  PROVE  IF worth > 0
         THEN /\ Wads(shown) <= RawLTV(C, m, price.n)
              /\ RawLTV(C, w, price.n) * worth <= (Wads(shown) + 1) * (worth + 1)
         ELSE RawLTV(C, w, price.n) = 0 /\ (c.n <= 0 => shown = Zero)
<1>1. PICK u \in Nat \ {0}, g \in Nat \ {0}, S \in Nat \ {0} :
        /\ u = Scale[CollDecimals] /\ g = Scale[WadDecimals - CollDecimals]
        /\ S = Wad /\ S = u * g
  BY CollateralIs
<1>2. PICK p \in Nat \ {0} : p = price.n
  BY DEF Decimal
<1>3. b \in Decimal /\ b.n \in Nat /\ b.d \in Nat /\ w \in Nat /\ m \in Nat
  BY DEF Owing, Decimal
<1>0. PICK a \in Nat : a = b.n
  BY <1>3
<1>4. c.n \in Int
  BY DEF Decimal
<1>5. PICK v \in Decimal : v = Times(c, price) /\ v.n = c.n * p /\ v.d = CollDecimals + WadDecimals
  BY <1>2, TimesIs
<1>6. CASE c.n <= 0
  <2>1. C = 0
    BY <1>6, CollateralIs
  <2>2. worth = 0
    <3>1. 0 * p = 0
      BY <1>2
    <3>2. Quot(0, S) = 0
      BY <1>1 DEF Quot
    <3> QED
      BY <1>1, <1>2, <2>1, <3>1, <3>2
  <2>3. ~(v.n > 0)
    <3>1. p * c.n <= p * 0
      BY <1>2, <1>4, <1>6, Times2
    <3> QED
      BY <1>2, <1>4, <1>5, <3>1
  <2>4. shown = Zero
    BY <1>5, <2>3 DEF ComputeLTV
  <2>5. RawLTV(C, w, p) = 0
    BY <1>2, <2>2 DEF RawLTV
  <2> QED
    BY <1>2, <2>2, <2>4, <2>5
<1>7. CASE c.n > 0
  <2>1. PICK n \in Nat \ {0} : n = c.n
    BY <1>4, <1>7
  <2>2. C = n * g
    BY <1>1, <1>7, <2>1, CollateralIs
  <2>3. PICK t \in Nat : t = worth /\ S * t <= (n * g) * p /\ (n * g) * p < S * t + S
    <3>1. PICK x \in Nat : x = (n * g) * p
      OBVIOUS
    <3>2. x \in Int /\ x >= 0
      BY <3>1
    <3>3. Quot(x, S) = x \div S
      BY <1>1, <3>2, QuotIs
    <3> QED
      BY <1>1, <1>2, <2>2, <3>1, <3>3, DivIs
  <2>4. CASE t = 0
    <3>1. RawLTV(C, w, p) = 0
      BY <1>2, <2>3, <2>4 DEF RawLTV
    <3>2. ~(worth > 0)
      <4>1. worth = t
        BY <2>3
      <4> QED
        BY <2>4, <4>1
    <3>3. ~(c.n <= 0)
      BY <1>4, <1>7
    <3> QED
      BY <1>2, <3>1, <3>2, <3>3
  <2>5. CASE t # 0
    <3>1. v.n = n * p /\ v.n > 0
      BY <1>2, <1>5, <2>1
    <3>2. PICK r \in Decimal : r = Over(b, v) /\ r.d = b.d + v.d /\ r.n >= 0
      BY <1>3, <3>1, OverIs
    <3>3. shown = r
      BY <1>5, <3>1, <3>2 DEF ComputeLTV
    <3>4. PICK h \in Nat \ {0} : h = Scale[b.d]
      BY <1>3, ScaleIs
    <3>5. Scale[v.d] = u * S
      <4>1. Scale[CollDecimals + WadDecimals] = Scale[CollDecimals] * Scale[WadDecimals]
        BY ScaleSum, DigitsAre
      <4> QED
        BY <1>1, <1>5, <4>1 DEF Wad
    <3>6. Scale[r.d] = (h * u) * S
      <4>1. v.d \in Nat
        BY DEF Decimal
      <4>2. Scale[b.d + v.d] = Scale[b.d] * Scale[v.d]
        BY <1>3, <4>1, ScaleSum
      <4>3. Scale[r.d] = h * (u * S)
        BY <3>2, <3>4, <3>5, <4>2
      <4> QED
        BY <4>3
    <3>7. PICK q \in Nat :
            /\ q = r.n
            /\ (n * p) * q <= a * (u * S) * (u * S)
            /\ a * (u * S) * (u * S) < (n * p) * q + n * p
      BY <1>0, <1>3, <3>1, <3>2, <3>5, OverCut
    <3>8. PICK L \in Nat :
            /\ L = Wads(shown)
            /\ ((h * u) * S) * L <= q * S
            /\ q * S < ((h * u) * S) * L + (h * u) * S
      BY <1>1, <3>2, <3>3, <3>6, <3>7, RawCut, DigitsAre DEF Wads, Wad
    <3>9. (h * u) * L <= q /\ q < (h * u) * L + h * u
      <4>1. /\ ((h * u) * S) * L = S * ((h * u) * L) /\ q * S = S * q
            /\ ((h * u) * S) * L + (h * u) * S = S * ((h * u) * L + h * u)
        OBVIOUS
      <4>2. (h * u) * L \in Int /\ (h * u) * L + h * u \in Int
        OBVIOUS
      <4> QED
        BY <3>8, <4>1, <4>2, CancelLe, CancelLt
    <3>10. h * w <= a * S /\ a * S <= h * m
      BY <1>0, <1>1, <3>4 DEF Owing
    <3>11. L * t <= m * S /\ w * S < (L + 1) * (t + 1)
      <4>1. t \in Nat \ {0} /\ n \in Nat \ {0} /\ S = u * g
        BY <1>1, <2>1, <2>3, <2>5
      <4>2. S * t <= (n * g) * p /\ (n * g) * p < S * t + S
        BY <2>3
      <4>3. /\ (n * p) * q <= a * (u * S) * (u * S)
            /\ a * (u * S) * (u * S) < (n * p) * q + n * p
        BY <3>7
      <4> QED
        BY <1>3, <3>9, <3>10, <4>1, <4>2, <4>3, RatioCore
    <3>12. RawLTV(C, m, p) = (m * S) \div t /\ RawLTV(C, w, p) = (w * S) \div t
      <4>1. PICK x \in Nat, y \in Nat : x = m * S /\ y = w * S
        BY <1>3, ProductNat
      <4>2. x \in Int /\ x >= 0 /\ y \in Int /\ y >= 0 /\ t \in Nat \ {0}
        BY <2>5, <4>1
      <4>3. Quot(x, t) = x \div t /\ Quot(y, t) = y \div t
        BY <4>2, QuotIs
      <4>4. ~(t <= 0)
        BY <2>5
      <4> QED
        BY <1>1, <1>2, <2>3, <4>1, <4>3, <4>4 DEF RawLTV
    <3>13. L <= RawLTV(C, m, p)
      <4>1. m * S \in Nat /\ t \in Nat \ {0} /\ t * L <= m * S
        BY <1>3, <2>5, <3>11, ProductNat
      <4> QED
        BY <3>12, <4>1, DivMost
    <3>14. RawLTV(C, w, p) * t <= (L + 1) * (t + 1)
      <4>1. PICK x \in Nat, y \in Nat : x = w * S /\ y = x \div t /\ t * y <= x
        <5>1. w * S \in Nat
          BY <1>3, ProductNat
        <5> QED
          BY <2>5, <5>1, DivIs
      <4>2. y * t <= w * S
        BY <4>1
      <4>3. y * t \in Int /\ w * S \in Int /\ (L + 1) * (t + 1) \in Int
        BY <1>3, <4>1
      <4> QED
        BY <3>11, <3>12, <4>1, <4>2, <4>3
    <3> QED
      BY <1>2, <2>3, <2>5, <3>8, <3>13, <3>14
  <2> QED
    BY <2>4, <2>5
<1> QED
  BY <1>4, <1>6, <1>7

LEMMA LiqPriceAgrees ==
  ASSUME NEW c \in Decimal, c.d = CollDecimals,
         NEW b, NEW w, NEW m, Owing(b, w, m),
         NEW lltv \in Decimal, lltv.n > 0, lltv.d = WadDecimals,
         NEW C, C = AtLeastZero(Wads(c)),
         NEW cut, cut = Quot(Wad * Wad, lltv.n * Scale[c.d + b.d]),
         NEW shown, shown = ComputeLiqPriceRate(b, c, lltv)
  PROVE  Between(RawLiquidationPrice(C, w, lltv.n) - cut - 1, shown,
                 RawLiquidationPrice(C, m, lltv.n))
<1>1. PICK u \in Nat \ {0}, g \in Nat \ {0}, S \in Nat \ {0} :
        /\ u = Scale[CollDecimals] /\ g = Scale[WadDecimals - CollDecimals]
        /\ S = Wad /\ S = u * g
  BY CollateralIs
<1>2. PICK l \in Nat \ {0} : l = lltv.n
  BY DEF Decimal
<1>3. b \in Decimal /\ b.n \in Nat /\ b.d \in Nat /\ w \in Nat /\ m \in Nat
  BY DEF Owing, Decimal
<1>0. PICK a \in Nat : a = b.n
  BY <1>3
<1>4. c.n \in Int
  BY DEF Decimal
<1>5. PICK h \in Nat \ {0} : h = Scale[b.d]
  BY <1>3, ScaleIs
<1>6. PICK E \in Nat : E = cut /\ S * S < (l * (h * u)) * E + l * (h * u)
  <2>1. Scale[c.d + b.d] = u * h
    BY <1>1, <1>3, <1>5, ScaleSum, DigitsAre
  <2>2. PICK x \in Nat, y \in Nat \ {0} : x = S * S /\ y = l * (u * h) /\ y = l * (h * u)
    <3>1. l * (u * h) = l * (h * u)
      OBVIOUS
    <3> QED
      BY <3>1
  <2>3. x \in Int /\ x >= 0
    BY <2>2
  <2>4. cut = x \div y
    <3>1. Quot(x, y) = x \div y
      BY <2>2, <2>3, QuotIs
    <3>2. cut = Quot(x, y)
      BY <1>1, <1>2, <2>1, <2>2
    <3> QED
      BY <3>1, <3>2
  <2> QED
    BY <2>2, <2>4, DivIs
<1>7. CASE c.n <= 0
  <2>1. C = 0
    BY <1>7, CollateralIs
  <2>2. RawLiquidationPrice(C, w, l) = 0 /\ RawLiquidationPrice(C, m, l) = 0
    BY <2>1 DEF RawLiquidationPrice
  <2>3. shown = Zero
    BY <1>7 DEF ComputeLiqPriceRate
  <2>4. Wads(shown) = 0
    <3>1. PICK z \in Nat \ {0} : z = Scale[WadDecimals - 0]
      BY ScaleIs, DigitsAre
    <3>2. Raw(Zero, WadDecimals) = Zero.n * z
      <4>1. Zero.d <= WadDecimals /\ WadDecimals - Zero.d = WadDecimals - 0
        BY UnitsAre, DigitsAre
      <4>2. Raw(Zero, WadDecimals) = Zero.n * Scale[WadDecimals - Zero.d]
        BY <4>1, RawExact, UnitsAre, DigitsAre
      <4> QED
        BY <3>1, <4>1, <4>2
    <3> QED
      BY <2>3, <3>1, <3>2, UnitsAre DEF Wads
  <2>5. AtLeastZero(Wads(shown)) = 0
    BY <2>4 DEF AtLeastZero
  <2> QED
    BY <1>2, <1>6, <2>2, <2>5 DEF Between
<1>8. CASE c.n > 0
  <2>1. PICK n \in Nat \ {0} : n = c.n
    BY <1>4, <1>8
  <2>2. C = n * g
    BY <1>1, <1>8, <2>1, CollateralIs
  <2>3. PICK x \in Decimal : x = Over(b, c) /\ x.d = b.d + c.d /\ x.n >= 0
    BY <1>3, <1>8, OverIs
  <2>4. PICK y \in Decimal : y = Over(x, lltv) /\ y.d = x.d + WadDecimals /\ y.n >= 0
    BY <2>3, OverIs
  <2>5. shown = RoundDown(y, WadDecimals)
    <3>1. ~(c.n <= 0)
      BY <1>4, <1>8
    <3> QED
      BY <2>3, <2>4, <3>1 DEF ComputeLiqPriceRate
  <2>6. PICK q \in Nat :
          /\ q = x.n /\ n * q <= a * u * u /\ a * u * u < n * q + n
    <3>1. Scale[c.d] = u
      BY <1>1
    <3> QED
      <4>1. /\ Over(b, c).n \in Nat
            /\ c.n * Over(b, c).n <= b.n * Scale[c.d] * Scale[c.d]
            /\ b.n * Scale[c.d] * Scale[c.d] < c.n * Over(b, c).n + c.n
        BY <1>3, <1>8, OverCut
      <4> QED
        BY <1>0, <2>1, <2>3, <3>1, <4>1
  <2>7. PICK r \in Nat :
          /\ r = y.n /\ l * r <= q * S * S /\ q * S * S < l * r + l
    BY <1>1, <1>2, <2>3, <2>4, <2>6, OverCut DEF Wad
  <2>8. PICK L \in Nat :
          /\ L = Raw(y, WadDecimals)
          /\ ((h * u) * S) * L <= r * S
          /\ r * S < ((h * u) * S) * L + (h * u) * S
    <3>1. Scale[y.d] = (h * u) * S
      <4>1. Scale[b.d + c.d] = h * u
        BY <1>1, <1>3, <1>5, ScaleSum, DigitsAre
      <4>2. b.d + c.d \in Nat
        BY <1>3, DigitsAre
      <4>3. Scale[(b.d + c.d) + WadDecimals] = Scale[b.d + c.d] * Scale[WadDecimals]
        BY <4>2, ScaleSum, DigitsAre
      <4> QED
        BY <1>1, <2>3, <2>4, <4>1, <4>3 DEF Wad
    <3> QED
      BY <1>1, <2>4, <2>7, <3>1, RawCut, DigitsAre DEF Wad
  <2>9. (h * u) * L <= r /\ r < (h * u) * L + h * u
    <3>1. /\ ((h * u) * S) * L = S * ((h * u) * L) /\ r * S = S * r
          /\ ((h * u) * S) * L + (h * u) * S = S * ((h * u) * L + h * u)
      OBVIOUS
    <3>2. (h * u) * L \in Int /\ (h * u) * L + h * u \in Int
      OBVIOUS
    <3> QED
      BY <2>8, <3>1, <3>2, CancelLe, CancelLt
  <2>10. h * w <= a * S /\ a * S <= h * m
    BY <1>0, <1>1, <1>5 DEF Owing
  <2>11. /\ (n * g) * (l * L) <= m * S * S
         /\ \A R \in Nat : (n * g) * (l * R) <= w * S * S => R <= L + E + 1
    <3>1. n \in Nat \ {0} /\ S = u * g /\ S * S < (l * (h * u)) * E + l * (h * u)
      BY <1>1, <1>6, <2>1
    <3>2. n * q <= a * u * u /\ a * u * u < n * q + n
      BY <2>6
    <3>3. l * r <= q * S * S /\ q * S * S < l * r + l
      BY <2>7
    <3> QED
      BY <1>3, <2>9, <2>10, <3>1, <3>2, <3>3, LiqCore
  <2>12. AtLeastZero(Wads(shown)) = L
    <3>1. PICK s \in Decimal : s = shown /\ s.n = L /\ s.d = WadDecimals
      BY <2>4, <2>5, <2>8, RoundDownIs, DigitsAre DEF Raw
    <3>2. Raw(s, WadDecimals) = L * Scale[WadDecimals - WadDecimals]
      BY <3>1, RawExact, DigitsAre
    <3>3. WadDecimals - WadDecimals = 0
      BY DigitsAre
    <3>4. Wads(shown) = L
      BY <3>1, <3>2, <3>3, ScaleIs DEF Wads
    <3> QED
      BY <3>4 DEF AtLeastZero
  <2>13. ASSUME NEW k \in Nat
         PROVE  /\ RawLiquidationPrice(C, k, l) \in Nat
                /\ (n * g) * (l * RawLiquidationPrice(C, k, l)) <= k * S * S
                /\ \A R \in Nat : (n * g) * (l * R) <= k * S * S
                                   => R <= RawLiquidationPrice(C, k, l)
    <3>1. PICK o \in Nat : o = k * S * S
      OBVIOUS
    <3>2. PICK d \in Nat \ {0} : d = n * g
      OBVIOUS
    <3>3. PICK e \in Nat : e = Quot(o, d) /\ e = o \div d /\ d * e <= o
      <4>1. o \in Int /\ o >= 0
        BY <3>1
      <4>2. Quot(o, d) = o \div d
        BY <3>2, <4>1, QuotIs
      <4> QED
        BY <3>1, <3>2, <4>2, DivIs
    <3>4. PICK f \in Nat : f = Quot(e, l) /\ f = e \div l /\ l * f <= e
      <4>1. e \in Int /\ e >= 0
        BY <3>3
      <4>2. Quot(e, l) = e \div l
        BY <4>1, QuotIs
      <4> QED
        BY <3>3, <4>2, DivIs
    <3>5. ~(d <= 0)
      BY <3>2
    <3>6. RawLiquidationPrice(C, k, l) = f
      BY <1>1, <2>2, <3>1, <3>2, <3>3, <3>4, <3>5 DEF RawLiquidationPrice
    <3>7. d * (l * f) <= o
      <4>1. d * (l * f) <= d * e
        BY <3>2, <3>3, <3>4, Times2
      <4>2. d * e \in Int /\ d * (l * f) \in Int
        BY <3>2, <3>3, <3>4
      <4> QED
        BY <3>1, <3>3, <4>1, <4>2
    <3>8. ASSUME NEW R \in Nat, d * (l * R) <= o PROVE R <= f
      <4>1. l * R \in Int
        OBVIOUS
      <4>2. l * R <= e
        BY <3>1, <3>2, <3>3, <3>8, <4>1, DivMost
      <4> QED
        BY <3>3, <3>4, <4>2, DivMost
    <3> QED
      BY <3>1, <3>2, <3>4, <3>6, <3>7, <3>8
  <2>14. L <= RawLiquidationPrice(C, m, l)
    BY <1>3, <2>11, <2>13
  <2>15. RawLiquidationPrice(C, w, l) \in Nat /\ RawLiquidationPrice(C, w, l) <= L + E + 1
    BY <1>3, <2>11, <2>13
  <2> QED
    BY <1>2, <1>6, <2>12, <2>14, <2>15 DEF Between
<1> QED
  BY <1>4, <1>7, <1>8

(* The margin of an LLTV with few digits.                                  *)
LEMMA MarginIs ==
  ASSUME NEW l \in Nat \ {0}, (l * Threshold.n) % Scale[Threshold.d] = 0
  PROVE  /\ Threshold \in Decimal /\ Threshold.n \in Nat \ {0} /\ Threshold.d \in Nat
         /\ Scale[Threshold.d] \in Nat \ {0}
         /\ Margin(l) \in Nat \ {0}
         /\ Margin(l) * Scale[Threshold.d] = l * Threshold.n
<1>1. Threshold \in Decimal /\ Threshold.n \in Nat \ {0} /\ Threshold.d \in Nat
  BY PositionAssumption DEF Decimal
<1>2. PICK T \in Nat \ {0} : T = Scale[Threshold.d]
  BY <1>1, ScaleIs
<1>3. PICK x \in Nat \ {0} : x = l * Threshold.n
  <2>1. PICK t \in Nat \ {0} : t = Threshold.n
    BY <1>1
  <2>2. l * t \in Nat \ {0}
    OBVIOUS
  <2> QED
    BY <2>1, <2>2
<1>4. PICK q \in Nat : q = x \div T /\ x = T * q
  <2>1. x = T * (x \div T) + (x % T)
    BY <1>2, <1>3
  <2>2. x \div T \in Nat
    BY <1>2, <1>3, DivIs
  <2>3. x % T = 0
    BY <1>2, <1>3
  <2> QED
    BY <2>1, <2>2, <2>3
<1>5. Margin(l) = q
  <2>1. x \in Int /\ x >= 0
    BY <1>3
  <2>2. Quot(x, T) = x \div T
    BY <1>2, <2>1, QuotIs
  <2> QED
    BY <1>2, <1>3, <1>4, <2>2 DEF Margin
<1>6. q # 0
  BY <1>2, <1>3, <1>4
<1> QED
  BY <1>1, <1>2, <1>3, <1>4, <1>5, <1>6

LEMMA LoanableAgrees ==
  ASSUME NEW c \in Decimal, c.d = CollDecimals, c.n >= 0,
         NEW b, NEW w, NEW m, Owing(b, w, m),
         NEW price \in Decimal, price.n > 0, price.d = WadDecimals,
         NEW lltv \in Decimal, lltv.n > 0, lltv.d = WadDecimals,
         (lltv.n * Threshold.n) % Scale[Threshold.d] = 0,
         NEW C, C = AtLeastZero(Wads(c)),
         NEW shown, shown = ComputeLoanable(c, b, Times(lltv, Threshold), price)
  PROVE  Between(RawLoanable(C, m, price.n, lltv.n) - Scale[WadDecimals - LoanDecimals] + 1,
                 shown, RawLoanable(C, w, price.n, lltv.n) + Scale[LoanDecimals] - 1)
<1>1. PICK u \in Nat \ {0}, g \in Nat \ {0}, S \in Nat \ {0} :
        /\ u = Scale[CollDecimals] /\ g = Scale[WadDecimals - CollDecimals]
        /\ S = Wad /\ S = u * g
  BY CollateralIs
<1>2. PICK p \in Nat \ {0}, l \in Nat \ {0} : p = price.n /\ l = lltv.n
  BY DEF Decimal
<1>3. b \in Decimal /\ b.n \in Nat /\ b.d \in Nat /\ w \in Nat /\ m \in Nat
  BY DEF Owing, Decimal
<1>4. PICK n \in Nat, a \in Nat : n = c.n /\ a = b.n
  BY <1>3 DEF Decimal
<1>5. PICK T \in Nat \ {0}, M \in Nat \ {0} :
        T = Scale[Threshold.d] /\ M = Margin(l) /\ M * T = l * Threshold.n
  BY <1>2, MarginIs
<1>6. Threshold \in Decimal /\ Threshold.n \in Nat \ {0} /\ Threshold.d \in Nat
  BY PositionAssumption DEF Decimal
<1>7. PICK h \in Nat \ {0} : h = Scale[b.d]
  BY <1>3, ScaleIs
<1>8. PICK s \in Nat \ {0}, z \in Nat \ {0} :
        s = Scale[LoanDecimals] /\ z = Scale[WadDecimals - LoanDecimals] /\ S = s * z
  <2>1. LoanDecimals \in Nat /\ LoanDecimals <= WadDecimals
    BY DigitsAssumption
  <2>2. WadDecimals - LoanDecimals \in Nat
        /\ Wad = Scale[LoanDecimals] * Scale[WadDecimals - LoanDecimals]
    BY <2>1, InWadsIs
  <2> QED
    BY <1>1, <2>1, <2>2, ScaleIs
<1>9. C = n * g
  <2>1. n = 0 => n * g = 0
    BY <1>1
  <2> QED
    BY <1>1, <1>4, <2>1, CollateralIs
<1>10. PICK v \in Decimal :
         /\ v = Times(Times(c, Times(lltv, Threshold)), price)
         /\ v.n = (n * (M * T)) * p
         /\ v.d = CollDecimals + (WadDecimals + Threshold.d) + WadDecimals
  <2>1. PICK i \in Decimal : /\ i = Times(lltv, Threshold)
                             /\ i.n = M * T /\ i.d = WadDecimals + Threshold.d
    BY <1>2, <1>5, <1>6, TimesIs
  <2>2. PICK j \in Decimal : /\ j = Times(c, i)
                             /\ j.n = n * (M * T) /\ j.d = CollDecimals + i.d
    BY <1>4, <2>1, TimesIs
  <2> QED
    BY <1>2, <2>1, <2>2, TimesIs
<1>11. Scale[v.d] = u * S * T * S
  <2>1. Scale[WadDecimals + Threshold.d] = S * T
    <3>1. Scale[WadDecimals + Threshold.d] = Scale[WadDecimals] * Scale[Threshold.d]
      BY <1>6, ScaleSum, DigitsAre
    <3> QED
      BY <1>1, <1>5, <3>1 DEF Wad
  <2>2. PICK i \in Nat : i = WadDecimals + Threshold.d
    BY <1>6, DigitsAre
  <2>3. Scale[CollDecimals + i] = Scale[CollDecimals] * Scale[i]
    BY <2>2, ScaleSum, DigitsAre
  <2>4. PICK j \in Nat : j = CollDecimals + i
    BY <2>2, DigitsAre
  <2>5. Scale[j + WadDecimals] = Scale[j] * Scale[WadDecimals]
    BY <2>4, ScaleSum, DigitsAre
  <2>6. Scale[v.d] = (u * (S * T)) * S
    BY <1>1, <1>10, <2>1, <2>2, <2>3, <2>4, <2>5 DEF Wad
  <2> QED
    BY <2>6
<1>12. PICK o \in Nat \ {0}, e \in Nat \ {0}, D \in Nat, H \in Nat \ {0} :
         /\ D = MoreDigits(v, b) /\ H = Scale[D]
         /\ H = (u * S * T * S) * o /\ H = h * e
         /\ Minus(v, b) = Dec(v.n * o - b.n * e, D)
  <2>1. MoreDigits(v, b) \in Nat
    BY <1>3, MoreDigitsIs
  <2> QED
    <3>1. PICK o \in Nat \ {0}, e \in Nat \ {0} :
            /\ Scale[MoreDigits(v, b)] = Scale[v.d] * o
            /\ Scale[MoreDigits(v, b)] = Scale[b.d] * e
            /\ Minus(v, b) = Dec(v.n * o - b.n * e, MoreDigits(v, b))
      BY <1>3, Digitwise
    <3>2. Scale[MoreDigits(v, b)] \in Nat \ {0}
      BY <2>1, ScaleIs
    <3> QED
      BY <1>7, <1>11, <2>1, <3>1, <3>2
<1>13. PICK N \in Int : N = ((n * (M * T)) * p) * o - a * e
  OBVIOUS
<1>14. PICK x \in Decimal : x = Minus(v, b) /\ x.n = N /\ x.d = D
  BY <1>4, <1>10, <1>12, <1>13, DecIs
<1>15. PICK k \in Nat \ {0} : H = k * s
  <2>1. v.d <= D
    <3>1. D - v.d \in Nat /\ v.d \in Nat
      BY <1>3, <1>12, MoreDigitsIs DEF Decimal
    <3> QED
      BY <1>12, <3>1
  <2>2. PICK i \in Nat : D = LoanDecimals + i
    <3>1. LoanDecimals <= D
      BY <1>6, <1>10, <2>1, DigitsAssumption, DigitsAre
    <3>2. D - LoanDecimals \in Nat /\ D = LoanDecimals + (D - LoanDecimals)
      BY <1>12, <3>1, DigitsAre
    <3> QED
      BY <3>2
  <2>3. Scale[LoanDecimals + i] = Scale[LoanDecimals] * Scale[i]
    BY <2>2, ScaleSum, DigitsAre
  <2>4. PICK k \in Nat \ {0} : k = Scale[i]
    BY <2>2, ScaleIs
  <2>5. H = s * k
    BY <1>8, <1>12, <2>2, <2>3, <2>4
  <2>6. s * k = k * s
    OBVIOUS
  <2> QED
    BY <2>4, <2>5, <2>6
<1>16. PICK r \in Int :
         /\ Wads(shown) = r * z
         /\ N >= 0 => r \in Nat /\ k * r <= N /\ N < k * r + k
         /\ N < 0 => r <= 0
  <2>1. shown = RoundDown(x, LoanDecimals)
    BY <1>10, <1>14 DEF ComputeLoanable
  <2>2. PICK r \in Int : r = Raw(x, LoanDecimals)
    BY <1>14, RoundDownIs, DigitsAre
  <2>3. shown \in Decimal /\ shown.n = r /\ shown.d = LoanDecimals
    <3>1. RoundDown(x, LoanDecimals) \in Decimal /\ RoundDown(x, LoanDecimals).d = LoanDecimals
      BY <1>14, RoundDownIs, DigitsAre
    <3>2. RoundDown(x, LoanDecimals).n = r
      BY <2>2 DEF Raw
    <3> QED
      BY <2>1, <3>1, <3>2
  <2>4. Wads(shown) = r * z
    BY <1>8, <2>3, RawExact, DigitsAre, DigitsAssumption DEF Wads
  <2>5. ASSUME N >= 0 PROVE r \in Nat /\ k * r <= N /\ N < k * r + k
    <3>1. /\ r \in Nat /\ H * r <= N * s /\ N * s < H * r + H
      BY <1>8, <1>12, <1>14, <2>2, <2>5, RawCut, DigitsAre
    <3>2. H * r = s * (k * r) /\ H * r + H = s * (k * r + k) /\ N * s = s * N
      BY <1>15
    <3>3. k * r \in Int /\ k * r + k \in Int
      OBVIOUS
    <3> QED
      BY <3>1, <3>2, <3>3, CancelLe, CancelLt
  <2>6. N < 0 => r <= 0
    BY <1>14, <2>2, RawBelow, DigitsAre
  <2> QED
    BY <2>4, <2>5, <2>6
<1>17. h * w <= a * S /\ a * S <= h * m
  BY <1>1, <1>4, <1>7 DEF Owing
<1>18. /\ \A i \in Nat : k * i <= N => S * (S * (i * z + w)) <= (n * g) * M * p
       /\ \A y \in Nat \ {0} : S * (S * (y + m)) <= (n * g) * M * p =>
            /\ N > 0
            /\ \A i \in Nat : N < k * i + k => y <= i * z + z - 1
  <2>1. S = u * g /\ S = s * z /\ H = (u * S * T * S) * o /\ H = h * e /\ H = k * s
        /\ N = (n * (M * T) * p) * o - a * e
    BY <1>1, <1>8, <1>12, <1>13, <1>15
  <2> QED
    BY <1>3, <1>17, <2>1, LoanableCore
<1>19. PICK most \in Nat :
         /\ most = Quot(Quot(C * M * p, Wad), Wad)
         /\ S * (S * most) <= (n * g) * M * p
         /\ \A i \in Nat : S * (S * i) <= (n * g) * M * p => i <= most
  <2>1. PICK j \in Nat : j = (n * g) * M * p
    OBVIOUS
  <2>2. PICK q \in Nat : q = j \div S /\ S * q <= j
    BY <2>1, DivIs
  <2>3. PICK t \in Nat : t = q \div S /\ S * t <= q
    BY <2>2, DivIs
  <2>4. Quot(j, S) = q /\ Quot(q, S) = t
    <3>1. j \in Int /\ j >= 0 /\ q \in Int /\ q >= 0
      BY <2>1, <2>2
    <3> QED
      BY <2>2, <2>3, <3>1, QuotIs
  <2>5. t = Quot(Quot(C * M * p, Wad), Wad)
    BY <1>1, <1>9, <2>1, <2>4
  <2>6. S * (S * t) <= j
    <3>1. S * (S * t) <= S * q
      BY <2>2, <2>3, Times2
    <3>2. S * (S * t) \in Int /\ S * q \in Int
      BY <2>2, <2>3
    <3> QED
      BY <2>1, <2>2, <3>1, <3>2
  <2>7. ASSUME NEW i \in Nat, S * (S * i) <= j PROVE i <= t
    <3>1. S * i \in Int
      OBVIOUS
    <3>2. S * i <= q
      BY <2>1, <2>2, <2>7, <3>1, DivMost
    <3> QED
      BY <2>2, <2>3, <3>2, DivMost
  <2> QED
    BY <2>1, <2>3, <2>5, <2>6, <2>7
<1>20. ASSUME NEW i \in Nat
       PROVE  /\ RawLoanable(C, i, p, l) \in Nat
              /\ RawLoanable(C, i, p, l) > 0 => RawLoanable(C, i, p, l) + i <= most
              /\ most <= RawLoanable(C, i, p, l) + i + s - 1
  <2>1. PICK left \in Nat : left = IF most > i THEN most - i ELSE 0
    BY <1>19
  <2>2. PICK q \in Nat : q = left \div s /\ s * q <= left /\ left < s * q + s
    BY <2>1, DivIs
  <2>3. RawLoanable(C, i, p, l) = q * s
    BY <1>5, <1>8, <1>19, <2>1, <2>2 DEF RawLoanable
  <2>4. q * s \in Nat /\ q * s = s * q
    BY <2>2, ProductNat
  <2>5. left <= q * s + s - 1
    BY <2>1, <2>2, <2>4
  <2>6. q * s > 0 => most > i /\ q * s <= most - i
    BY <1>19, <2>1, <2>2, <2>4
  <2>7. most <= left + i
    BY <1>19, <2>1
  <2> QED
    BY <1>19, <2>3, <2>4, <2>5, <2>6, <2>7
<1>21. PICK i \in Nat, j \in Nat :
         i = RawLoanable(C, m, p, l) /\ j = RawLoanable(C, w, p, l)
  BY <1>3, <1>20
<1>22. PICK y \in Nat : y = AtLeastZero(Wads(shown)) /\ (N >= 0 => y = r * z)
                        /\ (N < 0 => y = 0)
  <2>1. N >= 0 => r * z \in Nat
    BY <1>16, ProductNat
  <2>2. N < 0 => r * z <= 0
    <3>1. N < 0 => z * r <= z * 0
      BY <1>16, Times2
    <3> QED
      BY <1>16, <3>1
  <2> QED
    BY <1>16, <2>1, <2>2 DEF AtLeastZero
<1>23. y <= j + s - 1
  <2>1. CASE N < 0
    BY <1>22, <2>1
  <2>2. CASE N >= 0
    <3>1. r * z + w <= most
      <4>1. S * (S * (r * z + w)) <= (n * g) * M * p /\ r * z + w \in Nat
        BY <1>3, <1>16, <1>18, <2>2
      <4> QED
        BY <1>19, <4>1
    <3>2. most <= j + w + s - 1
      BY <1>3, <1>20, <1>21
    <3> QED
      BY <1>3, <1>22, <2>2, <3>1, <3>2
  <2> QED
    BY <2>1, <2>2
<1>24. i - z + 1 <= y
  <2>1. CASE i = 0
    BY <1>22, <2>1
  <2>2. CASE i # 0
    <3>1. i + m <= most
      BY <1>3, <1>20, <1>21, <2>2
    <3>2. S * (S * (i + m)) <= (n * g) * M * p
      <4>1. S * (S * (i + m)) <= S * (S * most)
        <5>1. S * (i + m) <= S * most
          BY <1>3, <1>19, <3>1, Times2
        <5> QED
          <6>1. S * (i + m) \in Int /\ S * most \in Int /\ S \in Nat
            BY <1>3, <1>19
          <6> QED
            BY <5>1, <6>1, Times2
      <4>2. S * (S * (i + m)) \in Int /\ S * (S * most) \in Int /\ (n * g) * M * p \in Int
        BY <1>3, <1>19
      <4> QED
        BY <1>19, <4>1, <4>2
    <3>3. N > 0 /\ \A t \in Nat : N < k * t + k => i <= t * z + z - 1
      BY <1>18, <2>2, <3>2
    <3>4. i <= r * z + z - 1
      BY <1>16, <3>3
    <3> QED
      BY <1>16, <1>22, <3>3, <3>4
  <2> QED
    BY <2>1, <2>2
<1> QED
  BY <1>2, <1>8, <1>21, <1>22, <1>23, <1>24 DEF Between

(* A wad has more digits than the margin, and at least two units.          *)
LEMMA WadIsLarge ==
  Wad \in Nat /\ Wad >= 2 /\ Scale[Threshold.d] <= Wad
<1>1. Threshold.d \in Nat /\ Threshold.d < WadDecimals /\ WadDecimals \in Nat
  BY PositionAssumption, DigitsAre DEF Decimal
<1>2. PICK i \in Nat : WadDecimals = Threshold.d + (i + 1)
  <2>1. PICK t \in Nat, k \in Nat : t = Threshold.d /\ k = WadDecimals /\ t < k
    BY <1>1
  <2>2. k - t - 1 \in Nat /\ k = t + ((k - t - 1) + 1)
    BY <2>1
  <2> QED
    BY <2>1, <2>2
<1>3. PICK T \in Nat \ {0}, f \in Nat \ {0} : T = Scale[Threshold.d] /\ f = Scale[i]
  BY <1>1, ScaleIs
<1>4. Base \in Nat /\ Base >= 2
  BY DigitsAssumption
<1>5. Scale[i + 1] = Base * f
  BY <1>3, ScaleIs
<1>6. PICK e \in Nat : e = Base * f /\ e >= 2
  <2>1. f * 2 <= f * Base
    BY <1>4, Times2
  <2> QED
    BY <1>3, <1>4, <2>1
<1>7. Scale[Threshold.d + (i + 1)] = Scale[Threshold.d] * Scale[i + 1]
  <2>1. PICK j \in Nat : j = i + 1
    OBVIOUS
  <2> QED
    BY <1>1, <2>1, ScaleSum
<1>8. Wad = T * e
  BY <1>2, <1>3, <1>5, <1>6, <1>7 DEF Wad
<1>9. T * 1 <= T * e /\ e * 1 <= e * T
  BY <1>3, <1>6, Times2
<1> QED
  BY <1>3, <1>6, <1>8, <1>9

(* Of a debt that keeps the digits of three wads.                          *)
LEMMA ManyDigits ==
  ASSUME NEW d \in Nat, 3 * WadDecimals <= d
  PROVE  Wad * Wad * Wad <= Scale[d]
<1>1. PICK i \in Nat : d = (WadDecimals + WadDecimals + WadDecimals) + i
  <2>1. d - (WadDecimals + WadDecimals + WadDecimals) \in Nat
    BY DigitsAre
  <2> QED
    BY <2>1, DigitsAre
<1>2. PICK S \in Nat \ {0}, f \in Nat \ {0} : S = Wad /\ f = Scale[i]
  BY ScaleIs, DigitsAre
<1>3. Scale[WadDecimals + WadDecimals] = S * S
  BY <1>2, ScaleSum, DigitsAre DEF Wad
<1>4. PICK j \in Nat : j = WadDecimals + WadDecimals
  BY DigitsAre
<1>5. Scale[j + WadDecimals] = Scale[j] * Scale[WadDecimals]
  BY <1>4, ScaleSum, DigitsAre
<1>6. Scale[(j + WadDecimals) + i] = Scale[j + WadDecimals] * Scale[i]
  BY <1>4, ScaleSum, DigitsAre
<1>7. PICK e \in Nat : e = S * S * S /\ Scale[d] = e * f
  BY <1>1, <1>2, <1>3, <1>4, <1>5, <1>6 DEF Wad
<1>8. e * 1 <= e * f
  <2>1. 1 <= f /\ f \in Int /\ e \in Nat
    BY <1>2, <1>7
  <2> QED
    BY <2>1, Times2
<1> QED
  BY <1>2, <1>7, <1>8

(* What the bigints let go of k units of collateral: whole units, of what  *)
(* the debt leaves.                                                        *)
LetsGo(k, g, debt, p, l) ==
  \E e \in Nat, least \in Nat :
    /\ RawWithdrawable(k * g, debt, p, l) = e * g
    /\ (p * Margin(l)) * least <= debt * Wad * Wad
    /\ debt * Wad * Wad < (p * Margin(l)) * (least + 1)
    /\ e > 0 => e * g <= k * g - least
    /\ \A f \in Nat : f * g <= k * g - least => f <= e

LEMMA RawWithdrawableIs ==
  ASSUME NEW k \in Nat, NEW debt \in Nat, NEW p \in Nat \ {0}, NEW l \in Nat \ {0},
         (l * Threshold.n) % Scale[Threshold.d] = 0,
         NEW g \in Nat \ {0}, g = Scale[WadDecimals - CollDecimals]
  PROVE  LetsGo(k, g, debt, p, l)
<1>1. PICK M \in Nat \ {0}, S \in Nat \ {0} : M = Margin(l) /\ S = Wad
  BY MarginIs, DigitsAre
<1>2. PICK x \in Nat : x = debt * S * S
  OBVIOUS
<1>3. PICK q \in Nat : q = Quot(x, p) /\ p * q <= x /\ x < p * q + p
  <2>1. x \in Int /\ x >= 0
    BY <1>2
  <2>2. Quot(x, p) = x \div p
    BY <2>1, QuotIs
  <2> QED
    BY <1>2, <2>2, DivIs
<1>4. PICK r \in Nat : r = Quot(q, M) /\ M * r <= q /\ q < M * r + M
  <2>1. q \in Int /\ q >= 0
    BY <1>3
  <2>2. Quot(q, M) = q \div M
    BY <1>1, <2>1, QuotIs
  <2> QED
    BY <1>1, <1>3, <2>2, DivIs
<1>5. (p * M) * r <= x /\ x < (p * M) * (r + 1)
  <2>1. p * (M * r) <= p * q
    BY <1>1, <1>3, <1>4, Times2
  <2>2. p * (q + 1) <= p * (M * (r + 1))
    <3>1. q + 1 <= M * (r + 1)
      BY <1>1, <1>3, <1>4
    <3> QED
      BY <1>1, <1>3, <1>4, <3>1, Times2
  <2>3. /\ p * (M * r) = (p * M) * r /\ p * (M * (r + 1)) = (p * M) * (r + 1)
        /\ p * (q + 1) = p * q + p
    BY <1>1, <1>3, <1>4
  <2>4. /\ (p * M) * r \in Int /\ (p * M) * (r + 1) \in Int /\ p * q \in Int
    BY <1>1, <1>3, <1>4
  <2> QED
    BY <1>2, <1>3, <2>1, <2>2, <2>3, <2>4
<1>6. PICK K \in Nat : K = k * g
  BY ProductNat
<1>7. PICK left \in Nat : left = IF K > r THEN K - r ELSE 0
  BY <1>4, <1>6
<1>8. PICK e \in Nat : e = left \div g /\ g * e <= left /\ left < g * e + g
  BY <1>7, DivIs
<1>9. RawWithdrawable(K, debt, p, l) = e * g
  <2>1. CASE debt # 0
    <3>1. r = Quot(Quot(debt * Wad * Wad, p), Margin(l))
      BY <1>1, <1>2, <1>3, <1>4
    <3> QED
      BY <1>7, <1>8, <2>1, <3>1 DEF RawWithdrawable
  <2>2. CASE debt = 0
    <3>1. x = 0
      BY <1>1, <1>2, <2>2
    <3>2. q = 0
      <4>1. p * q <= p * 0
        BY <1>2, <1>3, <3>1
      <4>2. q <= 0
        BY <1>3, <4>1, CancelLe
      <4> QED
        BY <1>3, <4>2
    <3>3. r = 0
      <4>1. M * r <= M * 0
        BY <1>1, <1>3, <1>4, <3>2
      <4>2. r <= 0
        BY <1>1, <1>4, <4>1, CancelLe
      <4> QED
        BY <1>4, <4>2
    <3>4. left = g * k /\ K = g * k
      BY <1>6, <1>7, <3>3
    <3>5. k = e
      <4>1. g * k <= left /\ left < g * k + g /\ k \in Int
        BY <3>4
      <4> QED
        BY <1>7, <1>8, <4>1, DivUnique
    <3>6. RawWithdrawable(K, debt, p, l) = K
      BY <2>2 DEF RawWithdrawable
    <3> QED
      BY <1>6, <3>5, <3>6
  <2> QED
    BY <2>1, <2>2
<1>10. e > 0 => e * g <= K - r
  <2>1. ASSUME e > 0 PROVE e * g <= K - r
    <3>1. g * 1 <= g * e /\ g * e = e * g /\ g * e \in Nat
      BY <1>8, <2>1, Times2, ProductNat
    <3> QED
      BY <1>4, <1>6, <1>7, <1>8, <3>1
  <2> QED
    BY <2>1
<1>11. ASSUME NEW i \in Nat, i * g <= K - r PROVE i <= e
  <2>1. i * g \in Nat /\ i * g = g * i
    BY ProductNat
  <2>2. g * i <= left /\ i \in Int
    BY <1>4, <1>6, <1>7, <1>11, <2>1
  <2> QED
    BY <1>7, <1>8, <2>2, DivMost
<1> QED
  BY <1>1, <1>2, <1>4, <1>5, <1>6, <1>8, <1>9, <1>10, <1>11 DEF LetsGo

(* Of n units of collateral and a debt, after v more units have left.      *)
LEMMA WithdrawableAgrees ==
  ASSUME NEW c \in Decimal, c.d = CollDecimals, c.n >= 0,
         NEW borrowed, NEW repay, NEW b, b = Minus(borrowed, repay),
         NEW w, NEW m, Owing(b, w, m), b.n = 0 \/ 3 * WadDecimals <= b.d,
         NEW price \in Decimal, price.n > 0, price.d = WadDecimals,
         NEW lltv \in Decimal, lltv.n > 0, lltv.d = WadDecimals,
         (lltv.n * Threshold.n) % Scale[Threshold.d] = 0,
         NEW shown,
         shown = ComputeWithdrawable(c, borrowed, repay, lltv, price, CollDecimals),
         NEW g \in Nat \ {0}, g = Scale[WadDecimals - CollDecimals]
  PROVE  /\ shown \in Decimal /\ shown.d = CollDecimals
         /\ \A v \in Nat :
              LET K == IF c.n > v THEN (c.n - v) * g ELSE 0
                  y == IF shown.n > v THEN (shown.n - v) * g ELSE 0
              IN /\ RawWithdrawable(K, m, price.n, lltv.n) - g <= y
                 /\ y <= RawWithdrawable(K, w, price.n, lltv.n)
<1>1. PICK u \in Nat \ {0}, S \in Nat \ {0} :
        u = Scale[CollDecimals] /\ S = Wad /\ S = u * g
  BY CollateralIs
<1>2. PICK p \in Nat \ {0}, l \in Nat \ {0} : p = price.n /\ l = lltv.n
  BY DEF Decimal
<1>3. b \in Decimal /\ b.n \in Nat /\ b.d \in Nat /\ w \in Nat /\ m \in Nat
  BY DEF Owing, Decimal
<1>4. PICK n \in Nat, a \in Nat : n = c.n /\ a = b.n
  BY <1>3 DEF Decimal
<1>5. PICK T \in Nat \ {0}, M \in Nat \ {0}, t \in Nat \ {0} :
        T = Scale[Threshold.d] /\ M = Margin(l) /\ t = Threshold.n /\ M * T = l * t
  BY <1>2, MarginIs
<1>6. Threshold \in Decimal /\ Threshold.n \in Nat \ {0} /\ Threshold.d \in Nat
  BY PositionAssumption DEF Decimal
<1>7. PICK h \in Nat \ {0} : h = Scale[b.d]
  BY <1>3, ScaleIs
<1>8. PICK x \in Decimal : x = Over(b, price) /\ x.d = b.d + WadDecimals /\ x.n >= 0
  BY <1>3, OverIs
<1>9. PICK z \in Decimal : z = Over(x, lltv) /\ z.d = x.d + WadDecimals /\ z.n >= 0
  BY <1>8, OverIs
<1>10. PICK o \in Decimal : o = Over(z, Threshold) /\ o.d = z.d + Threshold.d /\ o.n >= 0
  <2>1. Threshold.n > 0
    BY <1>6
  <2> QED
    BY <1>6, <1>9, <2>1, OverIs
<1>11. PICK q \in Nat : q = x.n /\ p * q <= a * S * S /\ a * S * S < p * q + p
  <2>1. /\ Over(b, price).n \in Nat
        /\ price.n * Over(b, price).n <= b.n * Scale[price.d] * Scale[price.d]
        /\ b.n * Scale[price.d] * Scale[price.d] < price.n * Over(b, price).n + price.n
    BY <1>3, OverCut
  <2>2. Scale[price.d] = S
    BY <1>1 DEF Wad
  <2> QED
    BY <1>2, <1>4, <1>8, <2>1, <2>2
<1>12. PICK r \in Nat : r = z.n /\ l * r <= q * S * S /\ q * S * S < l * r + l
  <2>1. /\ Over(x, lltv).n \in Nat
        /\ lltv.n * Over(x, lltv).n <= x.n * Scale[lltv.d] * Scale[lltv.d]
        /\ x.n * Scale[lltv.d] * Scale[lltv.d] < lltv.n * Over(x, lltv).n + lltv.n
    BY <1>8, OverCut
  <2>2. Scale[lltv.d] = S
    BY <1>1 DEF Wad
  <2> QED
    BY <1>2, <1>9, <1>11, <2>1, <2>2
<1>13. PICK y \in Nat : y = o.n /\ t * y <= r * T * T /\ r * T * T < t * y + t
  <2>1. Threshold.n > 0
    BY <1>6
  <2>2. /\ Over(z, Threshold).n \in Nat
        /\ Threshold.n * Over(z, Threshold).n <= z.n * Scale[Threshold.d] * Scale[Threshold.d]
        /\ z.n * Scale[Threshold.d] * Scale[Threshold.d]
             < Threshold.n * Over(z, Threshold).n + Threshold.n
    BY <1>6, <1>9, <2>1, OverCut
  <2> QED
    BY <1>5, <1>10, <1>12, <2>2
<1>14. Scale[o.d] = h * S * S * T
  <2>1. Scale[x.d] = h * S
    <3>1. Scale[b.d + WadDecimals] = Scale[b.d] * Scale[WadDecimals]
      BY <1>3, ScaleSum, DigitsAre
    <3> QED
      BY <1>1, <1>7, <1>8, <3>1 DEF Wad
  <2>2. x.d \in Nat /\ z.d \in Nat
    BY DEF Decimal
  <2>3. Scale[x.d + WadDecimals] = Scale[x.d] * Scale[WadDecimals]
    BY <2>2, ScaleSum, DigitsAre
  <2>4. Scale[z.d + Threshold.d] = Scale[z.d] * Scale[Threshold.d]
    BY <1>6, <2>2, ScaleSum
  <2> QED
    BY <1>1, <1>5, <1>9, <1>10, <2>1, <2>3, <2>4 DEF Wad
<1>15. PICK k \in Nat \ {0} : k = h * S * T * g
  OBVIOUS
<1>16. Scale[o.d] = u * k
  BY <1>1, <1>14, <1>15
<1>17. PICK N \in Int, d \in Decimal :
         N = n * k - y /\ d = Minus(c, o) /\ d.n = N /\ Scale[d.d] = u * k
  <2>1. MoreDigits(c, o) = o.d
    <3>1. c.d <= o.d
      BY <1>3, <1>6, <1>8, <1>9, <1>10, PositionAssumption, DigitsAre
    <3> QED
      BY <3>1 DEF MoreDigits, Decimal
  <2>2. PICK i \in Nat \ {0}, j \in Nat \ {0} :
          /\ Scale[o.d] = u * i /\ Scale[o.d] = Scale[o.d] * j
          /\ Minus(c, o) = Dec(n * i - y * j, o.d)
    <3>1. PICK i \in Nat \ {0}, j \in Nat \ {0} :
            /\ Scale[MoreDigits(c, o)] = Scale[c.d] * i
            /\ Scale[MoreDigits(c, o)] = Scale[o.d] * j
            /\ Minus(c, o) = Dec(c.n * i - o.n * j, MoreDigits(c, o))
      BY Digitwise
    <3> QED
      BY <1>1, <1>4, <1>13, <2>1, <3>1
  <2>3. i = k
    <3>1. u * i <= u * k /\ u * k <= u * i
      BY <1>16, <2>2
    <3>2. i <= k /\ k <= i
      BY <3>1, CancelLe
    <3> QED
      BY <3>2
  <2>4. j = 1
    <3>1. PICK f \in Nat \ {0} : f = Scale[o.d]
      BY <1>16
    <3>2. f * j <= f * 1
      BY <2>2, <3>1
    <3>3. j <= 1
      BY <3>1, <3>2, CancelLe
    <3> QED
      BY <3>3
  <2>5. n * k - y \in Int /\ o.d \in Nat
    BY DEF Decimal
  <2>6. Minus(c, o) = Dec(n * k - y, o.d)
    BY <2>2, <2>3, <2>4
  <2> QED
    BY <1>16, <2>5, <2>6, DecIs
<1>18. shown = RoundDown(d, CollDecimals)
  BY <1>8, <1>9, <1>10, <1>17 DEF ComputeWithdrawable
<1>19. shown \in Decimal /\ shown.d = CollDecimals /\ shown.n = Raw(d, CollDecimals)
  <2>1. RoundDown(d, CollDecimals) \in Decimal /\ RoundDown(d, CollDecimals).d = CollDecimals
    BY <1>17, RoundDownIs, DigitsAre
  <2>2. RoundDown(d, CollDecimals).n = Raw(d, CollDecimals)
    BY DEF Raw
  <2> QED
    BY <1>18, <2>1, <2>2
<1>20. PICK s \in Int :
         /\ s = shown.n
         /\ N >= 0 => s \in Nat /\ k * s <= N /\ N < k * s + k
         /\ N < 0 => s <= 0
  <2>1. ASSUME N >= 0
        PROVE shown.n \in Nat /\ k * shown.n <= N /\ N < k * shown.n + k
    <3>1. PICK f \in Nat : /\ f = Raw(d, CollDecimals) /\ (u * k) * f <= N * u
                           /\ N * u < (u * k) * f + u * k
      BY <1>1, <1>17, <2>1, RawCut, DigitsAre
    <3>2. (u * k) * f = u * (k * f) /\ (u * k) * f + u * k = u * (k * f + k) /\ N * u = u * N
      OBVIOUS
    <3>3. k * f \in Int /\ k * f + k \in Int
      OBVIOUS
    <3> QED
      BY <1>19, <3>1, <3>2, <3>3, CancelLe, CancelLt
  <2>2. N < 0 => shown.n <= 0
    BY <1>17, <1>19, RawBelow, DigitsAre
  <2>3. shown.n \in Int
    BY <1>19 DEF Decimal
  <2> QED
    BY <2>1, <2>2, <2>3
<1>21. h * w <= a * S /\ a * S <= h * m
  BY <1>1, <1>4, <1>7 DEF Owing
<1>22. /\ \A R \in Nat, f \in Nat : m * S * S < (p * M) * (R + 1) /\ R <= f * g
                                      => y < (f + 1) * k
       /\ S >= 2 /\ T <= S /\ S * S * S <= h =>
            \A R \in Nat, j \in Nat : (p * M) * R <= w * S * S /\ y <= j * k
                                       => R <= j * g
  <2>1. p * q <= a * S * S /\ a * S * S < p * q + p
    BY <1>11
  <2>2. l * r <= q * S * S /\ q * S * S < l * r + l
    BY <1>12
  <2>3. t * y <= r * T * T /\ r * T * T < t * y + t
    BY <1>13
  <2>4. M * T = l * t
    BY <1>5
  <2> QED
    BY <1>3, <1>15, <1>21, <2>1, <2>2, <2>3, <2>4, StaysCore
<1>23. ASSUME NEW R \in Nat, NEW j \in Nat, (p * M) * R <= w * S * S, y <= j * k
       PROVE  R <= j * g
  <2>1. CASE 3 * WadDecimals <= b.d
    <3>1. S >= 2 /\ T <= S
      BY <1>1, <1>5, WadIsLarge
    <3>2. S * S * S <= h
      BY <1>1, <1>3, <1>7, <2>1, ManyDigits
    <3> QED
      BY <1>22, <1>23, <3>1, <3>2
  <2>2. CASE b.n = 0
    <3>1. h * w <= h * 0
      BY <1>4, <1>21, <2>2
    <3>2. w <= 0
      BY <1>3, <3>1, CancelLe
    <3>3. w = 0
      BY <1>3, <3>2
    <3>4. (p * M) * R <= (p * M) * 0
      BY <1>23, <3>3
    <3>5. p * M \in Nat \ {0}
      BY <1>5
    <3>6. R <= 0
      BY <3>4, <3>5, CancelLe
    <3>7. j * g \in Nat
      BY ProductNat
    <3> QED
      BY <3>6, <3>7
  <2> QED
    BY <2>1, <2>2
<1>24. ASSUME NEW i \in Nat, NEW debt \in Nat
       PROVE  \E e \in Nat, least \in Nat :
                /\ RawWithdrawable(i * g, debt, p, l) = e * g
                /\ (p * M) * least <= debt * S * S
                /\ debt * S * S < (p * M) * (least + 1)
                /\ e > 0 => e * g <= i * g - least
                /\ \A f \in Nat : f * g <= i * g - least => f <= e
  <2>1. (l * Threshold.n) % Scale[Threshold.d] = 0
    BY <1>2
  <2>2. LetsGo(i, g, debt, p, l)
    BY <2>1, RawWithdrawableIs
  <2> QED
    BY <1>1, <1>5, <2>2 DEF LetsGo
<1>25. ASSUME NEW v \in Nat, NEW K, K = IF n > v THEN (n - v) * g ELSE 0,
              NEW Y, Y = IF s > v THEN (s - v) * g ELSE 0
       PROVE  RawWithdrawable(K, m, p, l) - g <= Y /\ Y <= RawWithdrawable(K, w, p, l)
  <2>1. PICK i \in Nat : i = (IF n > v THEN n - v ELSE 0) /\ K = i * g
    <3>1. 0 * g = 0
      OBVIOUS
    <3> QED
      BY <1>25, <3>1
  <2>2. PICK j \in Nat : j = (IF s > v THEN s - v ELSE 0) /\ Y = j * g
    <3>1. 0 * g = 0
      OBVIOUS
    <3> QED
      BY <1>25, <3>1
  <2>3. Y <= RawWithdrawable(K, w, p, l)
    <3>1. PICK e \in Nat, least \in Nat :
            /\ RawWithdrawable(K, w, p, l) = e * g
            /\ (p * M) * least <= w * S * S
            /\ \A f \in Nat : f * g <= i * g - least => f <= e
      <4>1. \E e \in Nat, least \in Nat :
              /\ RawWithdrawable(i * g, w, p, l) = e * g
              /\ (p * M) * least <= w * S * S
              /\ w * S * S < (p * M) * (least + 1)
              /\ e > 0 => e * g <= i * g - least
              /\ \A f \in Nat : f * g <= i * g - least => f <= e
        BY <1>3, <1>24, Zenon
      <4>2. RawWithdrawable(K, w, p, l) = RawWithdrawable(i * g, w, p, l)
        BY <2>1
      <4> QED
        BY <4>1, <4>2, Zenon
    <3>2. j <= e
      <4>1. CASE ~(s > v)
        BY <2>2, <3>1, <4>1
      <4>2. CASE s > v
        <5>1. N >= 0 /\ k * s <= N
          BY <1>20, <4>2
        <5>2. PICK f \in Int : f = n - s
          BY <1>20
        <5>3. y <= f * k
          <6>1. f * k = n * k - k * s
            BY <1>20, <5>2
          <6> QED
            BY <1>17, <1>20, <5>1, <6>1
        <5>4. f >= 0
          <6>1. k * 0 <= k * f
            BY <5>3
          <6> QED
            BY <6>1, CancelLe
        <5>5. least <= f * g
          <6>1. f \in Nat
            BY <5>4
          <6> QED
            BY <1>23, <3>1, <5>3, <6>1
        <5>6. n > v /\ i = j + f
          BY <1>20, <2>1, <2>2, <4>2, <5>2, <5>4
        <5>7. i * g = j * g + f * g
          BY <5>6
        <5>8. j * g <= i * g - least
          BY <3>1, <5>5, <5>7
        <5> QED
          BY <3>1, <5>8
      <4> QED
        BY <4>1, <4>2
    <3>3. g * j <= g * e
      BY <3>1, <3>2, Times2
    <3> QED
      BY <2>2, <3>1, <3>3
  <2>4. RawWithdrawable(K, m, p, l) - g <= Y
    <3>1. PICK e \in Nat, least \in Nat :
            /\ RawWithdrawable(K, m, p, l) = e * g
            /\ m * S * S < (p * M) * (least + 1)
            /\ e > 0 => e * g <= i * g - least
      BY <1>3, <1>24, <2>1
    <3>2. e - 1 <= j
      <4>1. CASE e = 0
        BY <2>2, <4>1
      <4>2. CASE e # 0
        <5>1. PICK f \in Int : f = i - e
          OBVIOUS
        <5>2. least <= f * g
          <6>1. f * g = i * g - e * g
            BY <5>1
          <6> QED
            BY <3>1, <4>2, <6>1
        <5>3. f >= 0
          <6>1. g * 0 <= g * f
            BY <5>2
          <6> QED
            BY <6>1, CancelLe
        <5>4. y < (f + 1) * k
          <6>1. f \in Nat
            BY <5>3
          <6> QED
            BY <1>22, <3>1, <5>2, <6>1
        <5>5. n > v /\ n - f - 1 = v + e - 1
          BY <2>1, <4>2, <5>1, <5>3
        <5>6. k * (v + e - 1) < N
          <6>1. k * (n - f - 1) = n * k - (f + 1) * k
            OBVIOUS
          <6> QED
            BY <1>17, <5>4, <5>5, <6>1
        <5>7. N >= 0
          <6>1. k * 0 <= k * (v + e - 1)
            BY <4>2, Times2
          <6> QED
            BY <5>6, <6>1
        <5>8. v + e - 1 < s + 1
          <6>1. k * (s + 1) = k * s + k
            BY <1>20
          <6>2. k * (v + e - 1) < k * (s + 1)
            BY <1>20, <5>6, <5>7, <6>1
          <6> QED
            BY <1>20, <6>2, CancelLt
        <5> QED
          BY <1>20, <2>2, <5>8
      <4> QED
        BY <4>1, <4>2
    <3>3. g * (e - 1) <= g * j
      BY <2>2, <3>1, <3>2, Times2
    <3>4. g * (e - 1) = e * g - g
      OBVIOUS
    <3> QED
      BY <2>2, <3>1, <3>3, <3>4
  <2> QED
    BY <2>3, <2>4
<1> QED
  BY <1>2, <1>4, <1>19, <1>20, <1>25

-----------------------------------------------------------------------------
(* The invariant of a market's position: what the caller holds are the     *)
(* decimals' figures of what he read, and of what he asked on top of it.   *)

(* A price that its digits show, and an LLTV whose margin they hold.       *)
Exact(priceRate, lltv) ==
  /\ priceRate \in Decimal /\ priceRate.n > 0 /\ priceRate.d = WadDecimals
  /\ lltv \in Decimal /\ lltv.n > 0 /\ lltv.d = WadDecimals
  /\ (lltv.n * Threshold.n) % Scale[Threshold.d] = 0

(* A debt is none, or has digits to spare.                                 *)
Spare(b) == b.n = 0 \/ 3 * WadDecimals <= b.d

Figured(d, i) ==
  /\ d.collateral \in Decimal /\ d.collateral.n >= 0 /\ d.collateral.d = CollDecimals
  /\ d.borrowed \in Decimal /\ d.borrowed.n >= 0 /\ Spare(d.borrowed)
  /\ d.LTV = ComputeLTV(d.borrowed, d.collateral, i.priceRate)
  /\ d.loanable = ComputeLoanable(d.collateral, d.borrowed, Times(i.lltv, Threshold),
                                  i.priceRate)
  /\ d.withdrawable = ComputeWithdrawable(d.collateral, d.borrowed, Zero, i.lltv,
                                          i.priceRate, CollDecimals)
  /\ d.liqPriceRate = ComputeLiqPriceRate(d.borrowed, d.collateral, i.lltv)

Simulated ==
  \/ asked = Nothing
  \/ /\ asked.op = "borrow" /\ asked.first \in Nat /\ asked.second \in Nat
     /\ sim = SimulateMarketBorrow(asked.first, asked.second, data, info)
  \/ /\ asked.op = "repay" /\ asked.first \in Nat /\ asked.second \in Nat
     /\ asked.all \in BOOLEAN
     /\ sim = SimulateMarketRepay(asked.first, asked.second, asked.all, data, info)

TInv ==
  kind = "market" =>
    /\ phase = "start" => /\ PriceRate(chain.price, CollDecimals).n > 0
                          /\ (chain.lltv * Threshold.n) % Scale[Threshold.d] = 0
    /\ phase # "start" => Exact(info.priceRate, info.lltv)
    /\ phase \in {"start", "info"} => data = Nothing
    /\ phase \in {"start", "info", "data"} => asked = Nothing
    /\ phase \notin {"start", "info"} => Figured(data, info) /\ Simulated

-----------------------------------------------------------------------------
(* Each figure, of whatever position the bigints are given.                *)

LEMMA FiguresAgree ==
  ASSUME NEW shown, NEW w, NEW m, NEW C, Exact(info.priceRate, info.lltv),
         shown.collateral \in Decimal, shown.collateral.d = CollDecimals,
         Owing(shown.borrowed, w, m), C = AtLeastZero(Wads(shown.collateral)),
         shown.LTV = ComputeLTV(shown.borrowed, shown.collateral, info.priceRate),
         shown.liqPriceRate
           = ComputeLiqPriceRate(shown.borrowed, shown.collateral, info.lltv)
  PROVE  SameFigures(RawSimulation(C, w, info.priceRate.n, info.lltv.n),
                     RawSimulation(C, m, info.priceRate.n, info.lltv.n), shown)
<1>0. PICK b : b = shown.borrowed
  OBVIOUS
<1>1. PICK c \in Decimal, price \in Decimal, lltv \in Decimal :
        /\ c = shown.collateral /\ b = shown.borrowed
        /\ price = info.priceRate /\ lltv = info.lltv
  BY <1>0 DEF Exact
<1>2. /\ c.d = CollDecimals /\ Owing(b, w, m) /\ C = AtLeastZero(Wads(c))
      /\ price.n > 0 /\ price.d = WadDecimals /\ lltv.n > 0 /\ lltv.d = WadDecimals
  BY <1>1 DEF Exact
<1>3. PICK less, more : /\ less = RawSimulation(C, w, price.n, lltv.n)
                        /\ more = RawSimulation(C, m, price.n, lltv.n)
  OBVIOUS
<1>4. /\ less.newLTV = RawLTV(C, w, price.n) /\ more.newLTV = RawLTV(C, m, price.n)
      /\ less.newBorrowed = w /\ less.newCollateral = C
      /\ less.newLiqPrice = RawLiquidationPrice(C, w, lltv.n)
      /\ more.newLiqPrice = RawLiquidationPrice(C, m, lltv.n)
  BY <1>3 DEF RawSimulation
<1>5. w = Wads(shown.borrowed)
  BY <1>1, <1>2, OwingIs
<1>6. SameRatio(less, more, shown)
  <2>1. PICK worth : worth = Quot(C * price.n, Wad)
    OBVIOUS
  <2>2. PICK x : x = ComputeLTV(b, c, price)
    OBVIOUS
  <2>3. IF worth > 0
        THEN /\ Wads(x) <= RawLTV(C, m, price.n)
             /\ RawLTV(C, w, price.n) * worth <= (Wads(x) + 1) * (worth + 1)
        ELSE RawLTV(C, w, price.n) = 0 /\ (c.n <= 0 => x = Zero)
    BY <1>2, <2>1, <2>2, RatioAgrees
  <2>4. shown.LTV = x
    BY <1>1, <2>2
  <2> QED
    BY <1>1, <1>4, <2>1, <2>3, <2>4 DEF SameRatio
<1>7. SameLiqPrice(less, more, shown)
  <2>1. PICK cut : cut = Quot(Wad * Wad, lltv.n * Scale[c.d + b.d])
    OBVIOUS
  <2>2. PICK x : x = ComputeLiqPriceRate(b, c, lltv)
    OBVIOUS
  <2>3. Between(RawLiquidationPrice(C, w, lltv.n) - cut - 1, x,
                RawLiquidationPrice(C, m, lltv.n))
    BY <1>2, <2>1, <2>2, LiqPriceAgrees
  <2>4. shown.liqPriceRate = x
    BY <1>1, <2>2
  <2> QED
    BY <1>1, <1>4, <2>1, <2>3, <2>4 DEF SameLiqPrice
<1> QED
  BY <1>1, <1>2, <1>3, <1>4, <1>5, <1>6, <1>7 DEF SameFigures

LEMMA MayBorrowAgrees ==
  ASSUME NEW c \in Decimal, c.d = CollDecimals, c.n >= 0, NEW b, NEW w, NEW m, NEW C,
         Exact(info.priceRate, info.lltv),
         Owing(b, w, m), C = AtLeastZero(Wads(c)),
         NEW shown,
         shown = ComputeLoanable(c, b, Times(info.lltv, Threshold), info.priceRate)
  PROVE  SameLoanable(RawSimulation(C, w, info.priceRate.n, info.lltv.n),
                      RawSimulation(C, m, info.priceRate.n, info.lltv.n), shown)
<1>1. PICK price \in Decimal, lltv \in Decimal : price = info.priceRate /\ lltv = info.lltv
  BY DEF Exact
<1>2. /\ price.n > 0 /\ price.d = WadDecimals /\ lltv.n > 0 /\ lltv.d = WadDecimals
      /\ (lltv.n * Threshold.n) % Scale[Threshold.d] = 0
      /\ shown = ComputeLoanable(c, b, Times(lltv, Threshold), price)
  BY <1>1 DEF Exact
<1>3. Between(RawLoanable(C, m, price.n, lltv.n) - Scale[WadDecimals - LoanDecimals] + 1,
              shown, RawLoanable(C, w, price.n, lltv.n) + Scale[LoanDecimals] - 1)
  BY <1>2, LoanableAgrees
<1>4. PICK less, more : /\ less = RawSimulation(C, w, price.n, lltv.n)
                        /\ more = RawSimulation(C, m, price.n, lltv.n)
  OBVIOUS
<1>5. /\ less.newLoanable = RawLoanable(C, w, price.n, lltv.n)
      /\ more.newLoanable = RawLoanable(C, m, price.n, lltv.n)
  BY <1>4 DEF RawSimulation
<1> QED
  BY <1>1, <1>3, <1>4, <1>5 DEF SameLoanable

(* Of n units of collateral, with v of them out.                           *)
LEMMA MayLeaveAgrees ==
  ASSUME NEW c \in Decimal, c.d = CollDecimals, c.n >= 0, NEW v \in Nat,
         NEW borrowed, NEW repay, NEW w, NEW m,
         Exact(info.priceRate, info.lltv),
         Owing(Minus(borrowed, repay), w, m), Spare(Minus(borrowed, repay)),
         NEW shown, shown = ComputeWithdrawable(c, borrowed, repay, info.lltv,
                                                info.priceRate, CollDecimals),
         NEW left \in Decimal, left.d = CollDecimals, left.n = c.n - v,
         NEW K, K = AtLeastZero(Wads(left)),
         NEW out \in Decimal, out.d = CollDecimals, out.n = shown.n - v
  PROVE  SameWithdrawable(RawSimulation(K, w, info.priceRate.n, info.lltv.n),
                          RawSimulation(K, m, info.priceRate.n, info.lltv.n), out)
<1>1. PICK price \in Decimal, lltv \in Decimal : price = info.priceRate /\ lltv = info.lltv
  BY DEF Exact
<1>2. /\ price.n > 0 /\ price.d = WadDecimals /\ lltv.n > 0 /\ lltv.d = WadDecimals
      /\ (lltv.n * Threshold.n) % Scale[Threshold.d] = 0
      /\ shown = ComputeWithdrawable(c, borrowed, repay, lltv, price, CollDecimals)
  BY <1>1 DEF Exact
<1>3. PICK b : /\ b = Minus(borrowed, repay) /\ Owing(b, w, m)
               /\ (b.n = 0 \/ 3 * WadDecimals <= b.d)
  BY DEF Spare
<1>4. PICK g \in Nat \ {0} : g = Scale[WadDecimals - CollDecimals]
  BY CollateralIs
<1>5. /\ shown \in Decimal /\ shown.d = CollDecimals
      /\ \A i \in Nat :
           LET x == IF c.n > i THEN (c.n - i) * g ELSE 0
               y == IF shown.n > i THEN (shown.n - i) * g ELSE 0
           IN /\ RawWithdrawable(x, m, price.n, lltv.n) - g <= y
              /\ y <= RawWithdrawable(x, w, price.n, lltv.n)
  BY <1>2, <1>3, <1>4, WithdrawableAgrees
<1>6. PICK n \in Int, s \in Int : n = c.n /\ s = shown.n
  BY <1>5 DEF Decimal
<1>7. K = IF n > v THEN (n - v) * g ELSE 0
  <2>1. left.n = n - v /\ (left.n > 0 => K = left.n * g) /\ (left.n <= 0 => K = 0)
    BY <1>4, <1>6, CollateralIs
  <2> QED
    BY <1>6, <2>1
<1>8. PICK y : y = AtLeastZero(Wads(out)) /\ y = IF s > v THEN (s - v) * g ELSE 0
  <2>1. /\ out.n = s - v /\ (out.n > 0 => AtLeastZero(Wads(out)) = out.n * g)
        /\ (out.n <= 0 => AtLeastZero(Wads(out)) = 0)
    BY <1>4, <1>6, CollateralIs
  <2> QED
    BY <1>6, <2>1
<1>9. /\ RawWithdrawable(K, m, price.n, lltv.n) - g <= y
      /\ y <= RawWithdrawable(K, w, price.n, lltv.n)
  BY <1>5, <1>6, <1>7, <1>8
<1>10. PICK less, more : /\ less = RawSimulation(K, w, price.n, lltv.n)
                         /\ more = RawSimulation(K, m, price.n, lltv.n)
  OBVIOUS
<1>11. /\ less.newWithdrawable = RawWithdrawable(K, w, price.n, lltv.n)
       /\ more.newWithdrawable = RawWithdrawable(K, m, price.n, lltv.n)
  BY <1>10 DEF RawSimulation
<1> QED
  BY <1>1, <1>4, <1>8, <1>9, <1>10, <1>11 DEF SameWithdrawable, Between

LEMMA OwedIs ==
  ASSUME NEW b \in Decimal, b.n >= 0
  PROVE  Owing(b, Wads(b), IF b.n = 0 THEN 0 ELSE Wads(b) + 1)
<1>1. PICK n \in Nat, S \in Nat \ {0}, h \in Nat \ {0} : n = b.n /\ S = Wad /\ h = Scale[b.d]
  <2>1. b.n \in Nat /\ b.d \in Nat
    BY DEF Decimal
  <2> QED
    BY <2>1, ScaleIs, DigitsAre
<1>2. PICK q \in Nat : q = Wads(b) /\ h * q <= n * S /\ n * S < h * q + h
  BY <1>1, RawCut, DigitsAre DEF Wads, Wad
<1>3. PICK m \in Nat : m = IF n = 0 THEN 0 ELSE q + 1
  OBVIOUS
<1>4. n * S <= h * m
  <2>1. CASE n = 0
    <3>1. n * S = 0 /\ h * m = 0
      BY <1>3, <2>1
    <3> QED
      BY <3>1
  <2>2. CASE n # 0
    <3>1. h * m = h * q + h /\ n * S \in Nat /\ h * q \in Nat
      BY <1>3, <2>2
    <3> QED
      BY <1>2, <3>1
  <2> QED
    BY <2>1, <2>2
<1> QED
  BY <1>1, <1>2, <1>3, <1>4 DEF Owing

LEMMA OwingNothing == Owing(Zero, 0, 0)
<1>1. Zero \in Decimal /\ Zero.n = 0 /\ Zero.d = 0 /\ Scale[0] = 1
  BY UnitsAre, ScaleIs
<1>2. PICK S \in Nat \ {0} : S = Wad
  BY DigitsAre
<1>3. 0 * S = 0
  OBVIOUS
<1> QED
  BY <1>1, <1>2, <1>3 DEF Owing

(* Collateral that v more units come to, or of which v leave.              *)
LEMMA CollateralMoves ==
  ASSUME NEW c \in Decimal, c.d = CollDecimals, c.n >= 0, NEW v \in Nat
  PROVE  /\ Wads(c) = AtLeastZero(Wads(c))
         /\ LET more == Plus(c, Dec(v, CollDecimals))
            IN /\ more \in Decimal /\ more.d = CollDecimals /\ more.n >= 0
               /\ AtLeastZero(Wads(more)) = Wads(c) + InWads(v, CollDecimals)
         /\ LET less == RoundDown(Minus(c, Dec(v, CollDecimals)), CollDecimals)
            IN /\ less \in Decimal /\ less.d = CollDecimals /\ less.n = c.n - v
               /\ AtLeastZero(Wads(less))
                    = IF Wads(c) > InWads(v, CollDecimals)
                      THEN Wads(c) - InWads(v, CollDecimals) ELSE 0
<1>1. PICK g \in Nat \ {0} : g = Scale[WadDecimals - CollDecimals]
  BY CollateralIs
<1>2. PICK n \in Nat : n = c.n
  BY DEF Decimal
<1>3. Wads(c) = n * g /\ n * g \in Nat
  BY <1>1, <1>2, CollateralIs
<1>4. InWads(v, CollDecimals) = v * g /\ v * g \in Nat
  <2>1. CollDecimals \in Nat /\ CollDecimals <= WadDecimals
    BY PositionAssumption, DigitsAre
  <2>2. InWads(v, CollDecimals) = v * Scale[WadDecimals - CollDecimals]
    BY <2>1, InWadsIs
  <2> QED
    BY <1>1, <2>2
<1>5. PICK more, less : /\ more = Plus(c, Dec(v, CollDecimals))
                        /\ less = Minus(c, Dec(v, CollDecimals))
  OBVIOUS
<1>6. /\ more \in Decimal /\ more.d = CollDecimals /\ more.n = n + v
      /\ less \in Decimal /\ less.d = CollDecimals /\ less.n = n - v
  <2>1. PICK y \in Decimal : y = Dec(v, CollDecimals) /\ y.n = v /\ y.d = CollDecimals
    BY DecIs, DigitsAre
  <2>2. Plus(c, y) \in Decimal /\ Minus(c, y) \in Decimal
    BY PlusIs, MinusIs
  <2>3. /\ Plus(c, y).n = c.n + y.n /\ Plus(c, y).d = c.d
        /\ Minus(c, y).n = c.n - y.n /\ Minus(c, y).d = c.d
    BY <2>1, SameDigits
  <2> QED
    BY <1>2, <1>5, <2>1, <2>2, <2>3
<1>7. PICK kept \in Decimal :
        kept = RoundDown(less, CollDecimals) /\ kept.d = CollDecimals /\ kept.n = n - v
  <2>1. RoundDown(less, CollDecimals) \in Decimal /\ RoundDown(less, CollDecimals).d = CollDecimals
    BY <1>6, RoundDownIs, DigitsAre
  <2>2. CollDecimals - less.d = 0 /\ ~(CollDecimals < less.d) /\ Scale[0] = 1
    BY <1>6, ScaleIs, DigitsAre
  <2>3. RoundDown(less, CollDecimals).n = less.n * 1
    BY <2>2 DEF RoundDown, Aligned, Dec
  <2> QED
    BY <1>6, <2>1, <2>3
<1>8. /\ more.n > 0 => AtLeastZero(Wads(more)) = more.n * g
      /\ more.n <= 0 => AtLeastZero(Wads(more)) = 0
      /\ kept.n > 0 => AtLeastZero(Wads(kept)) = kept.n * g
      /\ kept.n <= 0 => AtLeastZero(Wads(kept)) = 0
  BY <1>1, <1>6, <1>7, CollateralIs
<1>9. Wads(c) = AtLeastZero(Wads(c))
  BY <1>3 DEF AtLeastZero
<1>10. AtLeastZero(Wads(more)) = Wads(c) + InWads(v, CollDecimals)
  <2>1. (n + v) * g = n * g + v * g
    OBVIOUS
  <2>2. CASE n + v > 0
    BY <1>3, <1>4, <1>6, <1>8, <2>1, <2>2
  <2>3. CASE n + v = 0
    <3>1. n * g = 0 /\ v * g = 0
      BY <2>3
    <3> QED
      BY <1>3, <1>4, <1>6, <1>8, <2>3, <3>1
  <2> QED
    BY <2>2, <2>3
<1>11. AtLeastZero(Wads(kept)) = IF Wads(c) > InWads(v, CollDecimals)
                                 THEN Wads(c) - InWads(v, CollDecimals) ELSE 0
  <2>1. CASE n > v
    <3>1. PICK i \in Nat \ {0} : i = n - v
      BY <2>1
    <3>2. i * g = n * g - v * g /\ i * g > 0
      BY <3>1
    <3> QED
      BY <1>3, <1>4, <1>7, <1>8, <3>1, <3>2
  <2>2. CASE ~(n > v)
    <3>1. n * g <= v * g
      <4>1. g * n <= g * v
        BY <2>2, Times2
      <4> QED
        BY <4>1
    <3> QED
      BY <1>3, <1>4, <1>7, <1>8, <2>2, <3>1
  <2> QED
    BY <2>1, <2>2
<1>12. more.n >= 0
  BY <1>6
<1> QED
  BY <1>2, <1>5, <1>6, <1>7, <1>9, <1>10, <1>11, <1>12

(* A debt less nothing, and less a repayment, keeps its digits to spare.   *)
LEMMA SpareKept ==
  ASSUME NEW b \in Decimal, b.n >= 0, Spare(b)
  PROVE  /\ Minus(b, Zero) \in Decimal /\ Minus(b, Zero).n = b.n /\ Minus(b, Zero).d = b.d
         /\ \A y \in Nat : Minus(b, Dec(y, LoanDecimals)).n >= 0
                             => Spare(Minus(b, Dec(y, LoanDecimals)))
<1>1. PICK n \in Nat, d \in Nat : n = b.n /\ d = b.d
  BY DEF Decimal
<1>2. /\ Minus(b, Zero) \in Decimal /\ Minus(b, Zero).n = b.n /\ Minus(b, Zero).d = b.d
  <2>1. Minus(b, Zero) \in Decimal /\ Zero \in Decimal /\ Zero.n = 0 /\ Zero.d = 0
    BY UnitsAre, MinusIs
  <2>2. MoreDigits(b, Zero) = d
    BY <1>1, <2>1 DEF MoreDigits
  <2>3. Aligned(b, d) = n
    <3>1. d - b.d = 0 /\ Scale[0] = 1
      BY <1>1, ScaleIs
    <3> QED
      BY <1>1, <3>1 DEF Aligned
  <2>4. Aligned(Zero, d) = 0
    <3>1. PICK f \in Nat \ {0} : f = Scale[d - 0]
      BY ScaleIs
    <3> QED
      BY <2>1, <3>1 DEF Aligned
  <2> QED
    BY <1>1, <2>1, <2>2, <2>3, <2>4 DEF Minus, Dec
<1>3. ASSUME NEW y \in Nat, Minus(b, Dec(y, LoanDecimals)).n >= 0
      PROVE  Spare(Minus(b, Dec(y, LoanDecimals)))
  <2>1. PICK z \in Decimal : z = Dec(y, LoanDecimals) /\ z.n = y
    BY DecIs, DigitsAre
  <2>2. PICK x \in Decimal : x = Minus(b, z) /\ x.d = MoreDigits(b, z) /\ x.n >= 0
    BY <1>3, <2>1, MinusIs
  <2>3. CASE 3 * WadDecimals <= d
    <3>1. MoreDigits(b, z) >= b.d /\ MoreDigits(b, z) \in Nat
      BY DEF MoreDigits, Decimal
    <3>2. 3 * WadDecimals <= x.d
      BY <1>1, <2>2, <2>3, <3>1, DigitsAre
    <3> QED
      BY <2>1, <2>2, <3>2 DEF Spare
  <2>4. CASE n = 0
    <3>1. PICK i \in Nat \ {0}, j \in Nat \ {0} :
            Minus(b, z) = Dec(b.n * i - z.n * j, MoreDigits(b, z))
      BY Digitwise
    <3>2. x.n = 0 * i - y * j
      BY <1>1, <2>1, <2>2, <2>4, <3>1 DEF Dec
    <3>3. y * j \in Nat /\ 0 * i = 0
      OBVIOUS
    <3>4. x.n = 0
      BY <2>2, <3>2, <3>3
    <3> QED
      BY <2>1, <2>2, <3>4 DEF Spare
  <2> QED
    BY <1>1, <2>3, <2>4 DEF Spare
<1> QED
  BY <1>2, <1>3

(* What may leave is figured in the collateral's own digits.               *)
LEMMA LeavesIs ==
  ASSUME NEW c \in Decimal, NEW b \in Decimal, NEW repay \in Decimal,
         Exact(info.priceRate, info.lltv)
  PROVE  LET shown == ComputeWithdrawable(c, b, repay, info.lltv, info.priceRate, CollDecimals)
         IN shown \in Decimal /\ shown.d = CollDecimals /\ Raw(shown, CollDecimals) \in Int
<1>1. PICK price \in Decimal, lltv \in Decimal :
        price = info.priceRate /\ lltv = info.lltv /\ price.n > 0 /\ lltv.n > 0
  BY DEF Exact
<1>2. Threshold \in Decimal /\ Threshold.n > 0
  BY PositionAssumption
<1>3. PICK o \in Decimal : o = Over(Over(Over(Minus(b, repay), price), lltv), Threshold)
  BY <1>1, <1>2, MinusIs, OverIs
<1>4. PICK d \in Decimal : d = Minus(c, o)
  BY MinusIs
<1>5. PICK x \in Decimal : x = RoundDown(d, CollDecimals) /\ x.d = CollDecimals
  BY RoundDownIs, DigitsAre
<1>6. Raw(x, CollDecimals) \in Int
  BY RoundDownIs, DigitsAre
<1> QED
  BY <1>1, <1>3, <1>4, <1>5, <1>6 DEF ComputeWithdrawable

-----------------------------------------------------------------------------
(* Of the position as it was read, and of what was asked of it.            *)

LEMMA TodayAgrees ==
  ASSUME Exact(info.priceRate, info.lltv), Figured(data, info),
         NEW w, NEW m, Owing(data.borrowed, w, m), NEW C, C = Wads(data.collateral),
         NEW less, less = RawSimulation(C, w, info.priceRate.n, info.lltv.n),
         NEW more, more = RawSimulation(C, m, info.priceRate.n, info.lltv.n)
  PROVE  /\ SameFigures(less, more, data)
         /\ SameLoanable(less, more, data.loanable)
         /\ SameWithdrawable(less, more, data.withdrawable)
<1>1. PICK c \in Decimal, b \in Decimal :
        /\ c = data.collateral /\ c.d = CollDecimals /\ c.n >= 0
        /\ b = data.borrowed /\ b.n >= 0 /\ Spare(b) /\ Owing(b, w, m)
  BY DEF Figured
<1>2. C = AtLeastZero(Wads(c))
  BY <1>1, CollateralMoves
<1>3. SameFigures(less, more, data)
  BY <1>1, <1>2, FiguresAgree DEF Figured
<1>4. SameLoanable(less, more, data.loanable)
  <2>1. PICK shown : shown = ComputeLoanable(c, b, Times(info.lltv, Threshold), info.priceRate)
    OBVIOUS
  <2>2. SameLoanable(less, more, shown)
    BY <1>1, <1>2, <2>1, MayBorrowAgrees
  <2> QED
    BY <1>1, <2>1, <2>2 DEF Figured
<1>5. SameWithdrawable(less, more, data.withdrawable)
  <2>1. PICK shown : shown = ComputeWithdrawable(c, b, Zero, info.lltv, info.priceRate,
                                                 CollDecimals)
    OBVIOUS
  <2>2. Owing(Minus(b, Zero), w, m) /\ Spare(Minus(b, Zero))
    BY <1>1, SpareKept DEF Owing, Spare
  <2>3. shown \in Decimal /\ shown.d = CollDecimals
    BY <2>1, UnitsAre, LeavesIs
  <2>4. c.n = c.n - 0 /\ shown.n = shown.n - 0
    BY <2>3 DEF Decimal
  <2>5. SameWithdrawable(less, more, shown)
    BY <1>1, <1>2, <2>1, <2>2, <2>3, <2>4, MayLeaveAgrees
  <2> QED
    BY <1>1, <2>1, <2>5 DEF Figured
<1> QED
  BY <1>3, <1>4, <1>5

LEMMA BorrowAgrees ==
  ASSUME Exact(info.priceRate, info.lltv), Figured(data, info),
         NEW first \in Nat, NEW second \in Nat,
         sim = SimulateMarketBorrow(first, second, data, info),
         NEW w, NEW m, Owing(data.borrowed, w, m), NEW C, C = Wads(data.collateral),
         NEW less, less = RawSimulateBorrow(C, w, info.priceRate.n, info.lltv.n,
                            InWads(first, CollDecimals), InWads(second, LoanDecimals)),
         NEW more, more = RawSimulateBorrow(C, m, info.priceRate.n, info.lltv.n,
                            InWads(first, CollDecimals), InWads(second, LoanDecimals))
  PROVE  SameFigures(less, more, sim) /\ SameLoanable(less, more, sim.loanable)
<1>1. PICK old \in Decimal, b \in Decimal :
        /\ old = data.collateral /\ old.d = CollDecimals /\ old.n >= 0
        /\ b = data.borrowed /\ Owing(b, w, m)
  BY DEF Figured
<1>2. PICK c : c = Plus(old, Dec(first, CollDecimals))
  OBVIOUS
<1>3. PICK y : y = InWads(second, LoanDecimals)
  OBVIOUS
<1>4. PICK K : K = C + InWads(first, CollDecimals)
  OBVIOUS
<1>5. c \in Decimal /\ c.d = CollDecimals /\ c.n >= 0 /\ K = AtLeastZero(Wads(c))
  BY <1>1, <1>2, <1>4, CollateralMoves
<1>6. PICK owed : owed = Plus(b, Dec(second, LoanDecimals))
  OBVIOUS
<1>7. Owing(owed, w + y, m + y)
  BY <1>1, <1>3, <1>6, OwingMore
<1>8. /\ less = RawSimulation(K, w + y, info.priceRate.n, info.lltv.n)
      /\ more = RawSimulation(K, m + y, info.priceRate.n, info.lltv.n)
  BY <1>3, <1>4 DEF RawSimulateBorrow
<1>9. PICK shown :
        /\ shown = sim
        /\ shown.collateral = c /\ shown.borrowed = owed
        /\ shown.LTV = ComputeLTV(owed, c, info.priceRate)
        /\ shown.loanable = ComputeLoanable(c, owed, Times(info.lltv, Threshold), info.priceRate)
        /\ shown.liqPriceRate = ComputeLiqPriceRate(owed, c, info.lltv)
  BY <1>1, <1>2, <1>6 DEF SimulateMarketBorrow
<1>10. SameFigures(less, more, shown)
  BY <1>5, <1>7, <1>8, <1>9, FiguresAgree
<1>11. SameLoanable(less, more, shown.loanable)
  <2>1. PICK x : x = ComputeLoanable(c, owed, Times(info.lltv, Threshold), info.priceRate)
    OBVIOUS
  <2>2. SameLoanable(less, more, x)
    BY <1>5, <1>7, <1>8, <2>1, MayBorrowAgrees
  <2> QED
    BY <1>9, <2>1, <2>2
<1> QED
  BY <1>9, <1>10, <1>11

LEMMA RepayAgrees ==
  ASSUME Exact(info.priceRate, info.lltv), Figured(data, info),
         NEW first \in Nat, NEW second \in Nat, NEW all \in BOOLEAN,
         sim = SimulateMarketRepay(first, second, all, data, info), sim.borrowed.n >= 0,
         NEW w, NEW m, Owing(data.borrowed, w, m), NEW C, C = Wads(data.collateral),
         NEW less, less = RawSimulateRepay(C, w, info.priceRate.n, info.lltv.n,
                            IF all THEN w ELSE InWads(first, LoanDecimals),
                            InWads(second, CollDecimals)),
         NEW more, more = RawSimulateRepay(C, m, info.priceRate.n, info.lltv.n,
                            IF all THEN m ELSE InWads(first, LoanDecimals),
                            InWads(second, CollDecimals))
  PROVE  /\ SameFigures(less, more, sim)
         /\ SameWithdrawable(less, more, Minus(sim.withdrawable, Dec(second, CollDecimals)))
<1>1. PICK c \in Decimal, b \in Decimal :
        /\ c = data.collateral /\ c.d = CollDecimals /\ c.n >= 0
        /\ b = data.borrowed /\ b.n >= 0 /\ Spare(b) /\ Owing(b, w, m)
  BY DEF Figured
<1>2. w \in Nat /\ m \in Nat /\ w <= m
  BY <1>1, OwingIs DEF Owing
<1>3. PICK left : left = RoundDown(Minus(c, Dec(second, CollDecimals)), CollDecimals)
  OBVIOUS
<1>4. PICK K : K = IF C > InWads(second, CollDecimals)
                   THEN C - InWads(second, CollDecimals) ELSE 0
  OBVIOUS
<1>5. /\ left \in Decimal /\ left.d = CollDecimals /\ left.n = c.n - second
      /\ K = AtLeastZero(Wads(left))
  BY <1>1, <1>3, <1>4, CollateralMoves
<1>6. PICK repay : repay = Dec(first, LoanDecimals)
  OBVIOUS
<1>7. PICK owed : owed = IF all THEN Zero ELSE Minus(b, repay)
  OBVIOUS
<1>8. PICK free : free = IF all THEN c
                         ELSE ComputeWithdrawable(c, b, repay, info.lltv, info.priceRate,
                                                  CollDecimals)
  OBVIOUS
<1>9. PICK shown :
        /\ shown = sim
        /\ shown.collateral = left /\ shown.borrowed = owed
        /\ shown.LTV = ComputeLTV(owed, left, info.priceRate)
        /\ shown.withdrawable = free
        /\ shown.liqPriceRate = ComputeLiqPriceRate(owed, left, info.lltv)
  BY <1>1, <1>3, <1>6, <1>7, <1>8 DEF SimulateMarketRepay
<1>10. PICK u, v :
         /\ u = IF all THEN 0 ELSE w - InWads(first, LoanDecimals)
         /\ v = IF all THEN 0 ELSE m - InWads(first, LoanDecimals)
  OBVIOUS
<1>11. /\ Owing(owed, u, v)
       /\ less = RawSimulation(K, u, info.priceRate.n, info.lltv.n)
       /\ more = RawSimulation(K, v, info.priceRate.n, info.lltv.n)
  <2>1. CASE all
    <3>1. Owing(owed, u, v)
      BY <1>7, <1>10, <2>1, OwingNothing
    <3>2. (IF w > w THEN w - w ELSE 0) = 0 /\ (IF m > m THEN m - m ELSE 0) = 0
      BY <1>2
    <3> QED
      BY <1>4, <1>10, <2>1, <3>1, <3>2 DEF RawSimulateRepay
  <2>2. CASE ~all
    <3>1. Minus(b, Dec(first, LoanDecimals)).n >= 0
      BY <1>6, <1>7, <1>9, <2>2
    <3>2. PICK y \in Nat : y = InWads(first, LoanDecimals) /\ y <= w
      BY <1>1, <3>1, OwingLess
    <3>3. Owing(Minus(b, Dec(first, LoanDecimals)), w - y, m - y)
      BY <1>1, <3>1, <3>2, OwingLess
    <3>4. (IF w > y THEN w - y ELSE 0) = u /\ (IF m > y THEN m - y ELSE 0) = v
      BY <1>2, <1>10, <2>2, <3>2
    <3>5. Owing(owed, u, v)
      BY <1>6, <1>7, <1>10, <2>2, <3>2, <3>3
    <3> QED
      BY <1>4, <2>2, <3>2, <3>4, <3>5 DEF RawSimulateRepay
  <2> QED
    BY <2>1, <2>2
<1>12. SameFigures(less, more, shown)
  BY <1>5, <1>9, <1>11, FiguresAgree
<1>13. /\ free \in Decimal /\ free.d = CollDecimals
  <2>1. CASE all
    BY <1>1, <1>8, <2>1
  <2>2. CASE ~all
    <3>1. PICK x : x = ComputeWithdrawable(c, b, repay, info.lltv, info.priceRate, CollDecimals)
      OBVIOUS
    <3>2. repay \in Decimal
      BY <1>6, DecIs, DigitsAre
    <3>3. x \in Decimal /\ x.d = CollDecimals
      BY <3>1, <3>2, LeavesIs
    <3> QED
      BY <1>8, <2>2, <3>1, <3>3
  <2> QED
    BY <2>1, <2>2
<1>14. PICK out : out = Minus(free, Dec(second, CollDecimals))
  OBVIOUS
<1>15. out \in Decimal /\ out.d = CollDecimals /\ out.n = free.n - second
  <2>1. PICK y \in Decimal : y = Dec(second, CollDecimals) /\ y.n = second /\ y.d = CollDecimals
    BY DecIs, DigitsAre
  <2>2. Minus(free, y) \in Decimal /\ Minus(free, y).n = free.n - y.n /\ Minus(free, y).d = free.d
    BY <1>13, <2>1, MinusIs, SameDigits
  <2> QED
    BY <1>13, <1>14, <2>1, <2>2
<1>16. SameWithdrawable(less, more, out)
  <2>1. CASE all
    <3>1. PICK g \in Nat \ {0} : g = Scale[WadDecimals - CollDecimals]
      BY <1>1, CollateralIs
    <3>2. less.newWithdrawable = K /\ more.newWithdrawable = K
      BY <1>10, <1>11, <2>1 DEF RawSimulation, RawWithdrawable
    <3>3. PICK y : y = AtLeastZero(Wads(out))
      OBVIOUS
    <3>4. /\ (out.n > 0 => y = out.n * g) /\ (out.n <= 0 => y = 0)
          /\ (left.n > 0 => K = left.n * g) /\ (left.n <= 0 => K = 0)
      BY <1>5, <1>15, <3>1, <3>3, CollateralIs
    <3>5. out.n = left.n /\ left.n \in Int
      BY <1>5, <1>8, <1>15, <2>1 DEF Decimal
    <3>6. y = K /\ K \in Int
      BY <3>4, <3>5
    <3> QED
      BY <3>1, <3>2, <3>3, <3>6 DEF SameWithdrawable, Between
  <2>2. CASE ~all
    <3>1. owed = Minus(b, repay) /\ Owing(Minus(b, repay), u, v)
      BY <1>7, <1>11, <2>2
    <3>2. Spare(Minus(b, repay))
      BY <1>1, <1>6, <1>9, <3>1, SpareKept
    <3>3. free = ComputeWithdrawable(c, b, repay, info.lltv, info.priceRate, CollDecimals)
      BY <1>8, <2>2
    <3> QED
      BY <1>1, <1>5, <1>11, <1>15, <3>1, <3>2, <3>3, MayLeaveAgrees
  <2> QED
    BY <2>1, <2>2
<1> QED
  BY <1>9, <1>12, <1>14, <1>16

LEMMA AgreedIs ==
  TInv => TwinsAgree
<1>1. SUFFICES ASSUME TInv, kind = "market", data # Nothing PROVE TwinsAgree
  BY DEF TwinsAgree
<1>2. Exact(info.priceRate, info.lltv) /\ Figured(data, info) /\ Simulated
  BY <1>1 DEF TInv
<1>3. PICK C, w, m : /\ C = Wads(data.collateral) /\ w = Wads(data.borrowed)
                     /\ m = IF data.borrowed.n = 0 THEN 0 ELSE w + 1
  OBVIOUS
<1>4. Owing(data.borrowed, w, m)
  BY <1>2, <1>3, OwedIs DEF Figured
<1>5. PICK price, lltv : price = info.priceRate.n /\ lltv = info.lltv.n
  OBVIOUS
<1>6. /\ SameFigures(RawSimulation(C, w, price, lltv), RawSimulation(C, m, price, lltv), data)
      /\ SameLoanable(RawSimulation(C, w, price, lltv), RawSimulation(C, m, price, lltv),
                      data.loanable)
      /\ SameWithdrawable(RawSimulation(C, w, price, lltv), RawSimulation(C, m, price, lltv),
                          data.withdrawable)
  BY <1>2, <1>3, <1>4, <1>5, TodayAgrees
<1> DEFINE borrow(debt) == RawSimulateBorrow(C, debt, price, lltv,
                             InWads(asked.first, CollDecimals),
                             InWads(asked.second, LoanDecimals))
           repay(debt)  == RawSimulateRepay(C, debt, price, lltv,
                             IF asked.all THEN debt ELSE InWads(asked.first, LoanDecimals),
                             InWads(asked.second, CollDecimals))
<1>7. asked.op = "borrow" => /\ SameFigures(borrow(w), borrow(m), sim)
                             /\ SameLoanable(borrow(w), borrow(m), sim.loanable)
  <2>1. SUFFICES ASSUME asked.op = "borrow"
                 PROVE  /\ SameFigures(borrow(w), borrow(m), sim)
                        /\ SameLoanable(borrow(w), borrow(m), sim.loanable)
    OBVIOUS
  <2>2. PICK first \in Nat, second \in Nat :
          /\ first = asked.first /\ second = asked.second
          /\ sim = SimulateMarketBorrow(first, second, data, info)
    BY <1>2, <2>1 DEF Simulated, Nothing
  <2>3. PICK less, more :
          /\ less = RawSimulateBorrow(C, w, info.priceRate.n, info.lltv.n,
                      InWads(first, CollDecimals), InWads(second, LoanDecimals))
          /\ more = RawSimulateBorrow(C, m, info.priceRate.n, info.lltv.n,
                      InWads(first, CollDecimals), InWads(second, LoanDecimals))
    OBVIOUS
  <2>4. SameFigures(less, more, sim) /\ SameLoanable(less, more, sim.loanable)
    BY <1>2, <1>3, <1>4, <2>2, <2>3, BorrowAgrees
  <2> QED
    BY <1>5, <2>2, <2>3, <2>4
<1>8. asked.op = "repay" /\ sim.borrowed.n >= 0 =>
        /\ SameFigures(repay(w), repay(m), sim)
        /\ SameWithdrawable(repay(w), repay(m),
             Minus(sim.withdrawable, Dec(asked.second, CollDecimals)))
  <2>1. SUFFICES ASSUME asked.op = "repay", sim.borrowed.n >= 0
                 PROVE  /\ SameFigures(repay(w), repay(m), sim)
                        /\ SameWithdrawable(repay(w), repay(m),
                             Minus(sim.withdrawable, Dec(asked.second, CollDecimals)))
    OBVIOUS
  <2>2. PICK first \in Nat, second \in Nat, all \in BOOLEAN :
          /\ first = asked.first /\ second = asked.second /\ all = asked.all
          /\ sim = SimulateMarketRepay(first, second, all, data, info)
    BY <1>2, <2>1 DEF Simulated, Nothing
  <2>3. PICK less, more :
          /\ less = RawSimulateRepay(C, w, info.priceRate.n, info.lltv.n,
                      IF all THEN w ELSE InWads(first, LoanDecimals),
                      InWads(second, CollDecimals))
          /\ more = RawSimulateRepay(C, m, info.priceRate.n, info.lltv.n,
                      IF all THEN m ELSE InWads(first, LoanDecimals),
                      InWads(second, CollDecimals))
    OBVIOUS
  <2>4. /\ SameFigures(less, more, sim)
        /\ SameWithdrawable(less, more, Minus(sim.withdrawable, Dec(second, CollDecimals)))
    BY <1>2, <1>3, <1>4, <2>1, <2>2, <2>3, RepayAgrees
  <2> QED
    BY <1>5, <2>2, <2>3, <2>4
<1> QED
  BY <1>3, <1>5, <1>6, <1>7, <1>8 DEF TwinsAgree

-----------------------------------------------------------------------------
(* The steps.                                                              *)

LEMMA TInit ==
  FiguresInit => TInv
<1>1. ASSUME OfLoans PROVE TInv
  BY <1>1 DEF OfLoans, TInv
<1>2. ASSUME Init, kind = "market" PROVE TInv
  <2>1. /\ kind \in DOMAIN Chain /\ chain \in Chain[kind] /\ phase = "start"
        /\ data = Nothing /\ asked = Nothing
    BY <1>2 DEF Init
  <2>2. /\ PriceRate(chain.price, CollDecimals).n > 0
        /\ (chain.lltv * Threshold.n) % Scale[Threshold.d] = 0
    BY <1>2, <2>1, AdviceAssumption
  <2> QED
    BY <2>1, <2>2 DEF TInv
<1>3. ASSUME Init, kind # "market" PROVE TInv
  BY <1>3 DEF TInv
<1> QED
  BY <1>1, <1>2, <1>3 DEF FiguresInit, OfAPosition

(* The market as it is read.                                               *)
LEMMA ExactIs ==
  ASSUME NEW c, NEW k, NEW t, NEW behind, OnChain(c, k, t, behind), kind = "market",
         PriceRate(c.price, CollDecimals).n > 0,
         (c.lltv * Threshold.n) % Scale[Threshold.d] = 0
  PROVE  Exact(InfoOf(c).priceRate, InfoOf(c).lltv)
<1>1. PICK price \in Nat, lltv \in Nat \ {0} : price = c.price /\ lltv = c.lltv
  BY DEF OnChain
<1>2. PICK p \in Decimal : p = PriceRate(price, CollDecimals) /\ p.n > 0 /\ p.d = WadDecimals
  <2>1. PriceRate(price, CollDecimals) \in Decimal
    BY PriceRateIs, DigitsAre
  <2>2. PICK a \in Decimal, b \in Decimal, e \in Decimal :
          /\ a = Dec(price, 2 * WadDecimals)
          /\ b = Dec(Scale[CollDecimals], 0)
          /\ e = Dec(Scale[LoanDecimals], 0) /\ e.n > 0
    <3>1. PICK f \in Nat \ {0}, h \in Nat \ {0} :
            f = Scale[CollDecimals] /\ h = Scale[LoanDecimals]
      BY ScaleIs, DigitsAre
    <3>2. 2 * WadDecimals \in Nat
      BY DigitsAre
    <3> QED
      BY <3>1, <3>2, DecIs
  <2>3. PICK x \in Decimal : x = Times(a, b)
    BY TimesIs
  <2>4. PICK y \in Decimal : y = Over(x, e)
    BY <2>2, OverIs
  <2>5. RoundDown(y, WadDecimals).d = WadDecimals
    BY RoundDownIs, DigitsAre
  <2>6. PriceRate(price, CollDecimals) = RoundDown(y, WadDecimals)
    BY <2>2, <2>3, <2>4 DEF PriceRate
  <2> QED
    BY <1>1, <2>1, <2>5, <2>6
<1>3. PICK l \in Decimal : l = Dec(lltv, WadDecimals) /\ l.n = lltv /\ l.d = WadDecimals
  BY DecIs, DigitsAre
<1>4. InfoOf(c).priceRate = p /\ InfoOf(c).lltv = l
  BY <1>1, <1>2, <1>3 DEF InfoOf, MarketExtraInfo
<1> QED
  BY <1>1, <1>2, <1>3, <1>4 DEF Exact

(* What is owed has the digits of a base, of shares, and of an interest.   *)
LEMMA SpareIs ==
  ASSUME NEW i, NEW k, NEW t \in Nat, NEW behind \in Nat, NEW shares \in Nat,
         GoodInfo(i, k, t, behind)
  PROVE  Spare(Owes(shares, i, t - behind))
<1>1. /\ i.rateView \in Nat /\ i.lastUpdate \in Nat /\ i.lastUpdate <= t
      /\ i.totalBorrowAssets \in Nat /\ i.totalBorrowShares \in Nat
      /\ i.rateView * behind <= Wad
  BY DEF GoodInfo
<1>2. CASE i.totalBorrowShares = 0
  BY <1>2, UnitsAre DEF Owes, Spare
<1>3. CASE i.totalBorrowShares # 0
  <2>1. PICK a \in Decimal, b \in Decimal, e \in Decimal :
          /\ a = Dec(i.totalBorrowAssets, LoanDecimals) /\ a.d = LoanDecimals
          /\ b = Dec(shares, WadDecimals) /\ b.d = WadDecimals
          /\ e = Dec(i.totalBorrowShares, WadDecimals) /\ e.d = WadDecimals /\ e.n > 0
    BY <1>1, <1>3, DecIs, DigitsAre
  <2>2. PICK x \in Decimal : x = Times(a, b) /\ x.d = LoanDecimals + WadDecimals
    BY <2>1, TimesIs
  <2>3. PICK base \in Decimal :
          base = Over(x, e) /\ base.d = LoanDecimals + WadDecimals + WadDecimals
    BY <2>1, <2>2, OverIs
  <2>4. PICK u \in Int : u = TaylorCompounded(i.rateView, (t - behind) - i.lastUpdate)
    <3>1. (t - behind) - i.lastUpdate \in Int /\ -behind <= (t - behind) - i.lastUpdate
      BY <1>1
    <3> QED
      BY <1>1, <3>1, TaylorBehind
  <2>5. PICK grown \in Decimal :
          grown = Plus(Dec(u, WadDecimals), One) /\ grown.d = WadDecimals
    <3>1. PICK y \in Decimal : y = Dec(u, WadDecimals) /\ y.d = WadDecimals
      BY DecIs, DigitsAre
    <3>2. MoreDigits(y, One) = WadDecimals
      BY <3>1, UnitsAre, DigitsAre DEF MoreDigits
    <3> QED
      BY <3>1, <3>2, UnitsAre, PlusIs
  <2>6. Owes(shares, i, t - behind) = Times(base, grown)
    BY <1>3, <2>1, <2>2, <2>3, <2>4, <2>5 DEF Owes
  <2>7. Times(base, grown).d = base.d + grown.d
    BY TimesIs
  <2> QED
    BY <2>3, <2>5, <2>6, <2>7, DigitsAre DEF Spare
<1> QED
  BY <1>2, <1>3

LEMMA FiguredIs ==
  ASSUME NEW c, NEW i, NEW t \in Nat, NEW behind \in Nat, kind = "market",
         OnChain(c, kind, t, behind), GoodInfo(i, kind, t, behind)
  PROVE  Figured(DataOf(c, i, t - behind), i)
<1>1. PICK shares \in Nat, n \in Nat : shares = c.shares /\ n = c.collateral
  BY DEF OnChain
<1>2. PICK x \in Decimal : x = Dec(n, CollDecimals) /\ x.n = n /\ x.d = CollDecimals
  BY DecIs, DigitsAre
<1>3. PICK b \in Decimal : b = Owes(shares, i, t - behind) /\ b.n >= 0 /\ Spare(b)
  <2>1. Owes(shares, i, t - behind) \in Decimal /\ Owes(shares, i, t - behind).n >= 0
    BY OwesIs
  <2>2. Spare(Owes(shares, i, t - behind))
    BY SpareIs
  <2> QED
    BY <2>1, <2>2
<1>4. PICK position : position = [collateral |-> c.collateral, borrowShares |-> c.shares]
  OBVIOUS
<1>5. DataOf(c, i, t - behind) = MarketUserData(position, i, t - behind)
  BY <1>4 DEF DataOf
<1>6. position.collateral = n /\ position.borrowShares = shares
  BY <1>1, <1>4
<1>7. PICK d : d = MarketUserData(position, i, t - behind)
  OBVIOUS
<1>8. /\ d.collateral = x /\ d.borrowed = b
      /\ d.LTV = ComputeLTV(b, x, i.priceRate)
      /\ d.loanable = ComputeLoanable(x, b, Times(i.lltv, Threshold), i.priceRate)
      /\ d.withdrawable = ComputeWithdrawable(x, b, Zero, i.lltv, i.priceRate, CollDecimals)
      /\ d.liqPriceRate = ComputeLiqPriceRate(b, x, i.lltv)
  BY <1>2, <1>3, <1>6, <1>7 DEF MarketUserData
<1> QED
  BY <1>2, <1>3, <1>5, <1>7, <1>8 DEF Figured

LEMMA ReadInfoTwins ==
  ASSUME AInv, TInv, kind = "market", ReadInfo
  PROVE  TInv'
<1>1. /\ phase = "start" /\ info' = InfoOf(chain) /\ phase' = "info"
      /\ kind' = kind /\ data' = data /\ asked' = asked
  BY DEF ReadInfo
<1>2. OnChain(chain, kind, now, lag)
  BY DEF AInv, Lent
<1>3. /\ PriceRate(chain.price, CollDecimals).n > 0
      /\ (chain.lltv * Threshold.n) % Scale[Threshold.d] = 0
      /\ data = Nothing /\ asked = Nothing
  BY <1>1 DEF TInv
<1>4. Exact(InfoOf(chain).priceRate, InfoOf(chain).lltv)
  BY <1>2, <1>3, ExactIs
<1> QED
  BY <1>1, <1>3, <1>4 DEF TInv

LEMMA ReadUserTwins ==
  ASSUME AInv, TInv, kind = "market", ReadUser
  PROVE  TInv'
<1>1. /\ phase = "info" /\ data' = DataOf(chain, info, now - lag) /\ phase' = "data"
      /\ kind' = kind /\ info' = info /\ asked' = asked
  BY DEF ReadUser
<1>2. /\ OnChain(chain, kind, now, lag) /\ GoodInfo(info, kind, now, lag)
      /\ now \in Nat /\ lag \in Nat
  BY <1>1 DEF AInv, Lent
<1>3. Exact(info.priceRate, info.lltv) /\ asked = Nothing
  BY <1>1 DEF TInv
<1>4. Figured(DataOf(chain, info, now - lag), info)
  BY <1>2, FiguredIs
<1> QED
  BY <1>1, <1>3, <1>4 DEF TInv, Simulated

LEMMA BorrowTwins ==
  ASSUME AInv, TInv, SimulateBorrowPosition
  PROVE  TInv'
<1>1. kind = "market" /\ phase = "data"
  BY DEF SimulateBorrowPosition
<1>2. PICK supply \in Amounts :
        \E borrow \in Choices(Amounts, Raw(
             SimulateMarketBorrow(supply, 0, data, info).baseLoanable, LoanDecimals)) :
          Asks("borrow", supply, borrow, borrow, FALSE, "none", FALSE,
               SimulateMarketBorrow(supply, borrow, data, info))
  BY DEF SimulateBorrowPosition
<1>3. PICK advised :
        advised = Raw(SimulateMarketBorrow(supply, 0, data, info).baseLoanable, LoanDecimals)
  OBVIOUS
<1>4. PICK borrow \in Choices(Amounts, advised) :
        Asks("borrow", supply, borrow, borrow, FALSE, "none", FALSE,
             SimulateMarketBorrow(supply, borrow, data, info))
  BY <1>2, <1>3
<1>5. supply \in Nat /\ Amounts \subseteq Nat
  BY AdviceAssumption
<1>6. Figured(data, info) /\ Exact(info.priceRate, info.lltv)
  BY <1>1 DEF TInv
<1>7. advised \in Int
  <2>1. PICK c \in Decimal : c = Plus(data.collateral, Dec(supply, CollDecimals))
    <3>1. Dec(supply, CollDecimals) \in Decimal
      BY <1>5, DecIs, DigitsAre
    <3> QED
      BY <1>6, <3>1, PlusIs DEF Figured
  <2>2. PICK margin \in Decimal : margin = Times(info.lltv, Threshold)
    BY <1>6, TimesIs, PositionAssumption DEF Exact
  <2>3. SimulateMarketBorrow(supply, 0, data, info).baseLoanable
          = ComputeLoanable(c, data.borrowed, margin, info.priceRate)
    BY <2>1, <2>2 DEF SimulateMarketBorrow
  <2>4. PICK b \in Decimal, price \in Decimal : b = data.borrowed /\ price = info.priceRate
    BY <1>6 DEF Figured, Exact
  <2>5. Raw(ComputeLoanable(c, b, margin, price), LoanDecimals) \in Int
    BY LoanableIs
  <2> QED
    BY <1>3, <2>3, <2>4, <2>5
<1>8. borrow \in Nat
  BY <1>4, <1>5, <1>7, ChoiceIs
<1>9. /\ asked' = [op |-> "borrow", first |-> supply, second |-> borrow, most |-> borrow,
                   all |-> FALSE, detail |-> "none", blind |-> FALSE]
      /\ sim' = SimulateMarketBorrow(supply, borrow, data, info) /\ phase' = "asked"
      /\ kind' = kind /\ info' = info /\ data' = data
  BY <1>4 DEF Asks
<1>10. asked'.op = "borrow" /\ asked'.first = supply /\ asked'.second = borrow
  BY <1>9
<1>11. Simulated'
  BY <1>5, <1>8, <1>9, <1>10 DEF Simulated
<1> QED
  BY <1>1, <1>6, <1>9, <1>11 DEF TInv

LEMMA RepayTwins ==
  ASSUME AInv, TInv, SimulateRepayPosition
  PROVE  TInv'
<1>1. kind = "market" /\ phase = "data"
  BY DEF SimulateRepayPosition
<1>2. PICK repay \in Amounts, all \in BOOLEAN :
        \E withdraw \in Choices(Amounts, Raw(
             SimulateMarketRepay(repay, 0, all, data, info).withdrawable, CollDecimals)) :
          Asks("repay", repay, withdraw, withdraw, all, "none", FALSE,
               SimulateMarketRepay(repay, withdraw, all, data, info))
  BY DEF SimulateRepayPosition
<1>3. PICK advised :
        advised = Raw(SimulateMarketRepay(repay, 0, all, data, info).withdrawable, CollDecimals)
  OBVIOUS
<1>4. PICK withdraw \in Choices(Amounts, advised) :
        Asks("repay", repay, withdraw, withdraw, all, "none", FALSE,
             SimulateMarketRepay(repay, withdraw, all, data, info))
  BY <1>2, <1>3
<1>5. repay \in Nat /\ Amounts \subseteq Nat
  BY AdviceAssumption
<1>6. Figured(data, info) /\ Exact(info.priceRate, info.lltv)
  BY <1>1 DEF TInv
<1>7. advised \in Int
  <2>1. PICK c \in Decimal, b \in Decimal, r \in Decimal :
          c = data.collateral /\ b = data.borrowed /\ r = Dec(repay, LoanDecimals)
    BY <1>5, <1>6, DecIs, DigitsAre DEF Figured
  <2>2. CASE all
    <3>1. SimulateMarketRepay(repay, 0, all, data, info).withdrawable = c
      BY <2>1, <2>2 DEF SimulateMarketRepay
    <3> QED
      BY <1>3, <3>1, RoundDownIs, DigitsAre
  <2>3. CASE ~all
    <3>1. SimulateMarketRepay(repay, 0, all, data, info).withdrawable
            = ComputeWithdrawable(c, b, r, info.lltv, info.priceRate, CollDecimals)
      BY <2>1, <2>3 DEF SimulateMarketRepay
    <3>2. Raw(ComputeWithdrawable(c, b, r, info.lltv, info.priceRate, CollDecimals),
              CollDecimals) \in Int
      BY <1>6, LeavesIs
    <3> QED
      BY <1>3, <3>1, <3>2
  <2> QED
    BY <2>2, <2>3
<1>8. withdraw \in Nat
  BY <1>4, <1>5, <1>7, ChoiceIs
<1>9. /\ asked' = [op |-> "repay", first |-> repay, second |-> withdraw, most |-> withdraw,
                   all |-> all, detail |-> "none", blind |-> FALSE]
      /\ sim' = SimulateMarketRepay(repay, withdraw, all, data, info) /\ phase' = "asked"
      /\ kind' = kind /\ info' = info /\ data' = data
  BY <1>4 DEF Asks
<1>10. /\ asked'.op = "repay" /\ asked'.first = repay /\ asked'.second = withdraw
       /\ asked'.all = all
  BY <1>9
<1>11. Simulated'
  BY <1>5, <1>8, <1>9, <1>10 DEF Simulated
<1> QED
  BY <1>1, <1>6, <1>9, <1>11 DEF TInv

(* A step that neither reads nor simulates: past the start the chain does  *)
(* not matter, and at the start it keeps its price and its LLTV.           *)
LEMMA TwinsKept ==
  ASSUME TInv, kind' = kind, info' = info, data' = data, asked' = asked, sim' = sim,
         kind = "market" =>
           \/ phase' = phase
                /\ (phase = "start" => chain'.price = chain.price /\ chain'.lltv = chain.lltv)
           \/ {phase, phase'} \cap {"start", "info", "data"} = {}
  PROVE  TInv'
<1>1. CASE kind # "market"
  BY <1>1 DEF TInv
<1>2. CASE kind = "market" /\ phase' = phase
  BY <1>2 DEF TInv, Simulated
<1>3. CASE kind = "market" /\ {phase, phase'} \cap {"start", "info", "data"} = {}
  <2>1. phase \notin {"start", "info", "data"} /\ phase' \notin {"start", "info", "data"}
    BY <1>3
  <2> QED
    BY <1>3, <2>1 DEF TInv, Simulated
<1> QED
  BY <1>1, <1>2, <1>3

LEMMA TStep ==
  ASSUME AInv, TInv, [FiguresNext]_<<vars, loanVars>>
  PROVE  TInv'
<1>1. CASE kind # "loans" /\ Next
  <2>1. kind' = kind
    BY <1>1, KindKept
  <2>2. CASE kind # "market"
    BY <2>1, <2>2 DEF TInv
  <2>3. CASE kind = "market"
    <3>1. CASE ReadInfo
      BY <2>3, <3>1, ReadInfoTwins
    <3>2. CASE ReadUser
      BY <2>3, <3>2, ReadUserTwins
    <3>3. CASE SimulateBorrowPosition
      BY <3>3, BorrowTwins
    <3>4. CASE SimulateRepayPosition
      BY <3>4, RepayTwins
    <3>5. CASE BorrowOnSmart
      BY <2>3, <3>5 DEF BorrowOnSmart
    <3>6. CASE RepayOnSmart
      BY <2>3, <3>6 DEF RepayOnSmart
    <3>7. CASE MoveOnVault
      BY <2>3, <3>7 DEF MoveOnVault
    <3>8. CASE FirstLeg
      <4>1. /\ phase = "asked" /\ phase' \in {"unpaid", "landed", "half"}
            /\ info' = info /\ data' = data /\ asked' = asked /\ sim' = sim
        BY <3>8 DEF FirstLeg
      <4> QED
        BY <2>1, <4>1, TwinsKept
    <3>9. CASE SecondLeg
      <4>1. /\ phase = "half" /\ phase' \in {"refused", "landed"}
            /\ info' = info /\ data' = data /\ asked' = asked /\ sim' = sim
        BY <3>9 DEF SecondLeg
      <4> QED
        BY <2>1, <4>1, TwinsKept
    <3>10. CASE Elapse
      BY <2>1, <3>10, TwinsKept DEF Elapse
    <3>11. CASE OthersAccrue
      <4>1. /\ chain' = Accrued(chain) /\ phase' = phase
            /\ info' = info /\ data' = data /\ asked' = asked /\ sim' = sim
        BY <3>11 DEF OthersAccrue
      <4>2. OnChain(chain, kind, now, lag) /\ now \in Nat
        BY <2>3 DEF AInv, Lent
      <4>3. Accrued(chain).price = chain.price /\ Accrued(chain).lltv = chain.lltv
        <5>1. \A x \in DOMAIN chain \ {"borrowAssets", "lastUpdate"} :
                Accrued(chain)[x] = chain[x]
          BY <4>2, BookedIs
        <5>2. "price" \in DOMAIN chain /\ "lltv" \in DOMAIN chain
          BY <4>2 DEF OnChain
        <5> QED
          BY <5>1, <5>2
      <4> QED
        BY <2>1, <4>1, <4>3, TwinsKept
    <3>12. CASE VaultEarns
      BY <2>3, <3>12 DEF VaultEarns
    <3> QED
      BY <1>1, <3>1, <3>2, <3>3, <3>4, <3>5, <3>6, <3>7, <3>8, <3>9, <3>10, <3>11, <3>12
         DEF Next
  <2> QED
    BY <2>2, <2>3
<1>2. CASE UNCHANGED vars
  BY <1>2 DEF vars, TInv, Simulated
<1> QED
  BY <1>1, <1>2 DEF FiguresNext

(* What a caller is shown of a market's position, and of what an operation *)
(* makes of it, is the same on decimals (simulate/market.ts) and on        *)
(* bigints (calculations/position.ts), within what TwinsAgree allows       *)
(* either to cut.                                                          *)
THEOREM TwinsHold ==
  FiguresSpec => []TwinsAgree
<1>1. AInv /\ TInv /\ [FiguresNext]_<<vars, loanVars>> => (AInv /\ TInv)'
  BY AStep, TStep
<1>2. FiguresInit => AInv /\ TInv
  BY AInit, TInit
<1>3. TInv => TwinsAgree
  BY AgreedIs
<1> QED
  BY <1>1, <1>2, <1>3, PTL DEF FiguresSpec
=============================================================================
