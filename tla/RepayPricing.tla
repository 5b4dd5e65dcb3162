---------------------------- MODULE RepayPricing ----------------------------
(***************************************************************************)
(* A repayment is priced from what the chain says now and taken at the     *)
(* price of the block that includes it (builders/market.ts                 *)
(* buildRepaySteps, builders/sharePricing.ts sharesToAssetCeiling,         *)
(* read/market/getMarketUserData.ts).                                      *)
(*                                                                         *)
(* One borrower owes `position` borrow shares of one market.  The market   *)
(* contract is external.  It stores its totals when it is touched and      *)
(* folds in the interest of the time since only on the next touch, so the  *)
(* totals a builder reads are older than the debt.  Meanwhile others       *)
(* borrow and repay, and may repay for the borrower.  A repayment of       *)
(* everything takes the market from one read and the position from a later *)
(* one.                                                                    *)
(***************************************************************************)
EXTENDS SharePricing

CONSTANTS
  Method,         \* how the repayment is asked for
  InitMarket,     \* markets to start from
  Amounts,        \* assets others may borrow, and the borrower may name
  Shares,         \* borrow shares others may repay, and the borrower may name
  RateDivisor,    \* twenty minutes of interest are one part in this many
  MaxInterest,    \* bound on the interest earned
  MaxMoves        \* bound on what others do

Methods == {"assets", "shares", "all"}

ASSUME RepayAssumption ==
  /\ Method \subseteq Methods
  /\ InitMarket \subseteq [assets : Nat, shares : Nat, unfolded : Nat, position : Nat]
  /\ \A m \in InitMarket : m.position <= m.shares
  /\ Amounts \subseteq Nat \ {0} /\ Shares \subseteq Nat \ {0}
  /\ RateDivisor \in Nat \ {0}
  /\ MaxInterest \in Nat /\ MaxMoves \in Nat

VARIABLES
  market,     \* stored totals, interest not folded in yet, the borrower's shares
  method,     \* how this repayment is asked for
  seen,       \* the market as repayAll last read it
  request,    \* the assets and shares of the repay call
  ceiling,    \* the allowance its builder asks for
  outcome,    \* "none", "read", "quoted", or how the call fared
  slack,      \* history: how far above its own figure the builder asked
  earned,     \* history: interest the quote has not seen
  moves       \* history: what others did

vars == <<market, method, seen, request, ceiling, outcome, slack, earned, moves>>

TypeOK ==
  /\ market \in [assets : Nat, shares : Nat, unfolded : Nat, position : Nat]
  /\ method \in Method
  /\ seen \in [assets : Nat, shares : Nat, unfolded : Nat, position : Nat]
  /\ request \in [assets : Nat, shares : Nat]
  /\ ceiling \in Nat
  /\ outcome \in {"none", "read", "quoted", "settled", "starved", "refused"}
  /\ slack \in Int
  /\ earned \in Nat
  /\ moves \in 0..MaxMoves

Init ==
  /\ market \in InitMarket
  /\ method \in Method
  /\ seen = market
  /\ request = [assets |-> 0, shares |-> 0]
  /\ ceiling = 0
  /\ outcome = "none"
  /\ slack = 0
  /\ earned = market.unfolded
  /\ moves = 0
-----------------------------------------------------------------------------
(* The market contract: Morpho's share arithmetic.                         *)

(* Variant: subtraction without a floor.                                   *)
PlainMinus(a, b) == a - b

Monus(a, b) == IF a > b THEN a - b ELSE 0

Folded(m) == [m EXCEPT !.assets = @ + m.unfolded, !.unfolded = 0]

AssetsUp(n, m) ==
  CeilDiv(n * (m.assets + VirtualAssets), m.shares + VirtualShares)
SharesUp(a, m) ==
  CeilDiv(a * (m.shares + VirtualShares), m.assets + VirtualAssets)
SharesDown(a, m) ==
  (a * (m.shares + VirtualShares)) \div (m.assets + VirtualAssets)

Repaid(m, a, n) == [m EXCEPT !.assets = Monus(@, a), !.shares = @ - n]

(* What the call would take, and clear, in the next block.                 *)
PulledBy(r, m)  == IF r.assets > 0 THEN r.assets ELSE AssetsUp(r.shares, Folded(m))
ClearedBy(r, m) == IF r.assets > 0 THEN SharesDown(r.assets, Folded(m)) ELSE r.shares
-----------------------------------------------------------------------------
(* The builder.                                                            *)

(* repayAll prices the position without the virtual amounts, with the      *)
(* interest since the last touch; then adds twenty minutes, and only at    *)
(* the very end rounds down.                                               *)
Borrowed(m, factor, divisor) ==
  ((m.assets + m.unfolded) * m.position * factor) \div (m.shares * divisor)

ExtraRepayAmount(m) == Borrowed(m, RateDivisor + 1, RateDivisor)

(* A share ceiling is read off the stored totals.                          *)
SharesToAssetCeiling(n, m) == WithHeadroom(ToAssetsUp(n, m.assets, m.shares))

(* The builder asks for a ceiling of c; it took the call to cost base, on  *)
(* a market whose last `unseen` of interest it did not know of.            *)
Quoted(r, base, c, unseen) ==
  /\ request' = r
  /\ ceiling' = c
  /\ outcome' = "quoted"
  /\ slack' = c - base
  /\ earned' = unseen
  /\ UNCHANGED <<market, method, seen, moves>>

(* A position without shares has nothing to repay; nor has its market a    *)
(* price, and the builder throws.                                          *)
QuoteAssets ==
  /\ method = "assets" /\ outcome = "none"
  /\ \E a \in Amounts : Quoted([assets |-> a, shares |-> 0], a, a, 0)

QuoteShares ==
  /\ method = "shares" /\ outcome = "none"
  /\ market.shares > 0
  /\ \E n \in Shares :
       /\ n <= market.position
       /\ Quoted([assets |-> 0, shares |-> n],
                 ToAssetsUp(n, market.assets, market.shares),
                 SharesToAssetCeiling(n, market), market.unfolded)

(* The totals; the clock says what they have earned since the last touch.  *)
ReadMarket ==
  /\ method = "all" /\ outcome = "none"
  /\ seen' = market
  /\ outcome' = "read"
  /\ earned' = 0
  /\ UNCHANGED <<market, method, request, ceiling, slack, moves>>

(* The position as it is now, in the market as it was, with what the clock *)
(* adds for the time between: no more than was earned.                     *)
Seen(told) == [seen EXCEPT !.unfolded = @ + told, !.position = market.position]

(* Variant: repay everything by naming the assets.                         *)
QuoteAllByAssets ==
  /\ method = "all" /\ outcome = "read"
  /\ market.position > 0
  /\ \E told \in 0..earned :
       LET a == ExtraRepayAmount(Seen(told))
       IN Quoted([assets |-> a, shares |-> 0], a, a, earned)

(* Rounding down loses less than a unit, and in a market whose shares are  *)
(* worth less than the first ones were, leaving the virtual amounts out    *)
(* loses less than one more; base makes up for both.                       *)
Diluted(m) ==
  VirtualAssets * m.shares > VirtualShares * (m.assets + m.unfolded)

QuoteAll ==
  /\ method = "all" /\ outcome = "read"
  /\ market.position > 0
  /\ \E told \in 0..earned :
       Quoted([assets |-> 0, shares |-> market.position],
              Borrowed(Seen(0), 1, 1) + (IF Diluted(seen) THEN 2 ELSE 1),
              ExtraRepayAmount(Seen(told)), earned)
-----------------------------------------------------------------------------
(* What happens until the call is included.                                *)

(* Time passes.                                                            *)
Elapse ==
  /\ outcome \in {"none", "read", "quoted"}
  /\ earned < MaxInterest
  /\ market' = [market EXCEPT !.unfolded = @ + 1]
  /\ earned' = earned + 1
  /\ UNCHANGED <<method, seen, request, ceiling, outcome, slack, moves>>

Touched(m) ==
  /\ outcome \in {"none", "read", "quoted"}
  /\ moves < MaxMoves
  /\ market' = m
  /\ moves' = moves + 1
  /\ UNCHANGED <<method, seen, request, ceiling, outcome, slack, earned>>

OthersBorrow ==
  \E a \in Amounts :
    LET m == Folded(market)
    IN Touched([m EXCEPT !.assets = @ + a, !.shares = @ + SharesUp(a, m)])

OthersRepay ==
  \E n \in Shares :
    LET m == Folded(market)
    IN /\ n <= m.shares - m.position
       /\ Touched(Repaid(m, AssetsUp(n, m), n))

(* Anybody may repay on behalf of the borrower.                            *)
OthersRepayOurs ==
  \E n \in Shares :
    LET m == Folded(market)
    IN /\ n <= m.position
       /\ Touched([Repaid(m, AssetsUp(n, m), n) EXCEPT !.position = @ - n])

(* The call lands.                                                         *)
Include ==
  LET pull == PulledBy(request, market)
      n    == ClearedBy(request, market)
  IN /\ outcome = "quoted"
     /\ \/ /\ n > market.position
           /\ outcome' = "refused"
           /\ UNCHANGED market
        \/ /\ n <= market.position /\ pull > ceiling
           /\ outcome' = "starved"
           /\ UNCHANGED market
        \/ /\ n <= market.position /\ pull <= ceiling
           /\ outcome' = "settled"
           /\ market' = [Repaid(Folded(market), pull, n) EXCEPT !.position = @ - n]
     /\ UNCHANGED <<method, seen, request, ceiling, slack, earned, moves>>

Quote  == QuoteAssets \/ QuoteShares \/ ReadMarket \/ QuoteAll
Others == OthersBorrow \/ OthersRepay \/ OthersRepayOurs
Next   == Quote \/ Elapse \/ Others \/ Include
Spec   == Init /\ [][Next]_vars
-----------------------------------------------------------------------------
(* Correctness.                                                            *)

(* A repayment finds its allowance too small only when the whole market    *)
(* earned more interest, unseen by the builder, than the builder added to  *)
(* its own figure.  So the builder's arithmetic prices what the contract   *)
(* takes, and nothing others borrow or repay in between, between the two   *)
(* reads of a repayment of everything too, can exhaust the ceiling.        *)
StarvedOnlyByInterest == outcome = "starved" => earned > slack

(* A repayment of everything that goes through leaves no debt behind.      *)
RepayAllLeavesNoDebt ==
  (method = "all" /\ outcome = "settled") => market.position = 0

(* A call included at once, on the very block it was priced on, is covered *)
(* by the allowance its builder asks for.                                  *)
CoveredWhenQuoted ==
  [][(outcome # "quoted" /\ outcome' = "quoted")
       => PulledBy(request', market) <= ceiling']_vars
=============================================================================
