------------------------------ MODULE Advice ------------------------------
(***************************************************************************)
(* What a caller is told of a position, what he does with it, and what has *)
(* become of it by the time his transactions are mined.                    *)
(*                                                                         *)
(* He reads the market, then his position with the market he read, has an  *)
(* operation simulated on both, and sends its two transactions: collateral *)
(* in and a borrow, or a repayment and collateral out; a deposit or a      *)
(* withdrawal for a vault.  Time passes, and others make the protocol book *)
(* its interest, between any two of these steps.                           *)
(***************************************************************************)
EXTENDS SmartPositions

CONSTANTS
  MaxTime,      \* bound: how long the caller is watched
  Chain,        \* the markets and vaults he may find, by kind
  MaxYield,     \* bound: what a vault earns while he is watched
  Lags,         \* how far his clock may be behind the chain's
  Amounts,      \* raw amounts he may ask for, besides the advised ones
  LpAmounts,    \* the same of LP, and of either token of the pool
  Slippages     \* of a variable exit, as Decimals

(* What he finds: a market and his position in it, the same with the pool  *)
(* behind a Smart market, or a vault and his shares of it.                 *)
Markets ==
  [price : Nat, lltv : Nat \ {0}, rate : Nat, lastUpdate : Nat,
   borrowAssets : Nat, borrowShares : Nat, collateral : Nat, shares : Nat]
Pools == [balances : [1 .. 2 -> Nat], totalLp : Nat]
SmartMarkets ==
  [price : Nat, lltv : Nat \ {0}, rate : Nat, lastUpdate : Nat,
   borrowAssets : Nat, borrowShares : Nat, collateral : Nat, shares : Nat, pool : Pools]
Vaults ==
  [totalAssets : Nat, totalSupply : Nat, shares : Nat, balance : Nat, earned : Nat]

ChainTypes == [market |-> Markets, smart |-> SmartMarkets, vault |-> Vaults]

(* Shares are part of the supply, and nothing was booked in the future.  A *)
(* pool that is borrowed against is not empty.  No clock is so far behind  *)
(* that a debt doubles meanwhile.  A token has a price that the SDK's      *)
(* digits can show, and an LLTV few enough digits to keep its margin's.    *)
ASSUME AdviceAssumption ==
  /\ MaxTime \in Nat \ {0} /\ MaxYield \in Nat /\ Lags \subseteq Nat
  /\ Amounts \subseteq Nat /\ LpAmounts \subseteq Nat
  /\ \A k \in DOMAIN Chain : k \in DOMAIN ChainTypes /\ Chain[k] \subseteq ChainTypes[k]
  /\ \A k \in DOMAIN Chain \ {"vault"} : \A c \in Chain[k] :
       /\ c.shares <= c.borrowShares /\ c.lastUpdate <= 1
       /\ \A behind \in Lags : c.rate * behind <= Wad
       /\ k = "smart" => c.pool.balances[1] + c.pool.balances[2] > 0 /\ c.pool.totalLp > 0
       /\ k = "market" => /\ PriceRate(c.price, CollDecimals).n > 0
                          /\ (c.lltv * Threshold.n) % Scale[Threshold.d] = 0
  /\ \A k \in DOMAIN Chain \cap {"vault"} : \A c \in Chain[k] : c.shares <= c.totalSupply

VARIABLES
  kind,      \* of the position: "market", "smart" or "vault"
  now,       \* of the chain
  lag,
  chain,     \* what the reads return and the operations change
  info,      \* the market as the caller last read it
  data,      \* his position as computed from it
  readAt,    \* when, by the chain
  owedThen,  \* his debt on the chain when he read it
  asked,     \* the operation simulated and sent
  sim,
  phase

vars == <<kind, now, lag, chain, info, data, readAt, owedThen, asked, sim, phase>>

Nothing == [op |-> "none"]
Phases == {"start", "info", "data", "asked", "half", "landed", "refused", "unpaid"}
Done == {"landed", "refused", "unpaid"}

---------------------------------------------------------------------------
(* Moolah's accounting, with one virtual unit on either side, and a vault. *)

CeilingOf(n, d) == (n + d - 1) \div d

Accrued(c) ==
  [c EXCEPT !.borrowAssets =
              @ + (@ * TaylorCompounded(c.rate, now - c.lastUpdate)) \div Wad,
            !.lastUpdate = now]

Debt(c) == CeilingOf(c.shares * (c.borrowAssets + 1), c.borrowShares + 1)

Healthy(c) ==
  Debt(c) * Wad <= ((c.collateral * c.price) \div Scale[2 * WadDecimals]) * c.lltv

Borrowed(c, assets) ==
  LET n == CeilingOf(assets * (c.borrowShares + 1), c.borrowAssets + 1)
  IN [c EXCEPT !.shares = @ + n, !.borrowShares = @ + n, !.borrowAssets = @ + assets]

(* The shares given, or as many as the assets are worth.                   *)
Repaid(c, assets, everything) ==
  LET n == IF everything THEN c.shares
           ELSE (assets * (c.borrowShares + 1)) \div (c.borrowAssets + 1)
      paid == IF everything THEN Debt(c) ELSE assets
  IN [c EXCEPT !.shares = @ - n, !.borrowShares = @ - n,
               !.borrowAssets = IF @ > paid THEN @ - paid ELSE 0]

Deposited(c, assets) ==
  LET n == (assets * (c.totalSupply + 1)) \div (c.totalAssets + 1)
  IN [c EXCEPT !.shares = @ + n, !.totalSupply = @ + n, !.totalAssets = @ + assets,
               !.balance = @ - assets]

Withdrawn(c, assets) ==
  LET n == CeilingOf(assets * (c.totalSupply + 1), c.totalAssets + 1)
  IN [c EXCEPT !.shares = @ - n, !.totalSupply = @ - n, !.totalAssets = @ - assets,
               !.balance = @ + assets]

---------------------------------------------------------------------------
(* The reads.                                                              *)

InfoOf(c) ==
  CASE kind = "market" -> MarketExtraInfo(c, CollDecimals)
    [] kind = "smart"  -> SmartMarketExtraInfo(c, c.pool)
    [] kind = "vault"  -> [totalAssets |-> c.totalAssets, totalSupply |-> c.totalSupply]

DataOf(c, i, clock) ==
  LET position == [collateral |-> c.collateral, borrowShares |-> c.shares]
  IN CASE kind = "market" -> MarketUserData(position, i, clock)
       [] kind = "smart"  -> SmartMarketUserData(position, i, clock)
       [] kind = "vault"  -> VaultUserData(c, i)

Init ==
  /\ kind \in DOMAIN Chain
  /\ chain \in Chain[kind]
  /\ lag \in IF kind = "vault" THEN {0} ELSE Lags
  /\ now = 1
  /\ readAt = 0 /\ owedThen = 0
  /\ info = Nothing /\ data = Nothing /\ asked = Nothing /\ sim = Nothing
  /\ phase = "start"

ReadInfo ==
  /\ phase = "start"
  /\ info' = InfoOf(chain)
  /\ phase' = "info"
  /\ UNCHANGED <<kind, now, lag, chain, data, readAt, owedThen, asked, sim>>

ReadUser ==
  /\ phase = "info"
  /\ data' = DataOf(chain, info, now - lag)
  /\ readAt' = now
  /\ owedThen' = IF kind = "vault" THEN 0 ELSE Debt(Accrued(chain))
  /\ phase' = "data"
  /\ UNCHANGED <<kind, now, lag, chain, info, asked, sim>>

---------------------------------------------------------------------------
(* The simulations.  An operation is sent as its two legs; what leaves in  *)
(* the second may be more than asked, up to `most`.  `blind`: tokens of a  *)
(* pool move, and the caller has supplied no quote of the LP they are.     *)

Asks(op, first, second, most, all, detail, blind, result) ==
  /\ asked' = [op |-> op, first |-> first, second |-> second, most |-> most,
               all |-> all, detail |-> detail, blind |-> blind]
  /\ sim' = result
  /\ phase' = "asked"
  /\ UNCHANGED <<kind, now, lag, chain, info, data, readAt, owedThen>>

(* The amounts he may pick: his own, or everything he was advised.         *)
Choices(own, advised) == own \cup (IF advised > 0 THEN {advised} ELSE {})

SimulateBorrowPosition ==
  /\ kind = "market" /\ phase = "data"
  /\ \E supply \in Amounts :
       \E borrow \in Choices(Amounts, Raw(
            SimulateMarketBorrow(supply, 0, data, info).baseLoanable, LoanDecimals)) :
         Asks("borrow", supply, borrow, borrow, FALSE, "none", FALSE,
              SimulateMarketBorrow(supply, borrow, data, info))

SimulateRepayPosition ==
  /\ kind = "market" /\ phase = "data"
  /\ \E repay \in Amounts, all \in BOOLEAN :
       \E withdraw \in Choices(Amounts, Raw(
            SimulateMarketRepay(repay, 0, all, data, info).withdrawable, CollDecimals)) :
         Asks("repay", repay, withdraw, withdraw, all, "none", FALSE,
              SimulateMarketRepay(repay, withdraw, all, data, info))

Pairs == {[i \in 1 .. 2 |-> Dec(a, LoanDecimals)] : a \in LpAmounts}

(* The tokens go in or out by the pool's own rule, quoted or not.          *)
BorrowOnSmart ==
  /\ kind = "smart" /\ phase = "data"
  /\ \E lp \in LpAmounts, pair \in Pairs, borrow \in Amounts, quoted \in BOOLEAN :
     /\ lp > 0 => pair[1].n = 0 /\ quoted
     /\ LET put == Raw(Minus(LpSupplied(Dec(lp, WadDecimals), pair, TRUE, data, info),
                             data.collateral), WadDecimals)
       IN Asks("borrow", put, borrow, borrow, FALSE, "none", ~quoted /\ pair[1].n # 0,
               SimulateSmartMarketBorrow(Dec(lp, WadDecimals), pair,
                 Dec(borrow, LoanDecimals), quoted, data, info))

(* In LP, in tokens at the pool's proportion, or in tokens at any.         *)
RepayOnSmart ==
  /\ kind = "smart" /\ phase = "data"
  /\ \E repay \in Amounts, all, whole, quoted \in BOOLEAN,
        swapType \in {"lp", "fixed", "variable"}, pair \in Pairs, slippage \in Slippages :
       \E lp \in Choices(LpAmounts, Raw(ComputeSmartWithdrawable(data.collateral,
            data.borrowed, IF all THEN data.borrowed ELSE Dec(repay, LoanDecimals),
            info, slippage, TRUE)[3], WadDecimals)) :
         LET owed == IF all THEN Raw(data.borrowed, LoanDecimals) ELSE repay
             out(taken) == Raw(Minus(data.collateral,
                             LpLeft(swapType, Dec(lp, WadDecimals), pair, whole, taken,
                                    TRUE, data, info)), WadDecimals)
         IN /\ swapType # "lp" => lp = 0
            /\ swapType = "lp" => pair[1].n = 0 /\ quoted
            /\ Asks("repay", owed, out(Zero),
                    out(IF swapType = "variable" THEN slippage ELSE Zero),
                    all, swapType, ~quoted /\ ~whole /\ pair[1].n # 0,
                    SimulateSmartMarketRepay(swapType, Dec(owed, LoanDecimals),
                      Dec(lp, WadDecimals), pair, slippage, all, whole, quoted, data, info))

MoveOnVault ==
  /\ kind = "vault" /\ phase = "data"
  /\ \E amount \in Amounts :
       \/ /\ amount <= data.balance.n
          /\ Asks("deposit", amount, 0, 0, FALSE, "none", FALSE,
               SimulateVaultDeposit(amount, data))
       \/ /\ amount <= data.locked.n
          /\ Asks("withdraw", amount, 0, 0, FALSE, "none", FALSE,
               SimulateVaultWithdraw(amount, data))

---------------------------------------------------------------------------
(* The transactions.                                                       *)

FirstLeg ==
  /\ phase = "asked"
  /\ LET c == CASE asked.op = "borrow"   -> [chain EXCEPT !.collateral = @ + asked.first]
                [] asked.op = "repay"    -> Repaid(Accrued(chain), asked.first, asked.all)
                [] asked.op = "deposit"  -> Deposited(chain, asked.first)
                [] asked.op = "withdraw" -> Withdrawn(chain, asked.first)
         fails == c.shares < 0
     IN /\ chain' = IF fails THEN chain ELSE c
        /\ phase' = IF fails THEN "unpaid" ELSE IF kind = "vault" THEN "landed" ELSE "half"
  /\ UNCHANGED <<kind, now, lag, info, data, readAt, owedThen, asked, sim>>

SecondLeg ==
  /\ phase = "half"
  /\ \E amount \in asked.second .. asked.most :
       LET c == IF asked.op = "borrow" THEN Borrowed(Accrued(chain), amount)
                ELSE [Accrued(chain) EXCEPT !.collateral = @ - amount]
           fails == amount # 0 /\ (c.collateral < 0 \/ ~Healthy(c))
       IN /\ chain' = IF fails THEN chain ELSE IF amount = 0 THEN chain ELSE c
          /\ phase' = IF fails THEN "refused" ELSE "landed"
  /\ UNCHANGED <<kind, now, lag, info, data, readAt, owedThen, asked, sim>>

---------------------------------------------------------------------------
(* What happens meanwhile.                                                 *)

Elapse ==
  /\ phase \notin Done /\ kind # "vault"
  /\ now < MaxTime
  /\ now' = now + 1
  /\ UNCHANGED <<kind, lag, chain, info, data, readAt, owedThen, asked, sim, phase>>

(* Anybody's operation books the interest of the whole market.             *)
OthersAccrue ==
  /\ phase \notin Done /\ kind # "vault"
  /\ chain.lastUpdate < now
  /\ chain' = Accrued(chain)
  /\ UNCHANGED <<kind, now, lag, info, data, readAt, owedThen, asked, sim, phase>>

VaultEarns ==
  /\ phase \notin Done /\ kind = "vault"
  /\ chain.earned < MaxYield
  /\ chain' = [chain EXCEPT !.totalAssets = @ + 1, !.earned = @ + 1]
  /\ UNCHANGED <<kind, now, lag, info, data, readAt, owedThen, asked, sim, phase>>

Next ==
  \/ ReadInfo \/ ReadUser
  \/ SimulateBorrowPosition \/ SimulateRepayPosition
  \/ BorrowOnSmart \/ RepayOnSmart \/ MoveOnVault
  \/ FirstLeg \/ SecondLeg
  \/ Elapse \/ OthersAccrue \/ VaultEarns

Spec == Init /\ [][Next]_vars
---------------------------------------------------------------------------
(* Correctness.                                                            *)

(* What is on the chain stays a position, whatever the caller was advised; *)
(* a simulated ratio of a Smart position is none below zero.               *)
AdviceTypeOK ==
  /\ kind \in {"market", "smart", "vault"} /\ phase \in Phases
  /\ now \in 1 .. MaxTime /\ lag \in Nat /\ readAt \in 0 .. now
  /\ owedThen \in Nat /\ chain.shares \in Nat
  /\ kind = "vault" => chain.balance \in Nat /\ chain.totalSupply >= chain.shares
  /\ kind # "vault" => /\ chain.collateral \in Nat /\ chain.borrowAssets \in Nat
                       /\ chain.borrowShares >= chain.shares
                       /\ chain.lastUpdate \in 0 .. now
  /\ kind = "smart" /\ sim # Nothing => sim.LTV.n >= 0

(* What he was told would be owed, in units of the loan token, and the     *)
(* interest his whole debt earned since the read, and before it while his  *)
(* clock was behind.                                                       *)
Left == Raw(sim.borrowed, LoanDecimals)
EarnedSince ==
  Debt([Accrued(chain) EXCEPT !.shares = data.borrowShares]) - owedThen
    + CeilingOf(owedThen * TaylorCompounded(chain.rate, lag), Wad)

(* The chain rounds a debt up and the value of a collateral down.          *)
Dust == 2

(* A margin has room for that interest on what is left.                    *)
RoomLeft(margin) ==
  asked.all \/ margin.n * (Left + EarnedSince + Dust) <= Scale[margin.d] * Left

Advised ==
  IF asked.op = "borrow" THEN Raw(sim.baseLoanable, LoanDecimals)
  ELSE CASE kind = "market" -> Raw(sim.withdrawable, CollDecimals)
         [] kind = "smart"  -> Raw(sim.withdrawable[3], WadDecimals)

(* Taking no more than the SDK said could be borrowed or withdrawn is not  *)
(* refused, unless more interest accrued than the margin leaves room for.  *)
AdvisedIsSafe ==
  (phase = "refused" /\ asked.most <= Advised) => ~RoomLeft(Threshold)

(* A Smart exit that the simulation did not flag is not refused either, by *)
(* whatever the pool takes within the slippage.  There are two exceptions. *)
(* The ratio of a position with no LP left is zero whatever it owes, so an *)
(* exit that takes all of it is never flagged; and an exit in tokens that  *)
(* the caller simulated without a quote is judged as if it took no LP.     *)
ClearedMeansAccepted ==
  (phase = "refused" /\ kind = "smart" /\ asked.op = "repay" /\ ~asked.blind
     /\ ~sim.exceedError /\ asked.most < Raw(data.collateral, WadDecimals))
    => ~RoomLeft(IF asked.detail = "variable" THEN VariableThreshold ELSE Threshold)

(* At most `units` apart, counted in units of `digits` digits.             *)
Near(x, y, digits, units) ==
  LET gap == Raw(x, digits) - Raw(y, digits) IN -units <= gap /\ gap <= units

(* An operation that is mined before any more interest accrues leaves the  *)
(* position the simulation showed: the collateral, the debt, the ratio,    *)
(* and what may still be borrowed or taken out, read again by the same     *)
(* functions, are the simulated ones but for rounding.  A variable exit's  *)
(* collateral is the pool's to decide.  Of tokens the caller simulated     *)
(* without a quote the simulation does not know the LP: a supply is shown  *)
(* as if it were not made, and no less may be borrowed than is shown; of   *)
(* an exit neither the collateral nor the ratio comes true.                *)
(* A vault's position is worth what was simulated, plus what it earned.    *)
Foreseen == asked.detail # "variable" /\ ~asked.blind

SameCollateral(again) ==
  IF kind = "market"
  THEN Raw(again.collateral, WadDecimals) = Raw(sim.collateral, WadDecimals)
  ELSE \A i \in 1 .. 2 : Near(again.lpToken[i], sim.lpToken[i], WadDecimals, 1)

MarketComesTrue(again) ==
  /\ Near(again.borrowed, sim.borrowed, LoanDecimals, 2)
  /\ Foreseen => SameCollateral(again) /\ Near(again.LTV, sim.LTV, WadDecimals, 1)
  /\ asked.op = "borrow" =>
       LET more == Raw(again.loanable, LoanDecimals) - Raw(sim.loanable, LoanDecimals)
       IN -3 <= more /\ (Foreseen => more <= 3)
  /\ asked.op = "repay" /\ asked.detail # "variable" =>
       LET carries(collateral) ==
             Times(Times(collateral, info.priceRate), Times(info.lltv, Threshold))
           free == IF kind = "market"
                   THEN Minus(sim.withdrawable, Dec(asked.second, CollDecimals))
                   ELSE Minus(sim.withdrawable[3], Dec(asked.second, WadDecimals))
       IN Near(carries(IF kind = "market" THEN again.withdrawable ELSE again.withdrawable[3]),
               carries(free), LoanDecimals, 3)

VaultComesTrue(again) ==
  /\ again.balance = sim.balance
  /\ LET gain == again.locked.n - sim.locked.n IN -1 <= gain /\ gain <= chain.earned + 1

SimulationComesTrue ==
  phase = "landed" =>
    IF kind = "vault" THEN VaultComesTrue(DataOf(chain, InfoOf(chain), now))
    ELSE lag = 0 /\ now = readAt => MarketComesTrue(DataOf(chain, InfoOf(chain), now))

(* The two copies of the position arithmetic, on decimals and on bigints,  *)
(* tell the caller the same of his position and of what an operation makes *)
(* of it: what the decimals say lies between what the bigints make of the  *)
(* debt cut to wads and of a wad more, but for what either cuts on its way *)
(* to the figure.  Below zero they say zero; of a repayment beyond the     *)
(* debt the decimals say that more than the whole collateral may leave.    *)
Wads(x) == Raw(x, WadDecimals)
AtLeastZero(n) == IF n > 0 THEN n ELSE 0
InWads(amount, digits) == Wads(Dec(amount, digits))

Between(low, shown, high) ==
  low <= AtLeastZero(Wads(shown)) /\ AtLeastZero(Wads(shown)) <= high

(* The bigints divide by the collateral's worth in whole wads; of one that *)
(* is worth less they say zero, the decimals a ratio.                      *)
SameRatio(less, more, shown) ==
  LET worth == Quot(less.newCollateral * info.priceRate.n, Wad)
  IN IF worth > 0
     THEN /\ Wads(shown.LTV) <= more.newLTV
          /\ less.newLTV * worth <= (Wads(shown.LTV) + 1) * (worth + 1)
     ELSE less.newLTV = 0 /\ (shown.collateral.n <= 0 => shown.LTV = Zero)

(* The decimals' first quotient has the digits of debt and collateral.     *)
SameLiqPrice(less, more, shown) ==
  LET digits == shown.collateral.d + shown.borrowed.d
      cut == Quot(Wad * Wad, info.lltv.n * Scale[digits])
  IN Between(less.newLiqPrice - cut - 1, shown.liqPriceRate, more.newLiqPrice)

SameFigures(less, more, shown) ==
  /\ less.newCollateral = AtLeastZero(Wads(shown.collateral))
  /\ less.newBorrowed = Wads(shown.borrowed)
  /\ SameRatio(less, more, shown)
  /\ SameLiqPrice(less, more, shown)

SameLoanable(less, more, loanable) ==
  Between(more.newLoanable - Scale[WadDecimals - LoanDecimals] + 1, loanable,
          less.newLoanable + Scale[LoanDecimals] - 1)

SameWithdrawable(less, more, withdrawable) ==
  Between(more.newWithdrawable - Scale[WadDecimals - CollDecimals], withdrawable,
          less.newWithdrawable)

TwinsAgree ==
  kind = "market" /\ data # Nothing =>
    LET collateral == Wads(data.collateral)
        owed  == Wads(data.borrowed)
        price == info.priceRate.n
        lltv  == info.lltv.n
        today(debt)  == RawSimulation(collateral, debt, price, lltv)
        borrow(debt) == RawSimulateBorrow(collateral, debt, price, lltv,
                          InWads(asked.first, CollDecimals),
                          InWads(asked.second, LoanDecimals))
        repay(debt)  == RawSimulateRepay(collateral, debt, price, lltv,
                          IF asked.all THEN debt ELSE InWads(asked.first, LoanDecimals),
                          InWads(asked.second, CollDecimals))
        more == IF data.borrowed.n = 0 THEN 0 ELSE owed + 1
    IN /\ SameFigures(today(owed), today(more), data)
       /\ SameLoanable(today(owed), today(more), data.loanable)
       /\ SameWithdrawable(today(owed), today(more), data.withdrawable)
       /\ asked.op = "borrow" =>
            /\ SameFigures(borrow(owed), borrow(more), sim)
            /\ SameLoanable(borrow(owed), borrow(more), sim.loanable)
       /\ asked.op = "repay" /\ sim.borrowed.n >= 0 =>
            /\ SameFigures(repay(owed), repay(more), sim)
            /\ SameWithdrawable(repay(owed), repay(more),
                 Minus(sim.withdrawable, Dec(asked.second, CollDecimals)))
=============================================================================
