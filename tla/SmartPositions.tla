--------------------------- MODULE SmartPositions --------------------------
(***************************************************************************)
(* The same figures for a Smart position, whose collateral is an LP token  *)
(* of a two-token pool (read/smart, simulate/smart.ts).                    *)
(*                                                                         *)
(* The pool is what its reads return: both balances and the LP supply.     *)
(***************************************************************************)
EXTENDS Positions

CONSTANT VariableThreshold      \* 98.1 %, as a Decimal

ASSUME VariableAssumption == VariableThreshold \in Decimal /\ VariableThreshold.n >= 0

ComputeSmartLTV(borrowed, lp, priceRate) ==
  LET worth == Times(lp, priceRate)
  IN IF worth.n > 0 THEN Over(borrowed, worth) ELSE Zero

ComputeSmartLoanable(lp, borrowed, ltv, priceRate) ==
  RoundDown(Minus(Times(Times(lp, ltv), priceRate), borrowed), LoanDecimals)

BreakdownLp(lp, balances, totalLp) ==
  [i \in 1 .. 2 |->
     IF totalLp.n = 0 THEN Zero ELSE Over(Times(balances[i], lp), totalLp)]

(* The LP that may leave, and what of each token it is worth; a variable   *)
(* exit keeps the slippage back.                                           *)
ComputeSmartWithdrawable(lp, borrowed, repay, info, slippage, isFixed) ==
  LET free  == RoundDown(
                 Minus(lp, Over(Over(Over(Minus(borrowed, repay), info.priceRate),
                                     info.lltv), Threshold)), WadDecimals)
      leaves == IF isFixed THEN free
                ELSE RoundDown(Times(free, Minus(One, slippage)), WadDecimals)
      tokens == BreakdownLp(leaves, info.balances, info.totalLp)
  IN IF info.priceRate.n = 0 \/ info.totalLp.n = 0 THEN <<Zero, Zero, Zero>>
     ELSE <<tokens[1], tokens[2], leaves>>

---------------------------------------------------------------------------
SmartMarketExtraInfo(market, pool) ==
  [lltv |-> Dec(market.lltv, WadDecimals),
   priceRate |-> PriceRate(market.price, WadDecimals),
   rateView |-> market.rate, lastUpdate |-> market.lastUpdate,
   totalBorrowAssets |-> market.borrowAssets, totalBorrowShares |-> market.borrowShares,
   balances |-> [i \in 1 .. 2 |-> Dec(pool.balances[i], LoanDecimals)],
   totalLp |-> Dec(pool.totalLp, WadDecimals)]

(* Here the share of the totals is cut to whole units before the interest  *)
(* is added.  (Of a pool without LP, which AdviceAssumption excludes, this *)
(* read throws; its copy of ComputeSmartWithdrawable has no guard for it.) *)
SmartMarketUserData(position, info, clock) ==
  LET lp   == Dec(position.collateral, WadDecimals)
      base == IF info.totalBorrowShares = 0 THEN Zero
              ELSE Dec((position.borrowShares * info.totalBorrowAssets)
                         \div info.totalBorrowShares, LoanDecimals)
      unrealized == TaylorCompounded(info.rateView, clock - info.lastUpdate)
      borrowed == Times(base, Plus(Dec(unrealized, WadDecimals), One))
  IN [collateral |-> lp,
      borrowShares |-> position.borrowShares,
      borrowed   |-> borrowed,
      lpToken    |-> [i \in 1 .. 2 |-> IF lp.n > 0 THEN Over(Times(lp, info.balances[i]), info.totalLp)
                                     ELSE Zero],
      LTV        |-> ComputeSmartLTV(borrowed, lp, info.priceRate),
      loanable   |-> ComputeSmartLoanable(lp, borrowed,
                       Times(info.lltv, Threshold), info.priceRate),
      withdrawable |-> ComputeSmartWithdrawable(lp, borrowed, Zero, info, Zero, TRUE)]

---------------------------------------------------------------------------
(* The LP left after `amounts` of the two tokens are added (or, negated,   *)
(* taken out): in proportion to the pool, with the slippage on top of what *)
(* leaves.  It is what the pool does, and the quote of a caller who        *)
(* supplies computeLpOutput.                                               *)
ComputeLpOutput(amounts, lp, slippage, info) ==
  LET sum == Plus(info.balances[1], info.balances[2])
      moved == Over(Times(Plus(amounts[1], amounts[2]), info.totalLp), sum)
  IN RoundDown(Plus(lp, IF moved.n < 0 THEN Times(moved, Plus(One, slippage)) ELSE moved),
               WadDecimals)

Negated(x) == Dec(-x.n, x.d)

(* The LP after a supply and after an exit.  Where the caller supplies no  *)
(* quote the tokens are not looked at.                                     *)
LpSupplied(supplyLp, amounts, quoted, data, info) ==
  CASE supplyLp.n > 0 -> Plus(data.collateral, supplyLp)
    [] supplyLp.n <= 0 /\ quoted -> ComputeLpOutput(amounts, data.collateral, Zero, info)
    [] OTHER -> data.collateral

LpLeft(swapType, withdrawLp, amounts, isWithdrawAll, slippage, quoted, data, info) ==
  IF swapType = "lp" /\ withdrawLp.n > 0 THEN Minus(data.collateral, withdrawLp)
  ELSE IF isWithdrawAll THEN Zero
  ELSE IF quoted THEN ComputeLpOutput([i \in 1 .. 2 |-> Negated(amounts[i])],
                                      data.collateral, slippage, info)
  ELSE data.collateral

SimulateSmartMarketBorrow(supplyLp, amounts, borrow, quoted, data, info) ==
  LET lpOutput == LpSupplied(supplyLp, amounts, quoted, data, info)
      borrowed == Plus(data.borrowed, borrow)
      margin   == Times(info.lltv, Threshold)
  IN [collateral   |-> lpOutput,
      lpToken      |-> BreakdownLp(lpOutput, info.balances, info.totalLp),
      borrowed     |-> borrowed,
      LTV          |-> ComputeSmartLTV(borrowed, lpOutput, info.priceRate),
      loanable     |-> ComputeSmartLoanable(lpOutput, borrowed, margin, info.priceRate),
      baseLoanable |-> ComputeSmartLoanable(lpOutput, data.borrowed, margin, info.priceRate)]

(* Variant: the slippage is not looked at.                                 *)
ExceedsAtQuote(swapType, amounts, owed, lpOutput, slippage, quoted, data, info) ==
  \/ lpOutput.n < 0
  \/ Gt(ComputeSmartLTV(owed, lpOutput, info.priceRate),
        Times(info.lltv, IF swapType = "variable" THEN VariableThreshold ELSE Threshold))

(* Whether what is left would be too close to liquidation; a variable exit *)
(* is judged, where there is a quote, as if the pool took all the slippage *)
(* allows.                                                                 *)
Exceeds(swapType, amounts, owed, lpOutput, slippage, quoted, data, info) ==
  LET TooHigh(lp, margin) ==
        Gt(ComputeSmartLTV(owed, lp, info.priceRate), Times(info.lltv, margin))
  IN \/ lpOutput.n < 0
     \/ IF swapType = "variable" /\ quoted
        THEN TooHigh(ComputeLpOutput([i \in 1 .. 2 |-> Negated(amounts[i])],
                                     data.collateral, slippage, info), VariableThreshold)
        ELSE TooHigh(lpOutput, Threshold)

(* Variant: the ratio is shown as it comes out.                            *)
AsComputed(LTV) == LTV

(* Of more repaid than is owed: no ratio below zero.                       *)
ShownLTV(LTV) == IF LTV.n < 0 THEN Zero ELSE LTV

SimulateSmartMarketRepay(swapType, repay, lp, amounts, slippage, all, whole, quoted, data, info) ==
  LET lpOutput == LpLeft(swapType, lp, amounts, whole, Zero, quoted, data, info)
      owed     == Minus(data.borrowed, repay)
      LTV      == ComputeSmartLTV(owed, lpOutput, info.priceRate)
  IN [lpToken      |-> BreakdownLp(lpOutput, info.balances, info.totalLp),
      borrowed     |-> IF all THEN Zero ELSE owed,
      LTV          |-> ShownLTV(LTV),
      withdrawable |-> ComputeSmartWithdrawable(data.collateral, data.borrowed,
                         IF all THEN data.borrowed ELSE repay, info, slippage,
                         swapType # "variable"),
      exceedError  |-> Exceeds(swapType, amounts, owed, lpOutput, slippage,
                               quoted, data, info)]
=============================================================================
