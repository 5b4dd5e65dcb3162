----------------------------- MODULE Positions ----------------------------
(***************************************************************************)
(* What the SDK says of a position: how much is owed, how much more may be *)
(* borrowed or taken out, and what an operation would make of it           *)
(* (read/market, read/vault, simulate/market.ts, simulate/vault.ts,        *)
(* calculations/position.ts).                                              *)
(*                                                                         *)
(* A market on the chain is a record of what its reads return: price,      *)
(* LLTV, rate per second, borrow totals and lastUpdate.                    *)
(***************************************************************************)
EXTENDS Decimals

CONSTANTS
  CollDecimals,    \* of the collateral token
  Threshold        \* the safety margin, 98 %, as a Decimal

ASSUME PositionAssumption ==
  /\ CollDecimals \in 0 .. WadDecimals
  /\ Threshold \in Decimal /\ Threshold.n > 0 /\ Threshold.d < WadDecimals

Wad == Scale[WadDecimals]

(* Three terms of e^(rate * elapsed) - 1, each division towards zero.      *)
TaylorCompounded(rate, elapsed) ==
  LET first  == rate * elapsed
      second == Quot(first * first, 2 * Wad)
  IN first + second + Quot(second * first, 3 * Wad)

---------------------------------------------------------------------------
(* simulate/market.ts: the four formulas.                                  *)

ComputeLTV(borrowed, collateral, priceRate) ==
  LET worth == Times(collateral, priceRate)
  IN IF worth.n > 0 THEN Over(borrowed, worth) ELSE Zero

ComputeLoanable(collateral, borrowed, ltv, priceRate) ==
  RoundDown(Minus(Times(Times(collateral, ltv), priceRate), borrowed), LoanDecimals)

(* Variant: the margin that keeps the position off the liquidation line is *)
(* multiplied by instead of divided by.                                    *)
MarginInverted(collateral, borrowed, repay, lltv, priceRate, digits) ==
  RoundDown(Minus(collateral,
              Times(Over(Over(Minus(borrowed, repay), priceRate), lltv), Threshold)),
            digits)

ComputeWithdrawable(collateral, borrowed, repay, lltv, priceRate, digits) ==
  RoundDown(Minus(collateral,
              Over(Over(Over(Minus(borrowed, repay), priceRate), lltv), Threshold)),
            digits)

ComputeLiqPriceRate(borrowed, collateral, lltv) ==
  IF collateral.n <= 0 THEN Zero
  ELSE RoundDown(Over(Over(borrowed, collateral), lltv), WadDecimals)

---------------------------------------------------------------------------
(* getMarketExtraInfo and getMarketUserData.                               *)

(* The oracle quotes raw units for raw units at twice the scale.           *)
PriceRate(price, digits) ==
  RoundDown(Over(Times(Dec(price, 2 * WadDecimals), Dec(Scale[digits], 0)),
                 Dec(Scale[LoanDecimals], 0)),
            WadDecimals)

MarketExtraInfo(market, digits) ==
  [lltv |-> Dec(market.lltv, WadDecimals), priceRate |-> PriceRate(market.price, digits),
   rateView |-> market.rate, lastUpdate |-> market.lastUpdate,
   totalBorrowAssets |-> market.borrowAssets, totalBorrowShares |-> market.borrowShares]

(* Variant: the totals are taken as they were at the last update.          *)
ForgetsUnrealized(borrowShares, info, clock) ==
  IF info.totalBorrowShares = 0 THEN Zero
  ELSE Over(Times(Dec(info.totalBorrowAssets, LoanDecimals), Dec(borrowShares, WadDecimals)),
            Dec(info.totalBorrowShares, WadDecimals))

(* The share of the totals, with the interest since lastUpdate that no     *)
(* transaction has booked yet, by the caller's clock.                      *)
Owes(borrowShares, info, clock) ==
  IF info.totalBorrowShares = 0 THEN Zero
  ELSE LET base == Over(Times(Dec(info.totalBorrowAssets, LoanDecimals),
                              Dec(borrowShares, WadDecimals)),
                        Dec(info.totalBorrowShares, WadDecimals))
           unrealized == TaylorCompounded(info.rateView, clock - info.lastUpdate)
       IN Times(base, Plus(Dec(unrealized, WadDecimals), One))

(* Without fixed-term data, as the facade's simulations read it.           *)
MarketUserData(position, info, clock) ==
  LET collateral == Dec(position.collateral, CollDecimals)
      borrowed   == Owes(position.borrowShares, info, clock)
  IN [collateral   |-> collateral,
      borrowShares |-> position.borrowShares,
      borrowed     |-> borrowed,
      LTV          |-> ComputeLTV(borrowed, collateral, info.priceRate),
      loanable     |-> ComputeLoanable(collateral, borrowed,
                         Times(info.lltv, Threshold), info.priceRate),
      withdrawable |-> ComputeWithdrawable(collateral, borrowed, Zero,
                         info.lltv, info.priceRate, CollDecimals),
      liqPriceRate |-> ComputeLiqPriceRate(borrowed, collateral, info.lltv)]

---------------------------------------------------------------------------
(* The simulations, fed as the facade feeds them: raw amounts of the two   *)
(* tokens, on the figures just read.                                       *)

SimulateMarketBorrow(supplyAssets, borrowAssets, data, info) ==
  LET collateral == Plus(data.collateral, Dec(supplyAssets, CollDecimals))
      borrowed   == Plus(data.borrowed, Dec(borrowAssets, LoanDecimals))
      margin     == Times(info.lltv, Threshold)
  IN [collateral   |-> collateral,
      borrowed     |-> borrowed,
      LTV          |-> ComputeLTV(borrowed, collateral, info.priceRate),
      loanable     |-> ComputeLoanable(collateral, borrowed, margin, info.priceRate),
      baseLoanable |-> ComputeLoanable(collateral, data.borrowed, margin, info.priceRate),
      liqPriceRate |-> ComputeLiqPriceRate(borrowed, collateral, info.lltv)]

SimulateMarketRepay(repayAssets, withdrawAssets, isRepayAll, data, info) ==
  LET repay      == Dec(repayAssets, LoanDecimals)
      collateral == RoundDown(Minus(data.collateral, Dec(withdrawAssets, CollDecimals)),
                              CollDecimals)
      borrowed   == IF isRepayAll THEN Zero ELSE Minus(data.borrowed, repay)
  IN [collateral   |-> collateral,
      borrowed     |-> borrowed,
      LTV          |-> ComputeLTV(borrowed, collateral, info.priceRate),
      withdrawable |-> IF isRepayAll THEN data.collateral
                       ELSE ComputeWithdrawable(data.collateral, data.borrowed, repay,
                              info.lltv, info.priceRate, CollDecimals),
      liqPriceRate |-> ComputeLiqPriceRate(borrowed, collateral, info.lltv)]

---------------------------------------------------------------------------
(* calculations/position.ts: the same figures on bigints at the wad scale. *)

RawLTV(collateral, borrowed, priceRate) ==
  LET worth == Quot(collateral * priceRate, Wad)
  IN IF worth <= 0 THEN 0 ELSE Quot(borrowed * Wad, worth)

Margin(lltv) == Quot(lltv * Threshold.n, Scale[Threshold.d])

(* The scale is a token's own, whatever the amounts are counted in: when   *)
(* they are in wads, that of an 18-digit token cuts to whole tokens.       *)
RawLoanable(collateral, borrowed, priceRate, lltv) ==
  LET most == Quot(Quot(collateral * Margin(lltv) * priceRate, Wad), Wad)
      left == IF most > borrowed THEN most - borrowed ELSE 0
      scale == Scale[LoanDecimals]
  IN (left \div scale) * scale

(* Variant: nothing is kept between the position and its liquidation.      *)
WithoutMargin(collateral, borrowed, priceRate, lltv) ==
  LET least == Quot(Quot(borrowed * Wad * Wad, priceRate), lltv)
      left  == IF collateral > least THEN collateral - least ELSE 0
      scale == Scale[WadDecimals - CollDecimals]
  IN IF borrowed = 0 THEN collateral ELSE (left \div scale) * scale

RawWithdrawable(collateral, borrowed, priceRate, lltv) ==
  LET least == Quot(Quot(borrowed * Wad * Wad, priceRate), Margin(lltv))
      left  == IF collateral > least THEN collateral - least ELSE 0
      scale == Scale[WadDecimals - CollDecimals]
  IN IF borrowed = 0 THEN collateral ELSE (left \div scale) * scale

RawLiquidationPrice(collateral, borrowed, lltv) ==
  IF collateral <= 0 THEN 0
  ELSE Quot(Quot(borrowed * Wad * Wad, collateral), lltv)

RawSimulation(collateral, borrowed, priceRate, lltv) ==
  [newLTV          |-> RawLTV(collateral, borrowed, priceRate),
   newBorrowed     |-> borrowed,
   newCollateral   |-> collateral,
   newLiqPrice     |-> RawLiquidationPrice(collateral, borrowed, lltv),
   newLoanable     |-> RawLoanable(collateral, borrowed, priceRate, lltv),
   newWithdrawable |-> RawWithdrawable(collateral, borrowed, priceRate, lltv)]

RawSimulateBorrow(collateral, borrowed, priceRate, lltv, supply, borrow) ==
  RawSimulation(collateral + supply, borrowed + borrow, priceRate, lltv)

RawSimulateRepay(collateral, borrowed, priceRate, lltv, repay, withdraw) ==
  RawSimulation(IF collateral > withdraw THEN collateral - withdraw ELSE 0,
                IF borrowed > repay THEN borrowed - repay ELSE 0, priceRate, lltv)

---------------------------------------------------------------------------
(* getVaultUserData and simulate/vault.ts.                                 *)

VaultUserData(account, vault) ==
  LET shares == Dec(account.shares, LoanDecimals)
      supply == Dec(vault.totalSupply, LoanDecimals)
  IN [shares  |-> shares,
      locked  |-> IF supply.n > 0
                  THEN RoundDown(Over(Times(Dec(vault.totalAssets, LoanDecimals), shares),
                                      supply), LoanDecimals)
                  ELSE Zero,
      balance |-> Dec(account.balance, LoanDecimals)]

SimulateVaultDeposit(amount, data) ==
  [locked  |-> Plus(data.locked, Dec(amount, LoanDecimals)),
   balance |-> Minus(data.balance, Dec(amount, LoanDecimals))]

SimulateVaultWithdraw(amount, data) ==
  [locked  |-> Minus(data.locked, Dec(amount, LoanDecimals)),
   balance |-> Plus(data.balance, Dec(amount, LoanDecimals))]
=============================================================================
