----------------------------- MODULE MCFigures -----------------------------
(***************************************************************************)
(* Small figures for TLC: binary digits, four of them for a wad, three for *)
(* the loan token and two for the collateral.  A position owes nothing,    *)
(* little or much; a tick earns a sixteenth of the debt, so that two can   *)
(* outgrow the quarter that the margin leaves.                             *)
(***************************************************************************)
EXTENDS Figures, TLC

Market(price, collateral, shares, lastUpdate) ==
  [price |-> price, lltv |-> 8, rate |-> 1, lastUpdate |-> lastUpdate,
   borrowAssets |-> 100, borrowShares |-> 90,
   collateral |-> collateral, shares |-> shares]

Pool == [balances |-> <<72, 80>>, totalLp |-> 300]

MCChain ==
  [market |-> {Market(1024, 40, shares, at) : shares \in {0, 24, 50}, at \in {0, 1}},
   smart  |-> {Market(128, 160, shares, 1) @@ [pool |-> Pool] : shares \in {0, 24}},
   vault  |-> {[totalAssets |-> 50, totalSupply |-> 40, shares |-> shares,
                balance |-> 9, earned |-> 0] : shares \in {0, 17}}]

MCThreshold         == Dec(3, 2)
MCVariableThreshold == Dec(7, 3)
MCSlippages         == {Dec(1, 3), Dec(1, 1)}

(* 19 is one and 3/16 a year; of a year of two seconds, rounded up, 2/16.  *)
Loan(principal, repaid, end) ==
  [principal |-> principal, principalRepaid |-> repaid, apr |-> 19,
   start |-> 0, end |-> end, lastRepaidTime |-> 0, interestRepaid |-> 0]

Dynamic(principal, debt) ==
  [principal |-> principal, normalizedDebt |-> debt, rate |-> 16]

MCAccounts ==
  {[fixed |-> <<Loan(37, 0, 12)>>, dynamic |-> Dynamic(30, 28)],
   [fixed |-> <<Loan(40, 10, 9), Loan(20, 20, 5)>>, dynamic |-> Dynamic(24, 25)],
   [fixed |-> <<Loan(4, 0, 8)>>, dynamic |-> Dynamic(0, 0)]}

MCDynamicBuffer == Dec(1, 3)
=============================================================================
