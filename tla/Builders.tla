------------------------------ MODULE Builders ------------------------------
(***************************************************************************)
(* What each builder that pulls an ERC-20 token asks of the allowance it   *)
(* spends from: the amount its approve steps raise it to, given what the   *)
(* call costs on the state the builder read, and whether it appends the    *)
(* step that puts the allowance back.  The steps themselves are            *)
(* Approvals!BuildSequence.                                                *)
(*                                                                         *)
(* Native-asset paths approve nothing and are left out; so are the checks  *)
(* that refuse to build.  Figures a caller supplies are any of a range.    *)
(***************************************************************************)
EXTENDS Approvals, SharePricing

CONSTANT MaxMargin   \* bound on margins the code takes from its caller or clock

ASSUME MarginAssumption == MaxMargin \in Nat

Modes == {"assets", "shares", "all"}

Asks(amounts, reclaims) == [amounts |-> amounts, reclaims |-> reclaims]

(* A positive figure the caller names: it need not cover the cost.         *)
CallerFigures(cost) == 1..(cost + MaxMargin)

(* repayAll adds twenty minutes of interest and rounds down: on a small    *)
(* debt the result may end one unit short.                                 *)
RepayAllFigures(cost) == {a \in (cost - 1)..(cost + MaxMargin) : a >= 0}

RepayAmounts(mode, cost) ==
  CASE mode = "assets" -> {cost}
    [] mode = "shares" -> {WithHeadroom(cost)}
    [] mode = "all"    -> RepayAllFigures(cost)

(* Builders that approve exactly what they pull and never append a clear   *)
(* step.                                                                   *)
BuildSupplySteps(cost)           == Asks({cost}, FALSE)
BuildSmartSupplyDexLpSteps(cost) == Asks({cost}, FALSE)
BuildVaultDepositSteps(cost)     == Asks({cost}, FALSE)

(* Only the shares path over-sizes, and only it reclaims.                  *)
BuildMoolahSupplySteps(mode, cost, keep) ==
  IF mode = "shares"
  THEN Asks({WithHeadroom(cost)}, ~keep)
  ELSE Asks({cost}, FALSE)

(* Variant: a repayment keeps its headroom.                                *)
RepaysWithoutClear(mode, cost, keep) == Asks(RepayAmounts(mode, cost), FALSE)

(* All three paths reclaim, the exact one included.                        *)
BuildRepaySteps(mode, cost, keep)      == Asks(RepayAmounts(mode, cost), ~keep)
BuildSmartRepaySteps(mode, cost, keep) == Asks(RepayAmounts(mode, cost), ~keep)

(* The amount, the maxRepayAmount and the maxAssets are the caller's.      *)
BuildBrokerRepaySteps(cost, keep) == Asks(CallerFigures(cost), ~keep)
BuildBrokerRepayAllSteps(cost, keep) == Asks(CallerFigures(cost), ~keep)
BuildLiquidateSteps(cost, keep)   == Asks(CallerFigures(cost), ~keep)
BuildVaultMintSteps(cost, keep)   ==
  Asks({WithMintBuffer(cost)} \cup CallerFigures(cost), ~keep)

(* A request of the wallet; it waits if its owner starts it only when no   *)
(* other sequence is in progress on its allowance.                         *)
BuilderNames ==
  {"supply", "supplyDexLp", "depositVault", "moolahSupply", "repay",
   "smartRepay", "brokerRepay", "brokerRepayAll", "liquidate", "vaultMint"}

Requests ==
  [builder : BuilderNames, mode : Modes, keep : BOOLEAN, waits : BOOLEAN]

Asked(job, cost) ==
  CASE job.builder = "supply"       -> BuildSupplySteps(cost)
    [] job.builder = "supplyDexLp"  -> BuildSmartSupplyDexLpSteps(cost)
    [] job.builder = "depositVault" -> BuildVaultDepositSteps(cost)
    [] job.builder = "moolahSupply" -> BuildMoolahSupplySteps(job.mode, cost, job.keep)
    [] job.builder = "repay"        -> BuildRepaySteps(job.mode, cost, job.keep)
    [] job.builder = "smartRepay"   -> BuildSmartRepaySteps(job.mode, cost, job.keep)
    [] job.builder = "brokerRepay"  -> BuildBrokerRepaySteps(cost, job.keep)
    [] job.builder = "brokerRepayAll" -> BuildBrokerRepayAllSteps(cost, job.keep)
    [] job.builder = "liquidate"    -> BuildLiquidateSteps(cost, job.keep)
    [] job.builder = "vaultMint"    -> BuildVaultMintSteps(cost, job.keep)

(* Whether a builder reclaims does not depend on the cost.                 *)
Reclaims(job) == Asked(job, 0).reclaims

(* The call names the amount it pulls, so what it costs does not move.     *)
Exact(job) ==
  \/ job.builder \in {"supply", "supplyDexLp", "depositVault"}
  \/ job.builder \in {"moolahSupply", "repay", "smartRepay"} /\ job.mode = "assets"
=============================================================================
