------------------------------- MODULE Routes -------------------------------
(***************************************************************************)
(* What each builder emits once its config is resolved: the contract it    *)
(* calls, what it approves and to whom, whether the call carries value,    *)
(* and the market whose params it encodes.  Amounts and the clear step are *)
(* module Builders' subject.                                               *)
(*                                                                         *)
(* The last part is what the contracts take, as far as the builders rely   *)
(* on it.                                                                  *)
(***************************************************************************)
EXTENDS Providers

Route(to, tokens, paid) ==
  [to |-> to, approves |-> tokens \X {to}, value |-> paid,
   native |-> paid, market |-> "none"]

Pulling(to, tokens) == Route(to, tokens, FALSE)
Paying(to)          == Route(to, {}, TRUE)
Calling(to)         == Route(to, {}, FALSE)
For(config, route)  == [route EXCEPT !.market = config.market]

OrMoolah(provider) == IF provider = "zero" THEN "moolah" ELSE provider

(* builders/market.ts *)
SupplySteps(config) ==
  IF config.collIsNative
  THEN Paying(config.collProvider)
  ELSE Pulling(OrMoolah(config.collProvider), {config.coll})

BorrowSteps(config)   == Calling(OrMoolah(config.loanProvider))
WithdrawSteps(config) == Calling(OrMoolah(config.collProvider))

(* A native provider is paid only for the token it wraps, and only where   *)
(* the address book names that token.                                      *)
RepaySteps(net, config) ==
  IF config.loanIsNative /\ Wbnb(net) # "zero" /\ config.loan = Wbnb(net)
  THEN Paying(config.loanProvider)
  ELSE Pulling(OrMoolah(config.loanProvider), {config.loan})

(* These resolve nothing: Moolah itself, and the token of the params.      *)
MoolahSupplySteps(config)   == Pulling("moolah", {Params[config.market].loan})
MoolahCallSteps             == Calling("moolah")   \* withdraw, flash loan

(* builders/smart.ts.  A pair with a native side is paid one token and     *)
(* pulled for the other.                                                   *)
SmartSupplyDexLpSteps(config) == Pulling(config.collProvider, {config.lp})

(* Variant: the second token is approved when the first is not native.     *)
ApprovesBothOrNone(config) ==
  Route(config.collProvider,
        IF config.aIsNative THEN {} ELSE {config.a, config.b},
        config.aIsNative \/ config.bIsNative)

SmartSupplyCollateralSteps(config) ==
  Route(config.collProvider,
        {t \in {config.a, config.b} :
           ~ \/ t = config.a /\ config.aIsNative
             \/ t = config.b /\ config.bIsNative},
        config.aIsNative \/ config.bIsNative)

SmartWithdrawSteps(config) == Calling(config.collProvider)
SmartUnwindSteps(config)   == Calling(config.collProvider)   \* one coin, redeem

SmartRepaySteps(config) ==
  IF config.loanIsNative
  THEN Paying(config.loanProvider)
  ELSE Pulling(OrMoolah(config.loanProvider), {config.loan})

(* builders/vault.ts *)
OrVault(config, vault) == IF config.provider = "zero" THEN vault ELSE config.provider

IsNativeBNB(net, config) ==
  config.isNative /\ Wbnb(net) # "zero" /\ config.asset = Wbnb(net)

VaultDepositSteps(net, config, vault) ==
  IF ~IsNativeBNB(net, config)
  THEN Pulling(OrVault(config, vault), {config.asset})
  ELSE IF config.provider # "zero" THEN Paying(config.provider) ELSE Calling(vault)

VaultWithdrawSteps(net, config, vault) ==
  [Calling(OrVault(config, vault)) EXCEPT
     !.native = IsNativeBNB(net, config) /\ config.provider # "zero"]

VaultMintRefuses(config, routed) ==
  config.provider # "zero" /\ (config.isNative \/ ~routed)

VaultMintSteps(config, vault) == Pulling(OrVault(config, vault), {config.asset})

(* builders/broker.ts: what is paid and in what is the caller's word.      *)
BrokerDebtSteps(broker)             == Calling(broker)   \* borrow, convert
BrokerRefinanceMaturedSteps(broker) == Calling(broker)
BrokerRepaySteps(broker, token) ==
  Pulling(broker, IF token = "none" THEN {} ELSE {token})
BrokerRepayAllSteps(broker, token, isNative) ==
  IF isNative THEN Paying(broker) ELSE Pulling(broker, {token})

(* builders/liquidation.ts *)
LiquidateSteps(token) == Pulling("liquidator", {token})

(* The allowance read fails where no token contract answers.               *)
AllowanceReadable(route) == \A a \in route.approves : a[1] # NativeToken

(* Refused by the builders that pay a provider, however it came about.     *)
PaysNobody(route) == route.value /\ route.to = "zero"
-----------------------------------------------------------------------------
(* Operations, by what they are told to act on.                            *)

MarketOps == {"supply", "borrow", "repay", "withdraw", "moolahSupply",
              "moolahWithdraw", "migrateToFixedTerm"}
SmartOps  == {"supplyDexLp", "supplySmart", "withdrawSmart",
              "withdrawSmartOneCoin", "redeemSmart", "repaySmart"}
VaultOps  == {"depositVault", "withdrawVault", "vaultMint"}
BrokerOps == {"brokerBorrow", "brokerConvert", "brokerRefinance",
              "brokerRepay", "brokerRepayAll"}
Unresolved == {"moolahSupply", "moolahWithdraw", "migrateToFixedTerm"}

(* The builder a method of MoolahSDK hands its resolved config to.         *)
EmittedOnMarket(net, r) ==
  For(r.config,
    CASE r.op = "supply"         -> SupplySteps(r.config)
      [] r.op = "borrow"         -> BorrowSteps(r.config)
      [] r.op = "repay"          -> RepaySteps(net, r.config)
      [] r.op = "withdraw"       -> WithdrawSteps(r.config)
      [] r.op = "moolahSupply"   -> MoolahSupplySteps(r.config)
      [] r.op = "moolahWithdraw" -> MoolahCallSteps
      [] r.op = "migrateToFixedTerm" -> Calling("positionManager"))

EmittedOnSmart(r) ==
  For(r.config,
    CASE r.op = "supplyDexLp"   -> SmartSupplyDexLpSteps(r.config)
      [] r.op = "supplySmart"   -> SmartSupplyCollateralSteps(r.config)
      [] r.op = "withdrawSmart" -> SmartWithdrawSteps(r.config)
      [] r.op \in {"withdrawSmartOneCoin", "redeemSmart"} -> SmartUnwindSteps(r.config)
      [] r.op = "repaySmart"    -> SmartRepaySteps(r.config))

EmittedOnVault(net, r) ==
  CASE r.op = "depositVault"  -> VaultDepositSteps(net, r.config, r.on)
    [] r.op = "withdrawVault" -> VaultWithdrawSteps(net, r.config, r.on)
    [] r.op = "vaultMint"     -> VaultMintSteps(r.config, r.on)

EmittedByBroker(r) ==
  CASE r.op \in {"brokerBorrow", "brokerConvert"} -> BrokerDebtSteps(r.broker)
    [] r.op = "brokerRefinance" -> BrokerRefinanceMaturedSteps(r.broker)
    [] r.op = "brokerRepay"     -> BrokerRepaySteps(r.broker, r.token)
    [] r.op = "brokerRepayAll"  -> BrokerRepayAllSteps(r.broker, r.token, r.paysNative)

Emitted(net, r) ==
  CASE r.op \in MarketOps   -> EmittedOnMarket(net, r)
    [] r.op \in SmartOps    -> EmittedOnSmart(r)
    [] r.op \in VaultOps    -> EmittedOnVault(net, r)
    [] r.op \in BrokerOps   -> EmittedByBroker(r)
    [] r.op = "liquidate"   -> LiquidateSteps(r.token)
    [] r.op = "flashLoan"   -> MoolahCallSteps
-----------------------------------------------------------------------------
(* The contracts.                                                          *)

(* Who serves an operation on a market or a vault, on a chain state.       *)
Registered(chain, op, on) ==
  CASE op \in {"supply", "withdraw"} -> OrMoolah(chain.provider[on].coll)
    [] op \in {"borrow", "repay", "repaySmart"} -> OrMoolah(chain.provider[on].loan)
    [] op \in SmartOps \ {"repaySmart"} -> chain.provider[on].coll
    [] op \in VaultOps -> IF chain.vault[on] \in {"zero", "noView"}
                          THEN on ELSE chain.vault[on]
    [] op = "migrateToFixedTerm" -> "positionManager"
    [] op = "liquidate" -> "liquidator"
    [] OTHER -> "moolah"

(* The liquidator opens the market to everybody, or to the ones it lists;  *)
(* Moolah gates it besides.                                                *)
GatesOpen(lists) == lists.allowed /\ TRUE \in {lists.open, lists.market, lists.borrower}

(* Whether it takes value: the native providers wrap what they are sent,   *)
(* a SmartProvider takes its pool's native side.                           *)
TakesValue(net, op, to) ==
  \/ to = NativeProvider(net) /\ op \in {"supply", "repay", "repaySmart", "depositVault"}
  \/ op = "supplySmart" /\ to \in DOMAIN Pool /\ NativeToken \in {Pool[to].a, Pool[to].b}

(* The tokens it pulls.                                                    *)
Pulled(net, op, on, to) ==
  IF to = NativeProvider(net) /\ op \in {"supply", "repay", "repaySmart", "depositVault"}
  THEN {}
  ELSE CASE op = "supply" -> {Params[on].coll}
         [] op \in {"repay", "repaySmart", "moolahSupply", "liquidate"} ->
              {Params[on].loan}
         [] op = "supplyDexLp" -> IF to \in DOMAIN Pool THEN {Pool[to].lp} ELSE {}
         [] op = "supplySmart" -> IF to \in DOMAIN Pool
                                  THEN {Pool[to].a, Pool[to].b} \ {NativeToken} ELSE {}
         [] op \in {"depositVault", "vaultMint"} -> {VaultAsset[on]}
         [] OTHER -> {}

(* A native provider's entry points for a vault are its own.               *)
Takes(net, op, on, route) ==
  /\ route.value = TakesValue(net, op, route.to)
  /\ Pulled(net, op, on, route.to) \X {route.to} \subseteq route.approves
  /\ op \in SmartOps \ {"repaySmart"} => route.to \in DOMAIN Pool
  /\ op \in VaultOps => route.native = (route.to = NativeProvider(net))
  /\ op = "vaultMint" => route.to = on
=============================================================================
