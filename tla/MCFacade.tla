------------------------------ MODULE MCFacade ------------------------------
(* Values for the constants of Facade.                                     *)
EXTENDS Facade

Base == [net |-> "bsc", about |-> "market", on |-> "m",
         provider |-> [k \in Markets |-> [loan |-> "zero", coll |-> "zero"]],
         vault |-> [k \in Vaults |-> "zero"],
         broker |-> [m |-> "broker", n |-> "brokerN", s |-> "zero"],
         lists |-> [open |-> FALSE, market |-> FALSE, borrower |-> FALSE,
                    allowed |-> FALSE]]

Of(net, about, on) == [Base EXCEPT !.net = net, !.about = about, !.on = on]

(* A native provider is registered for the coin it wraps.                  *)
LoanProviders(net, k) == {"zero", "plain"} \cup
  (IF Params[k].loan = "wrapped" THEN {NativeProvider(net)} ELSE {})
CollProviders(net, k) == {"zero", "plain"} \cup
  (IF Params[k].coll = "wrapped" THEN {NativeProvider(net)} ELSE {}) \cup
  (IF k = "s" THEN DOMAIN Pool ELSE {})
VaultProviders(net, k) == {"zero", "noView", "plain"} \cup
  (IF VaultAsset[k] = "wrapped" THEN {NativeProvider(net)} ELSE {})

Worlds ==
  UNION {
    UNION {{[Of(net, IF k = "s" THEN "smart" ELSE "market", k) EXCEPT
               !.provider[k] = [loan |-> l, coll |-> c]] :
              l \in LoanProviders(net, k), c \in CollProviders(net, k)} : k \in Markets}
    \cup UNION {{[Of(net, "vault", k) EXCEPT !.vault[k] = p] :
              p \in VaultProviders(net, k)} : k \in Vaults}
    : net \in Networks}
  \cup {[Of("bsc", "broker", "m") EXCEPT !.broker["m"] = b] : b \in {"broker", "zero"}}
  \cup {[Of("bsc", "liquidation", "m") EXCEPT !.lists = l] :
          l \in [open : BOOLEAN, market : BOOLEAN, borrower : BOOLEAN, allowed : BOOLEAN]}

Blank == [about |-> "market", op |-> "none", given |-> "none", trusted |-> FALSE,
          config |-> Nothing, broker |-> "none", expected |-> "none",
          token |-> "none", paysNative |-> FALSE, unlisted |-> FALSE,
          routed |-> FALSE]

(* What a config may be wrong in: the market, a token, the providers, the  *)
(* native flags.                                                           *)
Plain == GetWriteConfig("bsc", Base, "m")
ForgedPlain ==
  {[Plain EXCEPT !.market = "n"], GetWriteConfig("bsc", Base, "n"),
   [Plain EXCEPT !.loan = "usd"], [Plain EXCEPT !.coll = "usd"],
   [Plain EXCEPT !.loanProvider = "stranger", !.collProvider = "stranger"],
   [Plain EXCEPT !.loanIsNative = TRUE, !.collIsNative = TRUE]}

Smart == GetSmartMarketExtraInfo("bsc",
           [Base EXCEPT !.provider["s"] = [loan |-> "zero", coll |-> "smart"]], "s")
ForgedSmart ==
  {[Smart EXCEPT !.market = "m"], [Smart EXCEPT !.loan = "usd"],
   [Smart EXCEPT !.a = "usd"], [Smart EXCEPT !.lp = "usd"],
   [Smart EXCEPT !.loanProvider = "stranger", !.collProvider = "stranger"],
   [Smart EXCEPT !.loanIsNative = TRUE, !.aIsNative = TRUE]}

Vault == GetVaultInfo("bsc", Base, "v")
ForgedVault ==
  {[Vault EXCEPT !.asset = "usd"], [Vault EXCEPT !.provider = "stranger"],
   [Vault EXCEPT !.isNative = TRUE]}

OnConfig(about, ops, forged) ==
  {[Blank EXCEPT !.about = about, !.op = op, !.given = g, !.trusted = t] :
     op \in ops, g \in {"held"}, t \in BOOLEAN}
  \cup {[Blank EXCEPT !.about = about, !.op = op] : op \in ops}
  \cup {[Blank EXCEPT !.about = about, !.op = op, !.given = "forged",
                      !.trusted = t, !.config = f] :
     op \in ops, t \in BOOLEAN, f \in forged}

AllRequests ==
  OnConfig("market", MarketOps, ForgedPlain)
  \cup OnConfig("smart", SmartOps, ForgedSmart)
  \cup OnConfig("vault", VaultOps, ForgedVault)
  \cup {[Blank EXCEPT !.about = "vault", !.op = "vaultMint", !.routed = TRUE],
        [Blank EXCEPT !.op = "flashLoan"]}
  \cup {[Blank EXCEPT !.about = "broker", !.op = op, !.broker = b, !.expected = e] :
          op \in BrokerOps, e \in {"none", "m"},
          b \in DOMAIN Claims \cup {"zero", "stranger"}}
  \cup {[Blank EXCEPT !.about = "broker", !.op = op, !.broker = "broker",
                      !.token = t, !.paysNative = p] :
          op \in {"brokerRepay", "brokerRepayAll"},
          t \in {"none", "wrapped"}, p \in BOOLEAN}
  \cup {[Blank EXCEPT !.about = "liquidation", !.op = "liquidate", !.token = t,
                      !.unlisted = u] : t \in {"wrapped", "usd"}, u \in BOOLEAN}

(* The caller's client for one chain and an RPC for both; his clients for  *)
(* a chain the SDK does not know and for one it does, a blank URL for the  *)
(* third.                                                                  *)
SdkConfigs ==
  {[own |-> {"56"}, rpc |-> [c \in {"56", "1"} |-> {"url", "blank"}]],
   [own |-> {"97", "1"}, rpc |-> [c \in {"56"} |-> {"blank"}]]}
=============================================================================
