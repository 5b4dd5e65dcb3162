----------------------------- MODULE Providers -----------------------------
(***************************************************************************)
(* Where a build gets its addresses from: what is registered on chain, the *)
(* configs read from it (read/market, read/smart, read/vault), what of a   *)
(* supplied config is checked (configTrust.ts) and what is looked up again *)
(* at build time (resolveProviders.ts).                                    *)
(*                                                                         *)
(* A market is its params: marketIdOf is injective.  Addresses and tokens  *)
(* are names; symbols, decimals and amounts are left out.                  *)
(***************************************************************************)
EXTENDS FiniteSets

Networks == {"bsc", "ethereum"}

(* The singleton of each network, and the wrapped coin it is compared      *)
(* with: the address book has none on Ethereum.                            *)
NativeProvider(net) == [bsc |-> "nativeBsc", ethereum |-> "nativeEth"][net]
Wbnb(net)           == [bsc |-> "wrapped", ethereum |-> "zero"][net]

NativeToken == "0xEeee"      \* NATIVE_ADDRESS: no contract answers there

(* The three markets: two plain ones and one over a pool's LP wrapper.     *)
Params == [m |-> [loan |-> "wrapped", coll |-> "gold"],
           n |-> [loan |-> "usd",     coll |-> "wrapped"],
           s |-> [loan |-> "wrapped", coll |-> "slp"]]
Markets == DOMAIN Params
VaultAsset == [v |-> "wrapped", w |-> "usd"]
Vaults == DOMAIN VaultAsset

(* What the SmartProviders answer to token(0), token(1) and dexLP().       *)
Pool == [smart       |-> [a |-> "tokenA", b |-> "tokenB", lp |-> "lp"],
         smartNative |-> [a |-> NativeToken, b |-> "tokenB", lp |-> "lpN"]]

(* What a loan broker answers to MARKET_ID() and MOOLAH().                 *)
Claims == [broker   |-> [market |-> "m", moolah |-> "moolah"],
           brokerN  |-> [market |-> "n", moolah |-> "moolah"],
           impostor |-> [market |-> "m", moolah |-> "moolah"],
           foreign  |-> [market |-> "m", moolah |-> "another"]]
-----------------------------------------------------------------------------
(* rpcErrors.ts: a contract saying no, or a node not answering.            *)

ContractErrors  == {"Reverted", "ZeroData", "ExecutionReverted"}
TransportErrors == {"Timeout", "RateLimited"}

(* Variant: whatever failed, the contract said so.                         *)
AnyFailure(e) == TRUE

IsContractLevelFailure(e) == e \in ContractErrors
-----------------------------------------------------------------------------
(* Configs as the SDK derives them from a chain state.                     *)

GetWriteConfig(net, chain, market) ==
  LET p == chain.provider[market] IN
  [kind |-> "market", market |-> market,
   loan |-> Params[market].loan, coll |-> Params[market].coll,
   loanProvider |-> p.loan, collProvider |-> p.coll,
   loanIsNative |-> /\ p.loan # "zero"
                    /\ \/ p.loan = NativeProvider(net)
                       \/ Params[market].loan = Wbnb(net),
   collIsNative |-> p.coll = NativeProvider(net)]

(* Throws unless the collateral provider is a SmartProvider.               *)
HasPair(chain, market) == chain.provider[market].coll \in DOMAIN Pool

(* The loan token of a native loan is given as the sentinel.               *)
GetSmartMarketExtraInfo(net, chain, market) ==
  LET p == chain.provider[market]
      isNative == p.loan = NativeProvider(net) IN
  [kind |-> "smart", market |-> market,
   loan |-> IF isNative THEN NativeToken ELSE Params[market].loan,
   loanProvider |-> p.loan, collProvider |-> p.coll,
   loanIsNative |-> isNative,
   a |-> Pool[p.coll].a, b |-> Pool[p.coll].b, lp |-> Pool[p.coll].lp,
   aIsNative |-> Pool[p.coll].a = NativeToken,
   bIsNative |-> Pool[p.coll].b = NativeToken]

(* Throws if the vault has no provider() view.                             *)
GetVaultInfo(net, chain, vault) ==
  [kind |-> "vault", asset |-> VaultAsset[vault],
   provider |-> chain.vault[vault],
   isNative |-> chain.vault[vault] = NativeProvider(net)]
-----------------------------------------------------------------------------
(* configTrust.ts: what a supplied config is checked for.                  *)

(* Variants: the market is not compared, nor the token metadata.           *)
MatchesTokens(market, config) ==
  /\ config.loan = Params[config.market].loan
  /\ config.kind = "market" => config.coll = Params[config.market].coll
MatchesId(market, config) == config.market = market

(* Variant: a native loan is expected to be named by the sentinel.         *)
ExpectsSentinel(market, config) ==
  /\ MatchesId(market, config)
  /\ config.loan = IF config.loanIsNative THEN NativeToken
                   ELSE Params[config.market].loan
  /\ config.kind = "market" => config.coll = Params[config.market].coll

AssertMarketConfigMatchesMarket(market, config) ==
  /\ config.market = market
  /\ config.loan = Params[config.market].loan
  /\ config.kind = "market" => config.coll = Params[config.market].coll

(* Asked of the provider registered now, not of the config's.              *)
AssertSmartConfigTokens(chain, config) ==
  LET p == chain.provider[config.market].coll IN
  /\ p # "zero" /\ p \in DOMAIN Pool
  /\ config.a = Pool[p].a /\ config.b = Pool[p].b /\ config.lp = Pool[p].lp

AssertVaultConfigAsset(vault, config) == config.asset = VaultAsset[vault]
-----------------------------------------------------------------------------
(* resolveProviders.ts: what the config says of providers is overwritten.  *)

(* Variants: the flags stay the caller's; the provider does.               *)
KeepsFlags(net, chain, config) ==
  [config EXCEPT !.loanProvider = chain.provider[config.market].loan,
                 !.collProvider = chain.provider[config.market].coll]
KeepsConfig(net, chain, config) == config

WithResolvedProviders(net, chain, config) ==
  LET p == chain.provider[config.market]
      common == [config EXCEPT !.loanProvider = p.loan, !.collProvider = p.coll,
                               !.loanIsNative = p.loan = NativeProvider(net)] IN
  IF config.kind = "market"
  THEN [common EXCEPT !.collIsNative = p.coll = NativeProvider(net)]
  ELSE common

(* The second half, for a Smart config: the pair of the provider just      *)
(* resolved.  A provider that answers no token() has no native side.       *)
WithResolvedPair(config) ==
  LET isSmart == config.collProvider \in DOMAIN Pool IN
  [config EXCEPT
     !.aIsNative = isSmart /\ Pool[config.collProvider].a = NativeToken,
     !.bIsNative = isSmart /\ Pool[config.collProvider].b = NativeToken]

(* Variant: what the read left is taken as it is.                          *)
TakesWhatWasRead(net, chain, vault, config) ==
  [config EXCEPT !.provider = chain.vault[vault],
                 !.isNative = chain.vault[vault] = NativeProvider(net)]

(* A vault without a provider() view has none.                             *)
WithResolvedVaultProvider(net, chain, vault, config) ==
  LET p == IF chain.vault[vault] = "noView" THEN "zero" ELSE chain.vault[vault] IN
  [config EXCEPT !.provider = p, !.isNative = p = NativeProvider(net)]
-----------------------------------------------------------------------------
(* builders/broker.ts assertBrokerIsRegistered, in the order of its reads. *)

ClaimsThisMoolah(address) ==
  address \in DOMAIN Claims /\ Claims[address].moolah = "moolah"

BrokerIsRegistered(chain, address, expected) ==
  /\ chain.broker[Claims[address].market] = address
  /\ expected # "none" => Claims[address].market = expected
-----------------------------------------------------------------------------
(* builders/liquidation.ts isLiquidationMarketEnabled: two contracts gate  *)
(* it, and the liquidator's own gate is any of three.                      *)

(* Variant: the liquidator's list is all there is to read.                 *)
ListedAtTheLiquidator(lists) == lists.market \/ lists.borrower

IsLiquidationMarketEnabled(lists) ==
  (lists.open \/ lists.market \/ lists.borrower) /\ lists.allowed
=============================================================================
