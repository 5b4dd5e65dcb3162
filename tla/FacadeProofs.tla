---------------------------- MODULE FacadeProofs ----------------------------
(***************************************************************************)
(* What the facade never does, for every network, registration, request    *)
(* and supplied config, and for any number of moves: take silence for an   *)
(* answer, read through another chain's client, encode a market nobody     *)
(* named, or call or approve what a config merely says.                    *)
(***************************************************************************)
EXTENDS Facade, TLAPS

(* The request keeps its fields; it is one of those that may be made, and  *)
(* about what the chain has.                                               *)
Fields == {"phase", "why", "ask", "config", "client", "route", "stale", "mid",
           "late", "lost"}

Shaped ==
  /\ Fields \subseteq DOMAIN req
  /\ req.phase # "idle" => req.ask \in Request /\ req.ask.about = chain.about

(* Silence ends a request, and only then is it marked.                     *)
Silent == req.lost => req.phase = "unreachable"

(* The cache holds each chain's own client, the caller's among them.       *)
Clients ==
  /\ {"own", "clients"} \subseteq DOMAIN sdk
  /\ sdk.own \subseteq DOMAIN sdk.clients
  /\ \A c \in DOMAIN sdk.clients :
       sdk.clients[c] = [chainId |-> c, own |-> c \in sdk.own]

IInv == Shaped /\ Silent /\ Clients /\ ClientOfTheChain
-----------------------------------------------------------------------------
(* The client a request reads through is a new one or the cached one, and  *)
(* either is the chain's own.                                              *)
LEMMA ClientIsOwn ==
  ASSUME Clients, NEW c
  PROVE  GetPublicClient(c) = [chainId |-> c, own |-> c \in sdk.own]
<1>1. CASE c \in DOMAIN sdk.clients
  BY <1>1 DEF Clients, GetPublicClient
<1>2. CASE c \notin DOMAIN sdk.clients
  <2>1. (c \in sdk.own) = FALSE
    BY <1>2 DEF Clients
  <2> QED
    BY <1>2, <2>1 DEF GetPublicClient
<1> QED
  BY <1>1, <1>2

(* Making a client for one more chain leaves the others what they are.     *)
LEMMA CachedClients ==
  ASSUME Clients, NEW c, sdk' = Cached(c)
  PROVE  Clients' /\ sdk'.own = sdk.own
<1> DEFINE made == [i \in DOMAIN sdk.clients \cup {c} |->
                      IF i = c THEN GetPublicClient(c) ELSE sdk.clients[i]]
<1>1. sdk' = [sdk EXCEPT !.clients = made]
  BY DEF Cached
<1>2. sdk'.own = sdk.own /\ sdk'.clients = made /\ DOMAIN sdk' = DOMAIN sdk
  BY <1>1 DEF Clients
<1>3. \A i \in DOMAIN made : made[i] = [chainId |-> i, own |-> i \in sdk.own]
  BY ClientIsOwn DEF Clients
<1>4. sdk.own \subseteq DOMAIN made
  BY DEF Clients
<1> QED
  BY <1>2, <1>3, <1>4 DEF Clients


LEMMA InitIInv == Init => IInv
<1> SUFFICES ASSUME Init PROVE IInv
  OBVIOUS
<1>1. req = Idle
  BY DEF Init
<1>2. Shaped /\ Silent /\ ClientOfTheChain
  BY <1>1 DEF Shaped, Silent, ClientOfTheChain, Fields, Idle
<1>3. PICK c \in SdkConfig : sdk = Construct(c)
  BY DEF Init
<1>4. Clients
  BY <1>3 DEF Clients, Construct
<1> QED
  BY <1>2, <1>4 DEF IInv

(* The step of a build that is under way: it touches nothing but what the  *)
(* request says of itself.                                                 *)
Goes ==
  /\ DOMAIN req' = DOMAIN req
  /\ req'.ask = req.ask /\ req'.client = req.client
  /\ req.phase # "idle"
  /\ req'.lost => req'.phase = "unreachable"
  /\ chain' = chain /\ sdk' = sdk

Proceeds ==
  \/ ResolveConfig \/ Resolve \/ ResolvePair \/ PairFails
  \/ VaultProviderFails \/ NodeFails
  \/ AskBroker \/ AskMoolah \/ AskLists \/ AskLoanToken \/ FlashLoan
  \/ Build \/ Land

LEMMA ProceedsGoes ==
  ASSUME Shaped, Silent, Proceeds
  PROVE  Goes
<1>1. CASE ResolveConfig
  BY <1>1 DEF ResolveConfig, Refuse, Goes, Shaped, Silent, Fields
<1>2. CASE Resolve
  BY <1>2 DEF Resolve, Refuse, Goes, Shaped, Silent, Fields
<1>3. CASE ResolvePair
  BY <1>3 DEF ResolvePair, Goes, Shaped, Silent, Fields
<1>4. CASE PairFails
  BY <1>4 DEF PairFails, IsContractLevelFailure, ContractErrors, TransportErrors,
              Goes, Shaped, Silent, Fields
<1>5. CASE VaultProviderFails
  BY <1>5 DEF VaultProviderFails, IsContractLevelFailure, ContractErrors,
              TransportErrors, Goes, Shaped, Silent, Fields
<1>6. CASE NodeFails
  BY <1>6 DEF NodeFails, Goes, Shaped, Silent, Fields
<1>7. CASE AskBroker
  BY <1>7 DEF AskBroker, Refuse, Goes, Shaped, Silent, Fields
<1>8. CASE AskMoolah
  BY <1>8 DEF AskMoolah, Refuse, Goes, Shaped, Silent, Fields
<1>9. CASE AskLists
  BY <1>9 DEF AskLists, Refuse, Goes, Shaped, Silent, Fields
<1>10. CASE AskLoanToken
  BY <1>10 DEF AskLoanToken, Refuse, Goes, Shaped, Silent, Fields
<1>11. CASE FlashLoan
  BY <1>11 DEF FlashLoan, Goes, Shaped, Silent, Fields
<1>12. CASE Build
  BY <1>12 DEF Build, Refuse, Goes, Shaped, Silent, Fields
<1>13. CASE Land
  BY <1>13 DEF Land, Goes, Shaped, Silent, Fields
<1> QED
  BY <1>1, <1>2, <1>3, <1>4, <1>5, <1>6, <1>7, <1>8, <1>9, <1>10, <1>11,
     <1>12, <1>13 DEF Proceeds
(* A move leaves the network, and so the chain the request is served from. *)
LEMMA SameChainId ==
  ASSUME chain'.net = chain.net
  PROVE  Here' = Here
BY DEF Here, Net

LEMMA NextIInv == IInv /\ [Next]_vars => IInv'
<1> SUFFICES ASSUME IInv, [Next]_vars PROVE IInv'
  OBVIOUS
<1> USE DEF IInv
<1>1. CASE ReadElsewhere
  <2>1. PICK c \in ChainIds : sdk' = Cached(c)
    BY <1>1 DEF ReadElsewhere
  <2>2. Clients' /\ sdk'.own = sdk.own
    BY <2>1, CachedClients
  <2>3. chain' = chain /\ req' = req
    BY <1>1 DEF ReadElsewhere
  <2> QED
    BY <2>2, <2>3, SameChainId DEF Shaped, Silent, ClientOfTheChain
<1>2. CASE Move
  <2>1. PICK w \in World : w.net = Net /\ w.about = chain.about /\ chain' = w
    BY <1>2 DEF Move
  <2>2. Here' = Here
    BY <2>1, SameChainId DEF Net
  <2>3. /\ DOMAIN req' = DOMAIN req
        /\ req'.ask = req.ask /\ req'.client = req.client
        /\ req'.phase = req.phase /\ req'.lost = req.lost
    BY <1>2 DEF Move, Shaped, Fields
  <2>4. sdk' = sdk
    BY <1>2 DEF Move
  <2>5. Shaped' /\ Silent'
    BY <2>1, <2>3 DEF Shaped, Silent
  <2>6. Clients' /\ ClientOfTheChain'
    BY <2>2, <2>3, <2>4 DEF Clients, ClientOfTheChain
  <2> QED
    BY <2>5, <2>6
<1>3. CASE ReadConfig
  <2>1. Clients' /\ sdk'.own = sdk.own
    BY <1>3, CachedClients DEF ReadConfig
  <2>2. chain' = chain /\ req' = req
    BY <1>3 DEF ReadConfig
  <2> QED
    BY <2>1, <2>2, SameChainId DEF Shaped, Silent, ClientOfTheChain
<1>4. ASSUME NEW r \in Request, NEW c \in ChainIds, Call(r, c)
      PROVE  IInv'
  <2> DEFINE served == c \in DOMAIN NetworkOf /\ CanReach(c)
  <2>1. /\ chain' = chain /\ r.about = chain.about /\ req.phase = "idle"
        /\ served => c = Here
    BY <1>4 DEF Call
  <2>2. req' = [req EXCEPT !.phase = IF served THEN "called" ELSE "refused",
                           !.why = IF served THEN "none" ELSE "chain",
                           !.ask = r, !.config = Supplied(r),
                           !.client = IF served THEN GetPublicClient(c) ELSE Nothing]
    BY <1>4 DEF Call
  <2>3. /\ DOMAIN req' = DOMAIN req /\ req'.ask = r
        /\ req'.phase \in {"called", "refused"} /\ req'.lost = req.lost
        /\ req'.client = IF served THEN GetPublicClient(c) ELSE Nothing
    BY <2>2 DEF Shaped, Fields
  <2>4. Shaped' /\ Silent'
    BY <2>1, <2>3 DEF Shaped, Silent
  <2>5. sdk' = IF served THEN Cached(c) ELSE sdk
    BY <1>4 DEF Call
  <2>6. Clients' /\ sdk'.own = sdk.own
    BY <2>5, CachedClients DEF Clients
  <2>7. ClientOfTheChain'
    <3>1. Here' = Here
      BY <2>1, SameChainId
    <3>2. CASE served
      BY <2>1, <2>3, <2>6, <3>1, <3>2, ClientIsOwn DEF ClientOfTheChain
    <3>3. CASE ~served
      BY <2>3, <3>3 DEF ClientOfTheChain
    <3> QED
      BY <3>2, <3>3
  <2> QED
    BY <2>4, <2>6, <2>7
<1>5. CASE Proceeds
  <2>1. Goes
    BY <1>5, ProceedsGoes
  <2>2. Shaped' /\ Silent'
    BY <2>1 DEF Goes, Shaped, Silent
  <2>3. Clients' /\ ClientOfTheChain'
    BY <2>1, SameChainId DEF Goes, Clients, ClientOfTheChain
  <2> QED
    BY <2>2, <2>3
<1>6. CASE UNCHANGED vars
  BY <1>6, SameChainId DEF vars, Shaped, Silent, Clients, ClientOfTheChain
<1> QED
  BY <1>1, <1>2, <1>3, <1>4, <1>5, <1>6 DEF Next, Proceeds

(* No history of moves, reads and failures breaks the invariant.           *)
LEMMA Invariance == Spec => []IInv
BY InitIInv, NextIInv, PTL DEF Spec

(* A request one of whose reads was not answered ends without steps: no    *)
(* handler takes a transport failure for a contract's no.                  *)
THEOREM SilenceSafe == Spec => []SilenceBuildsNothing
<1>1. IInv => SilenceBuildsNothing
  BY DEF IInv, Silent, SilenceBuildsNothing
<1> QED
  BY <1>1, Invariance, PTL

(* However many chains one instance has read before, a request reads its   *)
(* own, through the client the caller gave for it if he gave one.          *)
THEOREM ClientSafe == Spec => []ClientOfTheChain
<1>1. IInv => ClientOfTheChain
  BY DEF IInv
<1> QED
  BY <1>1, Invariance, PTL
-----------------------------------------------------------------------------
(* What a builder emits is called on, and approved to, one contract.       *)
OneTarget(route) == \A a \in route.approves : a[2] = route.to

IsRoute(route) ==
  {"to", "approves", "value", "native", "market"} \subseteq DOMAIN route /\ OneTarget(route)

LEMMA RouteIs ==
  ASSUME NEW to, NEW tokens
  PROVE  /\ \A route \in {Pulling(to, tokens), Paying(to), Calling(to)} :
              IsRoute(route) /\ route.to = to /\ route.market = "none"
         /\ Paying(to).value
<1>1. LET route == Pulling(to, tokens)
      IN IsRoute(route) /\ route.to = to /\ route.market = "none"
  BY DEF IsRoute, OneTarget, Pulling, Route
<1>2. LET route == Paying(to)
      IN IsRoute(route) /\ route.to = to /\ route.market = "none" /\ route.value
  BY DEF IsRoute, OneTarget, Paying, Route
<1>3. LET route == Calling(to)
      IN IsRoute(route) /\ route.to = to /\ route.market = "none"
  BY DEF IsRoute, OneTarget, Calling, Route
<1> QED
  BY <1>1, <1>2, <1>3

(* Naming a market changes nothing else.                                   *)
LEMMA ForIs ==
  ASSUME NEW config, NEW route, IsRoute(route)
  PROVE  /\ OneTarget(For(config, route))
         /\ For(config, route).to = route.to
         /\ For(config, route).value = route.value
         /\ For(config, route).market = config.market
BY DEF IsRoute, OneTarget, For

(* Who is called in a market, for the providers its config was given.      *)
Served(op, config) ==
  CASE op \in {"supply", "withdraw"} -> OrMoolah(config.collProvider)
    [] op \in {"borrow", "repay", "repaySmart"} -> OrMoolah(config.loanProvider)
    [] op \in SmartOps \ {"repaySmart"} -> config.collProvider
    [] op = "migrateToFixedTerm" -> "positionManager"
    [] OTHER -> "moolah"

(* A call that is paid never goes to nobody, so there the provider is the  *)
(* one that serves.                                                        *)
GoesTo(route, address) ==
  IsRoute(route) /\ (~PaysNobody(route) => route.to = address)

LEMMA MarketRoute ==
  ASSUME NEW net, NEW r, r.op \in MarketOps, ~PaysNobody(Emitted(net, r))
  PROVE  /\ OneTarget(Emitted(net, r)) /\ Emitted(net, r).market = r.config.market
         /\ Emitted(net, r).to = Served(r.op, r.config)
<1> DEFINE steps ==
      CASE r.op = "supply"         -> SupplySteps(r.config)
        [] r.op = "borrow"         -> BorrowSteps(r.config)
        [] r.op = "repay"          -> RepaySteps(net, r.config)
        [] r.op = "withdraw"       -> WithdrawSteps(r.config)
        [] r.op = "moolahSupply"   -> MoolahSupplySteps(r.config)
        [] r.op = "moolahWithdraw" -> MoolahCallSteps
        [] r.op = "migrateToFixedTerm" -> Calling("positionManager")
<1>1. Emitted(net, r) = For(r.config, steps)
  BY DEF Emitted, EmittedOnMarket, MarketOps, SmartOps, VaultOps, BrokerOps
<1>2. GoesTo(steps, Served(r.op, r.config))
  <2> USE RouteIs DEF GoesTo, Served, OrMoolah, PaysNobody, SmartOps
  <2>1. CASE r.op = "supply"
    BY <2>1 DEF SupplySteps
  <2>2. CASE r.op = "borrow"
    BY <2>2 DEF BorrowSteps
  <2>3. CASE r.op = "repay"
    BY <2>3 DEF RepaySteps
  <2>4. CASE r.op = "withdraw"
    BY <2>4 DEF WithdrawSteps
  <2>5. CASE r.op = "moolahSupply"
    BY <2>5 DEF MoolahSupplySteps
  <2>6. CASE r.op = "moolahWithdraw"
    BY <2>6 DEF MoolahCallSteps
  <2>7. CASE r.op = "migrateToFixedTerm"
    BY <2>7
  <2> QED
    BY <2>1, <2>2, <2>3, <2>4, <2>5, <2>6, <2>7 DEF MarketOps
<1> HIDE DEF steps
<1> QED
  BY <1>1, <1>2, ForIs DEF GoesTo, PaysNobody

LEMMA SmartRoute ==
  ASSUME NEW net, NEW r, r.op \in SmartOps, ~PaysNobody(Emitted(net, r))
  PROVE  /\ OneTarget(Emitted(net, r)) /\ Emitted(net, r).market = r.config.market
         /\ Emitted(net, r).to = Served(r.op, r.config)
<1> DEFINE steps ==
      CASE r.op = "supplyDexLp"   -> SmartSupplyDexLpSteps(r.config)
        [] r.op = "supplySmart"   -> SmartSupplyCollateralSteps(r.config)
        [] r.op = "withdrawSmart" -> SmartWithdrawSteps(r.config)
        [] r.op \in {"withdrawSmartOneCoin", "redeemSmart"} -> SmartUnwindSteps(r.config)
        [] r.op = "repaySmart"    -> SmartRepaySteps(r.config)
<1>1. Emitted(net, r) = For(r.config, steps)
  BY DEF Emitted, EmittedOnSmart, MarketOps, SmartOps, VaultOps, BrokerOps
<1>2. GoesTo(steps, Served(r.op, r.config))
  <2> USE RouteIs DEF GoesTo, Served, OrMoolah, PaysNobody,
                      SmartOps
  <2>1. CASE r.op = "supplyDexLp"
    BY <2>1 DEF SmartSupplyDexLpSteps
  <2>2. CASE r.op = "supplySmart"
    BY <2>2 DEF SmartSupplyCollateralSteps, IsRoute, OneTarget, Route
  <2>3. CASE r.op \in {"withdrawSmart", "withdrawSmartOneCoin", "redeemSmart"}
    BY <2>3 DEF SmartWithdrawSteps, SmartUnwindSteps
  <2>4. CASE r.op = "repaySmart"
    BY <2>4 DEF SmartRepaySteps
  <2> QED
    BY <2>1, <2>2, <2>3, <2>4
<1> HIDE DEF steps
<1> QED
  BY <1>1, <1>2, ForIs DEF GoesTo, PaysNobody

LEMMA OtherRoute ==
  ASSUME NEW net, NEW r,
         r.op \in VaultOps \cup BrokerOps \cup {"liquidate", "flashLoan"},
         ~PaysNobody(Emitted(net, r))
  PROVE  /\ OneTarget(Emitted(net, r)) /\ Emitted(net, r).market = "none"
         /\ r.op \in VaultOps => Emitted(net, r).to = OrVault(r.config, r.on)
         /\ r.op \in BrokerOps => Emitted(net, r).to = r.broker
         /\ r.op = "flashLoan" => Emitted(net, r).to = "moolah"
<1> DEFINE e == Emitted(net, r)
<1> USE RouteIs DEF VaultOps, BrokerOps, PaysNobody, IsRoute
<1>1. CASE r.op \in VaultOps
  <2>1. e = EmittedOnVault(net, r)
    BY <1>1 DEF Emitted, MarketOps, SmartOps
  <2>2. CASE r.op = "depositVault"
    BY <2>1, <2>2 DEF EmittedOnVault, VaultDepositSteps, OrVault
  <2>3. CASE r.op = "withdrawVault"
    BY <2>1, <2>3 DEF EmittedOnVault, VaultWithdrawSteps, OrVault, OneTarget
  <2>4. CASE r.op = "vaultMint"
    BY <2>1, <2>4 DEF EmittedOnVault, VaultMintSteps, OrVault
  <2> QED
    BY <1>1, <2>2, <2>3, <2>4
<1>2. CASE r.op \in BrokerOps
  <2>1. e = EmittedByBroker(r)
    BY <1>2 DEF Emitted, MarketOps, SmartOps
  <2> QED
    BY <1>2, <2>1 DEF EmittedByBroker, BrokerDebtSteps, BrokerRefinanceMaturedSteps,
                      BrokerRepaySteps, BrokerRepayAllSteps
<1>3. CASE r.op \in {"liquidate", "flashLoan"}
  BY <1>3 DEF Emitted, MarketOps, SmartOps, LiquidateSteps, MoolahCallSteps
<1> QED
  BY <1>1, <1>2, <1>3
-----------------------------------------------------------------------------
(* Where a config and a route come from.                                   *)

Configured == {"configured", "pairing", "resolved"}
OnConfigs  == DOMAIN ConfigFields       \* markets, Smart markets and vaults

(* What the types say of a config: its fields, and a market's own name.    *)
Typed(config) ==
  /\ ConfigFields[chain.about] \subseteq DOMAIN config /\ config.kind = chain.about
  /\ chain.about # "vault" => config.market \in Markets

(* A config that was kept is of what the chain has; derived, it names it.  *)
Kept ==
  held # Nothing =>
    chain.about \in OnConfigs /\ Typed(held)

(* So is one in hand, from the moment it is there.                         *)
Handed ==
  /\ req.phase = "pairing" => chain.about = "smart"
  /\ req.phase = "called" /\ req.ask.given # "none" => Typed(req.config)
  /\ /\ req.phase \in Configured /\ chain.about \in OnConfigs
     /\ req.ask.op # "flashLoan"
     => /\ Typed(req.config)
        /\ chain.about # "vault" =>
             \/ req.config.market = chain.on
             \/ req.ask.trusted /\ req.ask.op # "migrateToFixedTerm"

(* Once resolved, and until a registration moves, its providers are the    *)
(* chain's, whatever it said before; so is the broker that was asked.      *)
Resolved ==
  req.phase \in {"pairing", "resolved"} /\ ~req.late =>
    /\ /\ chain.about \in {"market", "smart"}
       /\ req.ask.op \notin Unresolved \cup {"flashLoan"}
       => /\ req.config.loanProvider = chain.provider[req.config.market].loan
          /\ req.config.collProvider = chain.provider[req.config.market].coll
    /\ chain.about = "vault" =>
         req.config.provider =
           IF chain.vault[chain.on] = "noView" THEN "zero" ELSE chain.vault[chain.on]
    /\ chain.about = "broker" =>
         chain.broker[Claims[req.ask.broker].market] = req.ask.broker

RInv ==
  /\ IInv /\ chain \in World /\ Kept /\ Handed /\ Resolved
  /\ ConfigNeverRoutes /\ NamedMarketOnly

(* What the SDK derives is a config of what it was derived for.            *)
LEMMA DerivedTyped ==
  ASSUME chain \in World, Derives
  PROVE  /\ chain.about \in OnConfigs /\ Typed(Derived)
         /\ chain.about # "vault" => Derived.market = chain.on
<1> USE DEF Derives, Derived, OnConfigs, ConfigFields, Providing, Typed
<1>1. CASE chain.about = "market"
  BY <1>1, FacadeAssumption DEF GetWriteConfig
<1>2. CASE chain.about = "smart"
  BY <1>2, FacadeAssumption DEF GetSmartMarketExtraInfo
<1>3. CASE chain.about = "vault"
  BY <1>3 DEF GetVaultInfo
<1> QED
  BY <1>1, <1>2, <1>3

(* Resolution overwrites the providers and keeps the market.               *)
LEMMA ResolutionOverwrites ==
  ASSUME NEW net, NEW config, NEW state,
         Providing \subseteq DOMAIN config
  PROVE  LET after == WithResolvedProviders(net, state, config) IN
         /\ DOMAIN after = DOMAIN config
         /\ after.market = config.market /\ after.kind = config.kind
         /\ after.loanProvider = state.provider[config.market].loan
         /\ after.collProvider = state.provider[config.market].coll
BY DEF Providing, WithResolvedProviders

LEMMA PairOverwrites ==
  ASSUME NEW config, Providing \subseteq DOMAIN config
  PROVE  LET after == WithResolvedPair(config) IN
         /\ DOMAIN after = DOMAIN config
         /\ after.market = config.market /\ after.kind = config.kind
         /\ after.loanProvider = config.loanProvider
         /\ after.collProvider = config.collProvider
BY DEF Providing, WithResolvedPair

LEMMA VaultOverwrites ==
  ASSUME NEW net, NEW config, NEW state, NEW vault,
         {"kind", "provider"} \subseteq DOMAIN config
  PROVE  LET after == WithResolvedVaultProvider(net, state, vault, config) IN
         /\ DOMAIN after = DOMAIN config /\ after.kind = config.kind
         /\ after.provider = IF state.vault[vault] = "noView" THEN "zero"
                             ELSE state.vault[vault]
BY DEF WithResolvedVaultProvider
-----------------------------------------------------------------------------
(* Each step keeps the invariant.                                          *)

LEMMA InitRInv == Init => RInv
<1> SUFFICES ASSUME Init PROVE RInv
  OBVIOUS
<1>1. req = Idle /\ held = Nothing /\ chain \in World
  BY DEF Init
<1>2. req.phase = "idle"
  BY <1>1 DEF Idle
<1>3. Kept /\ Handed /\ Resolved /\ ConfigNeverRoutes /\ NamedMarketOnly
  BY <1>1, <1>2 DEF Kept, Handed, Resolved, Configured, ConfigNeverRoutes,
                    NamedMarketOnly, Steps
<1> QED
  BY <1>1, <1>3, InitIInv DEF RInv

(* The part of it that says where a route comes from.                      *)
Routed == chain \in World /\ Kept /\ Handed /\ Resolved
            /\ ConfigNeverRoutes /\ NamedMarketOnly

(* A build that ended without steps has nothing to keep.                   *)
LEMMA EndedRouted ==
  ASSUME Routed, chain' = chain, held' = held,
         req'.phase \in {"refused", "unreachable"}
  PROVE  Routed'
BY DEF Routed, Kept, Handed, Resolved, Typed, Configured, ConfigNeverRoutes,
       NamedMarketOnly, Steps

LEMMA MoveRouted ==
  ASSUME RInv, Move
  PROVE  Routed'
<1>1. PICK w \in World : w.about = chain.about /\ w.on = chain.on /\ chain' = w
  BY DEF Move
<1>2. /\ req'.phase = req.phase /\ req'.config = req.config /\ req'.ask = req.ask
      /\ req'.late = (req.late \/ Looked) /\ req'.route = req.route /\ held' = held
  BY DEF Move, RInv, IInv, Shaped, Fields
<1>3. Kept' /\ Handed'
  BY <1>1, <1>2 DEF RInv, Kept, Handed, Typed
<1>4. Resolved'
  BY <1>1, <1>2 DEF Resolved, Looked
<1>5. ConfigNeverRoutes'
  <2>1. req.phase \in Steps => Looked
    BY DEF Move, Steps, Looked
  <2> QED
    BY <1>2, <2>1 DEF RInv, ConfigNeverRoutes
<1>6. NamedMarketOnly'
  BY <1>1, <1>2 DEF RInv, NamedMarketOnly, Subject
<1> QED
  BY <1>1, <1>3, <1>4, <1>5, <1>6 DEF Routed

LEMMA CallRouted ==
  ASSUME RInv, NEW r \in Request, NEW c \in ChainIds, Call(r, c)
  PROVE  Routed'
<1>1. /\ chain' = chain /\ held' = Nothing /\ r.about = chain.about
      /\ r.given = "held" <=> held # Nothing
  BY DEF Call
<1>2. /\ req'.phase \in {"called", "refused"} /\ req'.ask = r
      /\ req'.config = Supplied(r)
  BY DEF Call, RInv, IInv, Shaped, Fields
<1>3. r.given # "none" => Typed(Supplied(r))
  <2>1. CASE r.given = "held"
    BY <1>1, <2>1 DEF RInv, Kept, Supplied
  <2>2. CASE r.given = "forged"
    BY <1>1, <2>2, RequestAssumption DEF Typed, Supplied
  <2> QED
    BY <2>1, <2>2, RequestAssumption
<1>4. Typed(Supplied(r))' = Typed(Supplied(r))
  BY <1>1 DEF Typed, Supplied
<1> QED
  BY <1>1, <1>2, <1>3 DEF RInv, Routed, Kept, Handed, Resolved, Typed, Configured,
        ConfigNeverRoutes, NamedMarketOnly, Steps

LEMMA ResolveConfigRouted ==
  ASSUME RInv, ResolveConfig
  PROVE  Routed'
<1>1. /\ chain' = chain /\ held' = held /\ req.phase = "called"
      /\ chain.about \in {"market", "smart", "vault"}
  BY DEF ResolveConfig
<1> USE DEF RInv, IInv, Shaped, Routed
<1>2. CASE req'.phase = "refused"
  BY <1>1, <1>2, EndedRouted
<1>3. CASE req'.phase # "refused"
  <2>1. /\ req'.phase = "configured" /\ req'.ask = req.ask
        /\ \/ req.ask.given = "none" /\ Derives /\ req'.config = Derived
           \/ req.ask.given # "none" /\ Checked(req.config) /\ req'.config = req.config
    BY <1>3 DEF ResolveConfig, Refuse, Fields
  <2>2. Typed(req'.config)
    BY <2>1, <1>1, DerivedTyped DEF Handed
  <2>3. chain.about # "vault" =>
          \/ req'.config.market = chain.on
          \/ req.ask.trusted /\ req.ask.op # "migrateToFixedTerm"
    <3>1. CASE req.ask.given = "none"
      BY <2>1, <3>1, DerivedTyped
    <3>2. CASE req.ask.given # "none"
      BY <2>1, <3>2, <1>1 DEF Checked, AssertMarketConfigMatchesMarket
    <3> QED
      BY <3>1, <3>2
  <2>4. Handed'
    BY <1>1, <2>1, <2>2, <2>3 DEF Handed, Typed, Configured
  <2>5. Kept' /\ Resolved' /\ ConfigNeverRoutes' /\ NamedMarketOnly'
    BY <1>1, <2>1 DEF Kept, Typed, Resolved, ConfigNeverRoutes, NamedMarketOnly, Steps
  <2> QED
    BY <1>1, <2>4, <2>5
<1> QED
  BY <1>2, <1>3

LEMMA ResolveRouted ==
  ASSUME RInv, Resolve
  PROVE  Routed'
<1>1. /\ chain' = chain /\ held' = held /\ req.phase = "configured"
      /\ chain.about \in {"market", "smart", "vault"}
  BY DEF Resolve
<1> USE DEF RInv, IInv, Shaped, Routed
<1> DEFINE config ==
      IF req.ask.op \in Unresolved THEN req.config
      ELSE IF chain.about = "vault"
      THEN WithResolvedVaultProvider(Net, chain, chain.on, req.config)
      ELSE WithResolvedProviders(Net, chain, req.config)
<1>2. CASE req'.phase = "refused"
  BY <1>1, <1>2, EndedRouted
<1>3. CASE req'.phase # "refused"
  <2>1. req' = [req EXCEPT !.config = config,
                  !.phase = IF chain.about = "smart" THEN "pairing" ELSE "resolved"]
    BY <1>3 DEF Resolve, Refuse, Fields
  <2> HIDE DEF config
  <2>2. /\ req'.phase \in {"pairing", "resolved"} /\ req'.ask = req.ask
        /\ req'.phase = "pairing" => chain.about = "smart"
        /\ req'.config = config /\ req'.late = req.late
    BY <2>1 DEF Fields
  <2>3. CASE req.ask.op = "flashLoan"
    <3>1. chain.about \in {"market", "smart"}
      BY <1>1, <2>3, RequestAssumption DEF OpsOf, VaultOps
    <3> QED
      BY <1>1, <2>2, <2>3, <3>1 DEF Kept, Typed, Handed, Resolved, ConfigNeverRoutes,
            NamedMarketOnly, Steps
  <2>4. CASE req.ask.op # "flashLoan"
    <3>1. Typed(req.config)
      BY <1>1, <2>4 DEF Handed, Configured, OnConfigs, ConfigFields
    <3>2. DOMAIN config = DOMAIN req.config /\ config.kind = req.config.kind
      BY <1>1, <3>1, ResolutionOverwrites, VaultOverwrites DEF config, Typed, ConfigFields
    <3>3. chain.about # "vault" => config.market = req.config.market
      BY <1>1, <3>1, ResolutionOverwrites DEF config, Typed, ConfigFields
    <3>4. Handed'
      BY <1>1, <2>2, <2>4, <3>1, <3>2, <3>3 DEF Handed, Typed, Configured, OnConfigs,
            ConfigFields
    <3>5. Resolved'
      <4>1. CASE chain.about \in {"market", "smart"}
        BY <4>1, <1>1, <2>2, <3>1, <3>3, ResolutionOverwrites DEF Resolved, config, Typed,
              ConfigFields
      <4>2. CASE chain.about = "vault"
        <5>1. req.ask.op \notin Unresolved
          BY <4>2, <1>1, RequestAssumption DEF OpsOf, VaultOps, Unresolved
        <5> QED
          BY <4>2, <5>1, <1>1, <2>2, <3>1, VaultOverwrites DEF Resolved, config, Typed,
                ConfigFields
      <4> QED
        BY <1>1, <4>1, <4>2
    <3> QED
      BY <1>1, <2>2, <3>4, <3>5 DEF Kept, Typed, ConfigNeverRoutes, NamedMarketOnly, Steps
  <2> QED
    BY <2>3, <2>4
<1> QED
  BY <1>2, <1>3
LEMMA PairRouted ==
  ASSUME RInv, ResolvePair \/ PairFails
  PROVE  Routed'
<1>1. /\ chain' = chain /\ held' = held /\ req.phase = "pairing"
      /\ req'.ask = req.ask /\ req'.late = req.late
      /\ req'.phase \in {"resolved", "unreachable"}
  BY DEF ResolvePair, PairFails, RInv, IInv, Shaped, Fields
<1> USE DEF RInv, IInv, Shaped, Routed
<1>2. CASE req'.phase = "unreachable"
  BY <1>1, <1>2, EndedRouted
<1>3. CASE req'.phase = "resolved"
  <2>1. \/ req'.config = WithResolvedPair(req.config)
        \/ req'.config = [req.config EXCEPT !.aIsNative = FALSE, !.bIsNative = FALSE]
    BY DEF ResolvePair, PairFails, Fields
  <2>2. chain.about = "smart" /\ req.ask.op # "flashLoan"
    BY <1>1, RequestAssumption DEF Handed, OpsOf, SmartOps
  <2>3. Typed(req.config) /\ Providing \subseteq DOMAIN req.config
    BY <1>1, <2>2 DEF Handed, Configured, OnConfigs, ConfigFields, Typed
  <2>4. /\ DOMAIN req'.config = DOMAIN req.config
        /\ req'.config.market = req.config.market /\ req'.config.kind = req.config.kind
        /\ req'.config.loanProvider = req.config.loanProvider
        /\ req'.config.collProvider = req.config.collProvider
    BY <2>1, <2>3, PairOverwrites DEF Providing
  <2>5. Handed'
    BY <1>1, <1>3, <2>2, <2>3, <2>4 DEF Handed, Typed, Configured, OnConfigs, ConfigFields
  <2>6. Resolved'
    BY <1>1, <1>3, <2>2, <2>4 DEF Resolved
  <2> QED
    BY <1>1, <1>3, <2>5, <2>6 DEF Kept, Typed, ConfigNeverRoutes, NamedMarketOnly, Steps
<1> QED
  BY <1>1, <1>2, <1>3

(* Silence, on a vault or anywhere else, ends the request.                 *)
LEMMA FailedRouted ==
  ASSUME RInv, VaultProviderFails \/ NodeFails
  PROVE  Routed'
<1>1. chain' = chain /\ held' = held /\ req'.phase = "unreachable"
  BY DEF VaultProviderFails, NodeFails, IsContractLevelFailure, ContractErrors,
         TransportErrors, RInv, IInv, Shaped, Fields
<1> QED
  BY <1>1, EndedRouted DEF RInv, Routed

(* The broker, the liquidator's lists and the flash loan need no config.   *)
LEMMA AskedRouted ==
  ASSUME RInv, AskBroker \/ AskMoolah \/ AskLists \/ AskLoanToken \/ FlashLoan
  PROVE  Routed'
<1>1. /\ chain' = chain /\ held' = held
      /\ req'.ask = req.ask /\ req'.late = req.late
      /\ req'.phase \in {"configured", "resolved", "refused"}
  BY DEF AskBroker, AskMoolah, AskLists, AskLoanToken, FlashLoan, Refuse, RInv, IInv,
         Shaped, Fields
<1> USE DEF RInv, IInv, Shaped, Routed
<1>2. CASE req'.phase = "refused"
  BY <1>1, <1>2, EndedRouted
<1>3. CASE FlashLoan
  <2>1. req.ask.op = "flashLoan" /\ req.phase = "called"
    BY <1>3 DEF FlashLoan
  <2>2. chain.about \notin {"vault", "broker"}
    BY <2>1, RequestAssumption DEF OpsOf, VaultOps, BrokerOps
  <2>3. req'.phase = "resolved"
    BY <1>3 DEF FlashLoan, Fields
  <2> QED
    BY <1>1, <2>1, <2>2, <2>3 DEF Kept, Handed, Resolved, Typed, ConfigNeverRoutes,
          NamedMarketOnly, Steps
<1>4. CASE (AskBroker \/ AskMoolah \/ AskLists \/ AskLoanToken) /\ req'.phase # "refused"
  <2>1. chain.about \in {"broker", "liquidation"}
    BY <1>4 DEF AskBroker, AskMoolah, AskLists, AskLoanToken
  <2>2. chain.about = "broker" /\ req'.phase = "resolved" =>
          chain.broker[Claims[req.ask.broker].market] = req.ask.broker
    BY <1>4 DEF AskBroker, AskMoolah, AskLists, AskLoanToken, Refuse, Fields,
                BrokerIsRegistered
  <2> QED
    BY <1>1, <1>4, <2>1, <2>2 DEF Kept, Handed, Resolved, Typed, OnConfigs, ConfigFields,
          ConfigNeverRoutes, NamedMarketOnly, Steps
<1> QED
  BY <1>2, <1>3, <1>4

(* What resolution found is who the chain has registered.                  *)
LEMMA ServedIsRegistered ==
  ASSUME NEW state, NEW config, NEW op \in MarketOps \cup SmartOps,
         op \notin Unresolved =>
           /\ config.loanProvider = state.provider[config.market].loan
           /\ config.collProvider = state.provider[config.market].coll
  PROVE  Served(op, config) = Registered(state, op, config.market)
<1>1. CASE op \in {"supply", "withdraw", "borrow", "repay"}
  BY <1>1 DEF Served, Registered, MarketOps, SmartOps, VaultOps, Unresolved
<1>2. CASE op \in Unresolved
  BY <1>2 DEF Served, Registered, MarketOps, SmartOps, VaultOps, Unresolved
<1>3. CASE op \in SmartOps
  BY <1>3 DEF Served, Registered, MarketOps, SmartOps, VaultOps, Unresolved
<1> QED
  BY <1>1, <1>2, <1>3 DEF MarketOps, Unresolved

LEMMA BuildRouted ==
  ASSUME RInv, Build
  PROVE  Routed'
<1> DEFINE about == [op |-> req.ask.op, on |-> chain.on, config |-> req.config,
                     broker |-> req.ask.broker, token |-> req.ask.token,
                     paysNative |-> req.ask.paysNative]
           route == Emitted(Net, about)
<1>1. /\ chain' = chain /\ held' = held /\ req.phase = "resolved"
      /\ req'.phase \in {"built", "refused"} /\ req'.ask = req.ask
      /\ req'.late = req.late
      /\ req'.phase = "built" => req'.route = route /\ ~PaysNobody(route)
  BY DEF Build, Refuse, RInv, IInv, Shaped, Fields
<1>2. /\ about.op = req.ask.op /\ about.on = chain.on /\ about.config = req.config
      /\ about.broker = req.ask.broker
  OBVIOUS
<1> HIDE DEF about
<1>3. req.ask \in Request /\ req.ask.about = chain.about
  BY <1>1 DEF RInv, IInv, Shaped
<1> USE DEF RInv, Routed
<1>4. CASE req'.phase = "refused"
  BY <1>1, <1>4, EndedRouted
<1>5. CASE req'.phase = "built"
  <2>1. req.ask.op \in OpsOf[chain.about] /\ chain.about \in DOMAIN OpsOf
    BY <1>3, RequestAssumption
  <2>2. CASE req.ask.op \in MarketOps \cup SmartOps
    <3>1. chain.about \in {"market", "smart"} /\ req.ask.op # "flashLoan"
      BY <2>1, <2>2 DEF OpsOf, MarketOps, SmartOps, VaultOps, BrokerOps
    <3>2. /\ OneTarget(route) /\ route.market = req.config.market
          /\ route.to = Served(req.ask.op, req.config)
      BY <1>1, <1>2, <1>5, <2>2, MarketRoute, SmartRoute
    <3>3. Typed(req.config)
      BY <1>1, <3>1 DEF Handed, Configured, OnConfigs, ConfigFields
    <3>4. req.config.market # "none"
      BY <3>1, <3>3 DEF Typed, Markets, Params
    <3>5. Subject' = req.config.market
      BY <1>1, <1>5, <3>2, <3>4 DEF Subject
    <3>6. NamedMarketOnly'
      BY <1>1, <3>1, <3>5 DEF NamedMarketOnly, Handed, Configured, OnConfigs, ConfigFields
    <3>7. ~req.late => Served(req.ask.op, req.config)
                         = Registered(chain, req.ask.op, req.config.market)
      BY <1>1, <2>2, <3>1, ServedIsRegistered DEF Resolved
    <3>8. ~req.late => Serves'
      BY <1>1, <1>5, <3>1, <3>2, <3>5, <3>7 DEF Serves
    <3>9. ConfigNeverRoutes'
      BY <1>1, <1>5, <3>2, <3>8 DEF ConfigNeverRoutes, OneTarget
    <3> QED
      BY <1>1, <1>5, <3>6, <3>9 DEF Kept, Handed, Resolved, Typed, Configured
  <2>3. CASE req.ask.op \in VaultOps \cup BrokerOps \cup {"liquidate", "flashLoan"}
    <3>1. /\ OneTarget(route) /\ route.market = "none"
          /\ req.ask.op \in VaultOps => route.to = OrVault(req.config, chain.on)
          /\ req.ask.op \in BrokerOps => route.to = req.ask.broker
          /\ req.ask.op = "flashLoan" => route.to = "moolah"
      BY <1>1, <1>2, <1>5, <2>3, OtherRoute
    <3>2. Subject' = chain.on
      BY <1>1, <1>5, <3>1 DEF Subject
    <3>3. NamedMarketOnly'
      BY <1>1, <3>2 DEF NamedMarketOnly
    <3>4. ~req.late => chain.about = "liquidation" \/ Serves'
      <4>1. CASE req.ask.op \in VaultOps
        <5>1. chain.about = "vault"
          BY <2>1, <4>1 DEF OpsOf, MarketOps, SmartOps, VaultOps, BrokerOps
        <5>2. ~req.late => route.to = Registered(chain, req.ask.op, chain.on)
          BY <1>1, <3>1, <4>1, <5>1 DEF Resolved, OrVault, Registered, VaultOps, SmartOps
        <5> QED
          BY <1>1, <1>5, <3>2, <5>1, <5>2 DEF Serves
      <4>2. CASE req.ask.op \in BrokerOps
        <5>1. chain.about = "broker"
          BY <2>1, <4>2 DEF OpsOf, MarketOps, SmartOps, VaultOps, BrokerOps
        <5> QED
          BY <1>1, <1>5, <3>1, <4>2, <5>1 DEF Serves, Resolved
      <4>3. CASE req.ask.op = "flashLoan"
        <5>1. chain.about = "market"
          BY <2>1, <4>3 DEF OpsOf, SmartOps, VaultOps, BrokerOps
        <5>2. Registered(chain, "flashLoan", chain.on) = "moolah"
          BY DEF Registered, SmartOps, VaultOps
        <5> QED
          BY <1>1, <1>5, <3>1, <3>2, <4>3, <5>1, <5>2 DEF Serves
      <4>4. CASE req.ask.op = "liquidate"
        BY <2>1, <4>4 DEF OpsOf, MarketOps, SmartOps, VaultOps, BrokerOps
      <4> QED
        BY <2>3, <4>1, <4>2, <4>3, <4>4
    <3>5. ConfigNeverRoutes'
      BY <1>1, <1>5, <3>1, <3>4 DEF ConfigNeverRoutes, OneTarget
    <3> QED
      BY <1>1, <1>5, <3>3, <3>5 DEF Kept, Handed, Resolved, Typed, Configured
  <2> QED
    BY <2>1, <2>2, <2>3 DEF OpsOf
<1> QED
  BY <1>1, <1>4, <1>5

(* Landing says what became of a route and changes neither it nor whom the *)
(* chain has registered.                                                   *)
LEMMA LandRouted ==
  ASSUME RInv, Land
  PROVE  Routed'
<1>1. /\ chain' = chain /\ held' = held /\ req.phase = "built"
      /\ req'.phase \in {"landed", "bounced"} /\ req'.ask = req.ask
      /\ req'.late = req.late /\ req'.route = req.route
  BY DEF Land, RInv, IInv, Shaped, Fields
<1>2. Subject' = Subject /\ Serves' = Serves
  BY <1>1 DEF Subject, Serves
<1>3. ConfigNeverRoutes' /\ NamedMarketOnly'
  BY <1>1, <1>2 DEF RInv, ConfigNeverRoutes, NamedMarketOnly, Steps
<1> QED
  BY <1>1, <1>3 DEF RInv, Routed, Kept, Handed, Resolved, Typed, Configured

LEMMA NextRInv == RInv /\ [Next]_vars => RInv'
<1> SUFFICES ASSUME RInv, [Next]_vars PROVE RInv'
  OBVIOUS
<1>1. IInv'
  BY NextIInv DEF RInv
<1>2. CASE ReadElsewhere \/ UNCHANGED vars
  <2>1. chain' = chain /\ held' = held /\ req' = req
    BY <1>2 DEF ReadElsewhere, vars
  <2> QED
    BY <1>1, <2>1 DEF RInv, Kept, Handed, Resolved, Typed, ConfigNeverRoutes, Serves,
          NamedMarketOnly, Subject
<1>3. CASE ReadConfig
  <2>1. chain' = chain /\ held' = Derived /\ req' = req /\ Derives
    BY <1>3 DEF ReadConfig
  <2>2. chain.about \in OnConfigs /\ Typed(Derived)
    BY <2>1, DerivedTyped DEF RInv
  <2>3. Kept'
    BY <2>1, <2>2 DEF Kept, Typed
  <2> QED
    BY <1>1, <2>1, <2>3 DEF RInv, Handed, Resolved, Typed, ConfigNeverRoutes, Serves,
          NamedMarketOnly, Subject
<1>4. CASE Move
  BY <1>1, <1>4, MoveRouted DEF RInv, Routed
<1>5. ASSUME NEW r \in Request, NEW c \in ChainIds, Call(r, c)
      PROVE  RInv'
  BY <1>1, <1>5, CallRouted DEF RInv, Routed
<1>6. CASE Proceeds
  <2>1. Routed'
    BY <1>6, ResolveConfigRouted, ResolveRouted, PairRouted, FailedRouted, AskedRouted,
       BuildRouted, LandRouted DEF Proceeds
  <2> QED
    BY <1>1, <2>1 DEF RInv, Routed
<1> QED
  BY <1>2, <1>3, <1>4, <1>5, <1>6 DEF Next, Proceeds

LEMMA RoutingInvariance == Spec => []RInv
BY InitRInv, NextRInv, PTL DEF Spec

(* No config decides where a call or an approval goes, forged, stale or    *)
(* trusted as it may be: what a builder emits goes to the contract that is *)
(* registered when it looks.                                               *)
THEOREM RoutingSafe == Spec => []ConfigNeverRoutes
<1>1. RInv => ConfigNeverRoutes
  BY DEF RInv
<1> QED
  BY <1>1, RoutingInvariance, PTL

(* A call encodes the market the caller named, unless he vouched for the   *)
(* config; a migration's always does.                                      *)
THEOREM MarketSafe == Spec => []NamedMarketOnly
<1>1. RInv => NamedMarketOnly
  BY DEF RInv
<1> QED
  BY <1>1, RoutingInvariance, PTL
-----------------------------------------------------------------------------
(* What a config's tokens and flags are worth, step by step.               *)

(* A config that speaks of its subject: the tokens are the market's own or *)
(* the vault's; a Smart one may name a native loan by the sentinel.        *)
Genuine(config) ==
  /\ chain.about \in {"market", "smart"} => config.market = chain.on
  /\ chain.about = "market" =>
       config.loan = Params[chain.on].loan /\ config.coll = Params[chain.on].coll
  /\ chain.about = "smart" => config.loan \in {Params[chain.on].loan, NativeToken}
  /\ chain.about = "vault" => config.asset = VaultAsset[chain.on]

(* ... and the tokens of its pool.                                         *)
OfPool(config, provider) ==
  /\ provider \in DOMAIN Pool
  /\ config.a = Pool[provider].a /\ config.b = Pool[provider].b
  /\ config.lp = Pool[provider].lp

PoolNow == chain.provider[chain.on].coll

(* A config the SDK has read is genuine, and its pool the chain's until a  *)
(* registration moves; so it still is when it is handed back.              *)
Read(config) ==
  Genuine(config) /\ (chain.about = "smart" /\ ~req.stale => OfPool(config, PoolNow))

Keepsake == held # Nothing => Read(held)
Returned == req.phase = "called" /\ req.ask.given = "held" => Read(req.config)

(* Sound, it is genuine from its check to its use.  Its pool is the one    *)
(* resolved, unless a move came between them.                              *)
Differs == chain.about = "smart" /\ (req.mid \/ (req.ask.trusted /\ req.stale))

InHand == req.phase \in Configured /\ chain.about \in OnConfigs
            /\ req.ask.op # "flashLoan"

Chosen ==
  InHand /\ Sound =>
    /\ req.ask.op # "migrateToFixedTerm" => Genuine(req.config)
    /\ chain.about = "smart" /\ ~Differs =>
         OfPool(req.config,
                IF req.phase = "configured" THEN PoolNow ELSE req.config.collProvider)

(* Once resolved, each native flag says what its provider is, whatever the *)
(* config said before; and the provider is an address.                     *)
IsNative(provider) == provider = NativeProvider(Net)

LoanFlag(config) == config.loanIsNative = IsNative(config.loanProvider)
CollFlag(config) == config.collIsNative = IsNative(config.collProvider)
PairFlags(config) ==
  LET isSmart == config.collProvider \in DOMAIN Pool IN
  /\ config.aIsNative = (isSmart /\ Pool[config.collProvider].a = NativeToken)
  /\ config.bIsNative = (isSmart /\ Pool[config.collProvider].b = NativeToken)

Flagged ==
  InHand /\ req.phase # "configured" =>
    /\ chain.about # "vault" /\ req.ask.op \notin Unresolved =>
         /\ LoanFlag(req.config)
         /\ {req.config.loanProvider, req.config.collProvider}
              \cap {"noView", NativeToken} = {}
    /\ chain.about = "market" /\ req.ask.op \notin Unresolved => CollFlag(req.config)
    /\ chain.about = "smart" => req.config.collProvider # "zero"
    /\ chain.about = "smart" /\ req.phase = "resolved" => PairFlags(req.config)
    /\ chain.about = "vault" =>
         /\ req.config.isNative = IsNative(req.config.provider)
         /\ req.config.provider \notin {"noView", NativeToken}

(* What a broker and a liquidator were asked, and the gates they passed.   *)
Asked ==
  /\ chain.about = "broker" /\ req.phase \in {"configured", "resolved"} =>
       req.ask.broker \in DOMAIN Claims
  /\ chain.about = "liquidation" /\ req.phase = "resolved" =>
       req.ask.token = Params[chain.on].loan
  /\ chain.about = "liquidation" /\ ~req.late
       /\ req.phase \in {"configured", "resolved", "built"} =>
       req.ask.unlisted \/ GatesOpen(chain.lists)

(* What was emitted: the steps match what the contract that is called      *)
(* pulls and takes.                                                        *)
Excused == Differs \/ WrapsNothing

Matched ==
  req.phase \in Steps /\ chain.about # "broker" /\ Sound =>
    /\ req.route.approves \subseteq
         Pulled(Net, req.ask.op, Subject, req.route.to) \X {req.route.to} \/ Excused
    /\ Takes(Net, req.ask.op, Subject, req.route) \/ Excused \/ req.ask.routed

(* What the types leave open: a call goes to an address.                   *)
Placed == req.phase \in Steps => req.route.to \notin {"zero", "noView", NativeToken}

InBounds ==
  /\ moves \in 0..MaxMoves /\ DOMAIN sdk.clients \subseteq ChainIds
  /\ req.phase \in {"idle", "called", "configured", "pairing", "resolved",
                    "refused", "unreachable"} \cup Steps
  /\ {req.mid, req.late, req.lost, req.stale} \subseteq BOOLEAN

Fitted ==
  /\ Keepsake /\ Returned /\ Chosen /\ Flagged /\ Asked /\ Placed
  /\ ValueIsTaken /\ OwnConfigAccepted

FInv == RInv /\ InBounds /\ Fitted

(* The native providers wrap one coin, so they are registered for the      *)
(* markets and the vaults of that coin.  The builders ask again: repay and *)
(* the vault's look at the token too (builders/market.ts, vault.ts).       *)
NativeIsForItsCoin ==
  \A w \in World :
    /\ \A k \in Markets : w.provider[k].loan = NativeProvider(w.net)
                            => Params[k].loan = "wrapped"
    /\ \A k \in Vaults : w.vault[k] = NativeProvider(w.net)
                           => VaultAsset[k] = "wrapped"

(* What was found registered is for its coin.                              *)
Coins ==
  InHand /\ req.phase # "configured" =>
    /\ /\ chain.about # "vault" /\ req.ask.op \notin Unresolved
       /\ IsNative(req.config.loanProvider)
       => Params[req.config.market].loan = "wrapped"
    /\ chain.about = "vault" /\ IsNative(req.config.provider)
       => VaultAsset[chain.on] = "wrapped"

Matching == Coins /\ Matched /\ LandsUnlessMoved

MInv == FInv /\ Matching
-----------------------------------------------------------------------------
(* The steps of each builder against the contract they call: if the config *)
(* speaks of the market and its flags are right, what is approved is what  *)
(* is pulled, and what is paid is taken.                                   *)
Fits(op, on, route) ==
  /\ route.approves \subseteq Pulled(Net, op, on, route.to) \X {route.to}
  /\ Takes(Net, op, on, route)

(* Two kinds of route, as the contracts see them.                          *)
LEMMA PullingFits ==
  ASSUME NEW op, NEW on, NEW to, NEW tokens, NEW config,
         Pulled(Net, op, on, to) = tokens, ~TakesValue(Net, op, to),
         op \notin VaultOps, op \in SmartOps \ {"repaySmart"} => to \in DOMAIN Pool
  PROVE  Fits(op, on, For(config, Pulling(to, tokens)))
<1> DEFINE e == For(config, Pulling(to, tokens))
<1>1. e.to = to /\ e.approves = tokens \X {to} /\ e.value = FALSE
  BY DEF For, Pulling, Route
<1>2. TakesValue(Net, op, to) = FALSE
  BY DEF TakesValue
<1> HIDE DEF e
<1>3. op # "vaultMint"
  BY DEF VaultOps
<1>4. Fits(op, on, e)
  BY <1>1, <1>2, <1>3 DEF Fits, Takes
<1> QED
  BY <1>4 DEF e

LEMMA PayingFits ==
  ASSUME NEW op \in {"supply", "repay", "repaySmart"}, NEW on, NEW to, NEW config,
         IsNative(to)
  PROVE  Fits(op, on, For(config, Paying(to)))
<1> DEFINE e == For(config, Paying(to))
<1>1. e.to = to /\ e.approves = {} \X {to} /\ e.value = TRUE
  BY DEF For, Paying, Route
<1>2. TakesValue(Net, op, to) = TRUE
  BY DEF TakesValue, IsNative
<1>3. Pulled(Net, op, on, to) = {}
  BY DEF Pulled, IsNative, MarketOps
<1> HIDE DEF e
<1>4. Fits(op, on, e)
  BY <1>1, <1>2, <1>3 DEF Fits, Takes, VaultOps, SmartOps
<1> QED
  BY <1>4 DEF e

(* Nobody is a native provider but the two of them.                        *)
LEMMA NotNative ==
  ASSUME Net \in Networks
  PROVE  \A k \in {"moolah", "zero"} \cup Vaults \cup DOMAIN Pool : ~IsNative(k)
BY DEF IsNative, NativeProvider, Networks, Vaults, VaultAsset, Pool

LEMMA MarketFits ==
  ASSUME Net \in Networks, NEW op \in MarketOps, NEW config, NEW r,
         r.op = op, r.config = config,
         config.market \in Markets,
         op # "migrateToFixedTerm" =>
           /\ config.loan = Params[config.market].loan
           /\ config.coll = Params[config.market].coll,
         op \notin Unresolved =>
           /\ LoanFlag(config) /\ CollFlag(config)
           /\ IsNative(config.loanProvider) => Params[config.market].loan = "wrapped"
  PROVE  \/ Fits(op, config.market, Emitted(Net, r))
         \/ /\ op = "repay" /\ Wbnb(Net) = "zero"
            /\ Emitted(Net, r).to = NativeProvider(Net)
<1> DEFINE on == config.market
<1>0. Emitted(Net, r) = EmittedOnMarket(Net, r)
  BY DEF Emitted, MarketOps, SmartOps, VaultOps, BrokerOps
<1> USE NotNative
<1>1. CASE op = "supply"
  <2>1. Emitted(Net, r) = For(config, SupplySteps(config))
    BY <1>0, <1>1 DEF EmittedOnMarket
  <2>2. config.collIsNative <=> IsNative(config.collProvider)
    BY <1>1 DEF CollFlag, Unresolved
  <2>3. CASE IsNative(config.collProvider)
    BY <1>1, <2>1, <2>2, <2>3, PayingFits DEF SupplySteps
  <2>4. CASE ~IsNative(config.collProvider)
    <3> DEFINE to == OrMoolah(config.collProvider)
    <3>1. ~IsNative(to)
      BY <2>4 DEF OrMoolah
    <3>2. Pulled(Net, op, on, to) = {config.coll} /\ ~TakesValue(Net, op, to)
      BY <1>1, <3>1 DEF Pulled, TakesValue, IsNative
    <3> QED
      BY <1>1, <2>1, <2>2, <2>4, <3>2, PullingFits DEF SupplySteps, VaultOps, SmartOps
  <2> QED
    BY <2>3, <2>4
<1>2. CASE op = "repay"
  <2>1. Emitted(Net, r) = For(config, RepaySteps(Net, config))
    BY <1>0, <1>2 DEF EmittedOnMarket
  <2>2. config.loanIsNative <=> IsNative(config.loanProvider)
    BY <1>2 DEF LoanFlag, Unresolved
  <2>3. CASE IsNative(config.loanProvider) /\ Wbnb(Net) # "zero"
    <3>1. config.loan = Wbnb(Net)
      BY <1>2, <2>3 DEF Unresolved, Wbnb, Networks
    <3> QED
      BY <1>2, <2>1, <2>2, <2>3, <3>1, PayingFits DEF RepaySteps
  <2>4. CASE IsNative(config.loanProvider) /\ Wbnb(Net) = "zero"
    <3>1. Emitted(Net, r) = For(config, Pulling(OrMoolah(config.loanProvider), {config.loan}))
      BY <2>1, <2>4 DEF RepaySteps
    <3>2. OrMoolah(config.loanProvider) = NativeProvider(Net)
      BY <2>4 DEF OrMoolah, IsNative
    <3>3. Emitted(Net, r).to = NativeProvider(Net)
      BY <3>1, <3>2 DEF For, Pulling, Route
    <3> QED
      BY <1>2, <2>4, <3>3
  <2>5. CASE ~IsNative(config.loanProvider)
    <3> DEFINE to == OrMoolah(config.loanProvider)
    <3>1. ~IsNative(to)
      BY <2>5 DEF OrMoolah
    <3>2. Pulled(Net, op, on, to) = {config.loan} /\ ~TakesValue(Net, op, to)
      BY <1>2, <3>1 DEF Pulled, TakesValue, IsNative
    <3> QED
      BY <1>2, <2>1, <2>2, <2>5, <3>2, PullingFits DEF RepaySteps, VaultOps, SmartOps
  <2> QED
    BY <2>3, <2>4, <2>5
<1>3. CASE op = "moolahSupply"
  <2>1. Emitted(Net, r) = For(config, Pulling("moolah", {Params[on].loan}))
    BY <1>0, <1>3 DEF EmittedOnMarket, MoolahSupplySteps
  <2>2. Pulled(Net, op, on, "moolah") = {Params[on].loan} /\ ~TakesValue(Net, op, "moolah")
    BY <1>3 DEF Pulled, TakesValue
  <2> QED
    BY <1>3, <2>1, <2>2, PullingFits DEF VaultOps, SmartOps
<1>4. CASE op \in {"borrow", "withdraw", "moolahWithdraw", "migrateToFixedTerm"}
  <2>1. PICK to : Emitted(Net, r) = For(config, Pulling(to, {}))
    BY <1>0, <1>4 DEF EmittedOnMarket, BorrowSteps, WithdrawSteps, MoolahCallSteps,
                      Calling, Pulling
  <2>2. Pulled(Net, op, on, to) = {} /\ ~TakesValue(Net, op, to)
    BY <1>4 DEF Pulled, TakesValue
  <2> QED
    BY <1>4, <2>1, <2>2, PullingFits DEF VaultOps, SmartOps
<1> QED
  BY <1>1, <1>2, <1>3, <1>4 DEF MarketOps

(* A Smart config, whose pool is the one of the provider it names.         *)
LEMMA SmartFits ==
  ASSUME Net \in Networks, NEW op \in SmartOps, NEW config, NEW r,
         r.op = op, r.config = config,
         config.loan \in {Params[config.market].loan, NativeToken},
         OfPool(config, config.collProvider),
         LoanFlag(config), PairFlags(config),
         AllowanceReadable(Emitted(Net, r))
  PROVE  Fits(op, config.market, Emitted(Net, r))
<1> DEFINE on == config.market
           pool == config.collProvider
<1>0. Emitted(Net, r) = EmittedOnSmart(r)
  BY DEF Emitted, MarketOps, SmartOps, VaultOps, BrokerOps
<1>1. pool \in DOMAIN Pool /\ ~IsNative(pool)
  BY NotNative DEF OfPool
<1>2. CASE op = "repaySmart"
  <2>1. Emitted(Net, r) = For(config, SmartRepaySteps(config))
    BY <1>0, <1>2 DEF EmittedOnSmart
  <2>2. config.loanIsNative <=> IsNative(config.loanProvider)
    BY DEF LoanFlag
  <2>3. CASE IsNative(config.loanProvider)
    BY <1>2, <2>1, <2>2, <2>3, PayingFits DEF SmartRepaySteps
  <2>4. CASE ~IsNative(config.loanProvider)
    <3> DEFINE to == OrMoolah(config.loanProvider)
    <3>1. Emitted(Net, r) = For(config, Pulling(to, {config.loan}))
      BY <2>1, <2>2, <2>4 DEF SmartRepaySteps
    <3>2. config.loan # NativeToken
      <4>1. Emitted(Net, r).approves = {config.loan} \X {to}
        BY <3>1 DEF For, Pulling, Route
      <4>2. <<config.loan, to>> \in Emitted(Net, r).approves
        BY <4>1
      <4> QED
        BY <4>2 DEF AllowanceReadable
    <3>3. ~IsNative(to)
      BY <2>4, NotNative DEF OrMoolah
    <3>4. Pulled(Net, op, on, to) = {config.loan} /\ ~TakesValue(Net, op, to)
      BY <1>2, <3>2, <3>3 DEF Pulled, TakesValue, IsNative
    <3> QED
      BY <1>2, <3>1, <3>4, PullingFits DEF VaultOps, SmartOps
  <2> QED
    BY <2>3, <2>4
<1>3. CASE op = "supplySmart"
  <2> DEFINE e == Emitted(Net, r)
             tokens == {t \in {config.a, config.b} :
                          ~ \/ t = config.a /\ config.aIsNative
                            \/ t = config.b /\ config.bIsNative}
  <2>1. e = For(config, SmartSupplyCollateralSteps(config))
    BY <1>0, <1>3 DEF EmittedOnSmart
  <2>2. /\ e.to = pool /\ e.approves = tokens \X {pool}
        /\ e.value = (config.aIsNative \/ config.bIsNative)
    BY <2>1 DEF For, SmartSupplyCollateralSteps, Route
  <2>3. /\ config.aIsNative <=> config.a = NativeToken
        /\ config.bIsNative <=> config.b = NativeToken
    BY <1>1 DEF OfPool, PairFlags
  <2>4. tokens = {Pool[pool].a, Pool[pool].b} \ {NativeToken}
    BY <1>1, <2>3 DEF OfPool
  <2>5. Pulled(Net, op, on, pool) = {Pool[pool].a, Pool[pool].b} \ {NativeToken}
    BY <1>1, <1>3 DEF Pulled, IsNative
  <2>6. TakesValue(Net, op, pool) <=> NativeToken \in {config.a, config.b}
    BY <1>1, <1>3 DEF TakesValue, IsNative, OfPool
  <2>7. e.value = TakesValue(Net, op, pool)
    BY <2>2, <2>3, <2>6 DEF TakesValue
  <2> HIDE DEF e, tokens
  <2>8. Fits(op, on, e)
    BY <1>1, <1>3, <2>2, <2>4, <2>5, <2>7 DEF Fits, Takes, SmartOps, VaultOps
  <2> QED
    BY <2>8 DEF e
<1>4. CASE op = "supplyDexLp"
  <2>1. Emitted(Net, r) = For(config, Pulling(pool, {config.lp}))
    BY <1>0, <1>4 DEF EmittedOnSmart, SmartSupplyDexLpSteps
  <2>2. Pulled(Net, op, on, pool) = {config.lp} /\ ~TakesValue(Net, op, pool)
    BY <1>1, <1>4 DEF Pulled, TakesValue, IsNative, OfPool
  <2> QED
    BY <1>1, <1>4, <2>1, <2>2, PullingFits DEF VaultOps, SmartOps
<1>5. CASE op \in {"withdrawSmart", "withdrawSmartOneCoin", "redeemSmart"}
  <2>1. Emitted(Net, r) = For(config, Pulling(pool, {}))
    BY <1>0, <1>5 DEF EmittedOnSmart, SmartWithdrawSteps, SmartUnwindSteps, Calling,
                      Pulling
  <2>2. Pulled(Net, op, on, pool) = {} /\ ~TakesValue(Net, op, pool)
    BY <1>1, <1>5 DEF Pulled, TakesValue, IsNative
  <2> QED
    BY <1>1, <1>5, <2>1, <2>2, PullingFits DEF VaultOps, SmartOps
<1> QED
  BY <1>2, <1>3, <1>4, <1>5 DEF SmartOps

(* A vault's steps; where the address book has no wrapped coin, its native *)
(* provider is not recognised, and a mint goes to the vault itself unless  *)
(* the caller routed it.                                                   *)
LEMMA VaultFits ==
  ASSUME Net \in Networks, NEW op \in VaultOps, NEW config, NEW on \in Vaults, NEW r,
         r.op = op, r.config = config, r.on = on,
         config.asset = VaultAsset[on],
         config.isNative = IsNative(config.provider),
         IsNative(config.provider) => VaultAsset[on] = "wrapped",
         NEW routed, op = "vaultMint" => ~VaultMintRefuses(config, routed)
  PROVE  LET e == Emitted(Net, r) IN
         \/ Wbnb(Net) = "zero" /\ e.to = NativeProvider(Net)
         \/ /\ e.approves \subseteq Pulled(Net, op, on, e.to) \X {e.to}
            /\ Takes(Net, op, on, e) \/ routed
<1> DEFINE e == Emitted(Net, r)
           to == OrVault(config, on)
           native == IsNative(config.provider)
<1>0. e = EmittedOnVault(Net, r)
  BY DEF Emitted, MarketOps, SmartOps, VaultOps, BrokerOps
<1>1. config.isNative <=> native
  OBVIOUS
<1>2. IsNative(to) <=> native
  BY NotNative DEF OrVault
<1>3. IsNativeBNB(Net, config) <=> native /\ Wbnb(Net) # "zero"
  BY <1>1 DEF IsNativeBNB, Wbnb, Networks
<1>4. native => config.provider # "zero" /\ config.provider = NativeProvider(Net)
                /\ to = config.provider
  BY NotNative DEF IsNative, OrVault
<1>5. CASE op = "depositVault"
  <2>1. e = VaultDepositSteps(Net, config, on)
    BY <1>0, <1>5 DEF EmittedOnVault
  <2>2. CASE native /\ Wbnb(Net) # "zero"
    <3>1. e = Paying(config.provider)
      BY <1>3, <1>4, <2>1, <2>2 DEF VaultDepositSteps
    <3>2. /\ e.to = NativeProvider(Net) /\ e.approves = {} \X {e.to}
          /\ e.value = TRUE /\ e.native = TRUE
      BY <1>4, <2>2, <3>1 DEF Paying, Route
    <3>3. Pulled(Net, op, on, e.to) = {} /\ TakesValue(Net, op, e.to) = TRUE
      BY <1>5, <3>2 DEF Pulled, TakesValue
    <3>4. Takes(Net, op, on, e)
      <4> HIDE DEF e
      <4> QED
        BY <1>5, <3>2, <3>3 DEF Takes, SmartOps
    <3> QED
      BY <3>2, <3>3, <3>4
  <2>3. CASE ~(native /\ Wbnb(Net) # "zero")
    <3>1. e = Pulling(to, {config.asset})
      BY <1>3, <2>1, <2>3 DEF VaultDepositSteps
    <3>2. /\ e.to = to /\ e.approves = {config.asset} \X {e.to}
          /\ e.value = FALSE /\ e.native = FALSE
      BY <3>1 DEF Pulling, Route
    <3>3. CASE native
      BY <1>4, <2>3, <3>2, <3>3
    <3>4. CASE ~native
      <4>1. ~IsNative(e.to)
        BY <1>2, <3>2, <3>4
      <4>2. Pulled(Net, op, on, e.to) = {config.asset} /\ TakesValue(Net, op, e.to) = FALSE
        BY <1>5, <4>1 DEF Pulled, TakesValue, IsNative
      <4>3. (e.to = NativeProvider(Net)) = FALSE
        BY <4>1 DEF IsNative
      <4>4. Takes(Net, op, on, e)
        <5> HIDE DEF e
        <5> QED
          BY <1>5, <3>2, <4>2, <4>3 DEF Takes, SmartOps
      <4> QED
        BY <3>2, <4>2, <4>4
    <3> QED
      BY <3>3, <3>4
  <2> QED
    BY <2>2, <2>3
<1>6. CASE op = "withdrawVault"
  <2>1. e = VaultWithdrawSteps(Net, config, on)
    BY <1>0, <1>6 DEF EmittedOnVault
  <2>2. /\ e.to = to /\ e.approves = {} \X {e.to} /\ e.value = FALSE
        /\ e.native = (IsNativeBNB(Net, config) /\ config.provider # "zero")
    BY <2>1 DEF VaultWithdrawSteps, Calling, Route
  <2>3. Pulled(Net, op, on, e.to) = {} /\ TakesValue(Net, op, e.to) = FALSE
    BY <1>6 DEF Pulled, TakesValue
  <2>4. CASE native /\ Wbnb(Net) = "zero"
    BY <1>4, <2>2, <2>4
  <2>5. CASE ~(native /\ Wbnb(Net) = "zero")
    <3>1. e.native <=> native
      BY <1>3, <1>4, <2>2, <2>5
    <3>2. e.native = (e.to = NativeProvider(Net))
      BY <1>2, <2>2, <3>1 DEF IsNative
    <3>3. Takes(Net, op, on, e)
      <4> HIDE DEF e
      <4> QED
        BY <1>6, <2>2, <2>3, <3>2 DEF Takes, SmartOps
    <3> QED
      BY <2>2, <2>3, <3>3
  <2> QED
    BY <2>4, <2>5
<1>7. CASE op = "vaultMint"
  <2>1. e = Pulling(to, {config.asset})
    BY <1>0, <1>7 DEF EmittedOnVault, VaultMintSteps
  <2>2. /\ e.to = to /\ e.approves = {config.asset} \X {e.to}
        /\ e.value = FALSE /\ e.native = FALSE
    BY <2>1 DEF Pulling, Route
  <2>3. ~native /\ (config.provider = "zero" \/ routed)
    BY <1>1, <1>4, <1>7 DEF VaultMintRefuses
  <2>4. Pulled(Net, op, on, e.to) = {config.asset} /\ TakesValue(Net, op, e.to) = FALSE
    BY <1>7 DEF Pulled, TakesValue
  <2>5. (e.to = NativeProvider(Net)) = FALSE
    BY <1>2, <2>2, <2>3 DEF IsNative
  <2>6. config.provider = "zero" => e.to = on
    BY <2>2 DEF OrVault
  <2>7. Takes(Net, op, on, e) \/ routed
    <3> HIDE DEF e
    <3> QED
      BY <1>7, <2>2, <2>3, <2>4, <2>5, <2>6 DEF Takes, SmartOps
  <2> QED
    BY <2>2, <2>4, <2>7
<1> QED
  BY <1>5, <1>6, <1>7 DEF VaultOps
-----------------------------------------------------------------------------
(* The bounds, and the end of a build, disturb nothing.                    *)

LEMMA InitFInv == Init => FInv
<1> SUFFICES ASSUME Init PROVE FInv
  OBVIOUS
<1>1. req = Idle /\ held = Nothing /\ moves = 0
  BY DEF Init
<1>2. req.phase = "idle"
  BY <1>1 DEF Idle
<1>3. PICK c \in SdkConfig : sdk = Construct(c)
  BY DEF Init
<1>4. InBounds
  <2>1. sdk.clients = [i \in c.own |-> [chainId |-> i, own |-> TRUE]]
    BY <1>3 DEF Construct
  <2>2. DOMAIN sdk.clients \subseteq ChainIds
    BY <2>1, FacadeAssumption
  <2>3. {req.mid, req.late, req.lost, req.stale} \subseteq BOOLEAN
    BY <1>1 DEF Idle
  <2>4. moves \in 0..MaxMoves
    BY <1>1, FacadeAssumption
  <2> QED
    BY <1>2, <2>2, <2>3, <2>4 DEF InBounds
<1>5. Fitted
  BY <1>1, <1>2 DEF Fitted, Keepsake, Returned, Chosen, Flagged, InHand, Configured, Asked,
     Placed, ValueIsTaken, OwnConfigAccepted, Steps
<1> QED
  BY <1>4, <1>5, InitRInv DEF FInv

(* The clock of moves, the cache and the phases stay within their types.   *)
LEMMA NextInBounds ==
  ASSUME FInv, [Next]_vars
  PROVE  InBounds'
<1> USE DEF FInv, RInv, IInv, Shaped, Fields
<1>1. DOMAIN sdk.clients \subseteq ChainIds /\ "clients" \in DOMAIN sdk
  BY DEF InBounds, Clients
<1>2. \A c \in ChainIds : sdk' = Cached(c) => DOMAIN sdk'.clients \subseteq ChainIds
  BY <1>1 DEF Cached
<1>3. CASE ReadElsewhere
  BY <1>2, <1>3 DEF ReadElsewhere, InBounds
<1>4. CASE Move
  <2>1. moves \in Nat /\ moves < MaxMoves /\ moves' = moves + 1 /\ MaxMoves \in Nat
    BY <1>4, FacadeAssumption DEF Move, InBounds
  <2>2. req'.phase = req.phase /\ req'.lost = req.lost
        /\ {req'.mid, req'.late, req'.stale} \subseteq BOOLEAN
    BY <1>4 DEF Move
  <2> QED
    BY <1>4, <2>1, <2>2 DEF Move, InBounds
<1>5. CASE ReadConfig
  <2>1. Here \in ChainIds
    <3>1. chain.net \in Networks
      BY FacadeAssumption
    <3>2. \E c \in DOMAIN NetworkOf : NetworkOf[c] = Net
      BY <3>1 DEF NetworkOf, Networks, Net
    <3> QED
      BY <3>2 DEF Here, ChainIds
  <2> QED
    BY <1>2, <1>5, <2>1 DEF ReadConfig, InBounds
<1>6. ASSUME NEW r \in Request, NEW c \in ChainIds, Call(r, c)
      PROVE  InBounds'
  <2>1. DOMAIN sdk'.clients \subseteq ChainIds
    BY <1>1, <1>2, <1>6 DEF Call
  <2>2. /\ req'.phase \in {"called", "refused"} /\ req'.lost = req.lost
        /\ req'.mid = req.mid /\ req'.late = req.late /\ req'.stale = req.stale
    BY <1>6 DEF Call
  <2> QED
    BY <1>6, <2>1, <2>2 DEF Call, InBounds
<1>7. CASE Proceeds
  <2>1. moves' = moves /\ sdk' = sdk
    BY <1>7 DEF Proceeds, ResolveConfig, Resolve, ResolvePair, PairFails,
       VaultProviderFails, NodeFails, AskBroker, AskMoolah, AskLists, AskLoanToken,
       FlashLoan, Build, Land
  <2>2. /\ req'.phase \in {"configured", "pairing", "resolved", "refused",
                           "unreachable", "built", "landed", "bounced"}
        /\ req'.mid = req.mid /\ req'.late = req.late /\ req'.stale = req.stale
        /\ req'.lost = req.lost \/ req'.lost \in BOOLEAN
    <3>1. CASE ResolveConfig \/ ResolvePair \/ FlashLoan
      BY <3>1 DEF ResolveConfig, ResolvePair, FlashLoan, Refuse
    <3>0. CASE Resolve
      BY <3>0 DEF Resolve, Refuse
    <3>2. CASE PairFails
      <4>1. PICK e \in TransportErrors \cup ContractErrors : req' = [req EXCEPT
              !.phase = IF IsContractLevelFailure(e) THEN "resolved" ELSE "unreachable",
              !.config = [@ EXCEPT !.aIsNative = FALSE, !.bIsNative = FALSE],
              !.lost = e \in TransportErrors]
        BY <3>2 DEF PairFails
      <4> QED
        BY <4>1
    <3>5. CASE VaultProviderFails
      BY <3>5 DEF VaultProviderFails
    <3>6. CASE NodeFails
      BY <3>6 DEF NodeFails
    <3>3. CASE AskBroker \/ AskMoolah \/ AskLists \/ AskLoanToken
      BY <3>3 DEF AskBroker, AskMoolah, AskLists, AskLoanToken, Refuse
    <3>4. CASE Build \/ Land
      BY <3>4 DEF Build, Land, Refuse
    <3> QED
      BY <1>7, <3>0, <3>1, <3>2, <3>3, <3>4, <3>5, <3>6 DEF Proceeds
  <2> QED
    BY <2>1, <2>2 DEF InBounds, Steps
<1>8. CASE UNCHANGED vars
  BY <1>8 DEF vars, InBounds
<1> QED
  BY <1>3, <1>4, <1>5, <1>6, <1>7, <1>8 DEF Next, Proceeds

(* A build that ends without steps leaves only why it was refused.         *)
LEMMA EndedFitted ==
  ASSUME Fitted, chain' = chain, held' = held, req'.stale = req.stale,
         req'.phase \in {"refused", "unreachable"},
         req'.phase = "unreachable" \/ req'.why # "config"
  PROVE  Fitted'
<1>1. Keepsake'
  BY DEF Fitted, Keepsake, Read, Genuine, OfPool, PoolNow
<1> QED
  BY <1>1 DEF Fitted, Returned, Chosen, Flagged, InHand, Configured, Asked,
     Placed, ValueIsTaken, OwnConfigAccepted, Steps

(* A registration that moves makes what was read stale, and the pool of a  *)
(* config that was checked another one: the marks say so.                  *)
LEMMA MoveFitted ==
  ASSUME FInv, Move
  PROVE  Fitted'
<1> USE DEF FInv, RInv, IInv, Shaped, Fields, Fitted
<1>1. PICK w \in World : /\ w.net = Net /\ w.about = chain.about /\ w.on = chain.on
                         /\ chain' = w
  BY DEF Move
<1>2. /\ req'.phase = req.phase /\ req'.config = req.config /\ req'.ask = req.ask
      /\ req'.route = req.route /\ held' = held
      /\ req'.stale = (req.stale \/ held # Nothing \/ req.phase = "called")
      /\ req'.mid = (req.mid \/ req.phase = "configured")
      /\ req'.late = (req.late \/ Looked)
      /\ req.phase \in {"idle", "called", "configured", "pairing", "resolved", "built"}
  BY DEF Move
<1>3. Net' = Net /\ chain'.about = chain.about /\ chain'.on = chain.on
  BY <1>1 DEF Net
<1>4. \A config : Genuine(config) => Genuine(config)'
  BY <1>3 DEF Genuine
<1>5. Keepsake' /\ Returned'
  BY <1>2, <1>3, <1>4 DEF Keepsake, Returned, Read
<1>6. Chosen'
  BY <1>2, <1>3, <1>4 DEF Chosen, InHand, Sound, Differs, OfPool
<1>7. Flagged'
  BY <1>2, <1>3 DEF Flagged, InHand, LoanFlag, CollFlag, PairFlags, IsNative
<1>8. Asked'
  BY <1>2, <1>3 DEF Asked, Looked
<1>9. Placed' /\ ValueIsTaken' /\ OwnConfigAccepted'
  BY <1>2, <1>3 DEF Placed, ValueIsTaken, OwnConfigAccepted
<1> QED
  BY <1>5, <1>6, <1>7, <1>8, <1>9

(* A request takes over the config that was read, and lets go of it.       *)
LEMMA CallFitted ==
  ASSUME FInv, NEW r \in Request, NEW c \in ChainIds, Call(r, c)
  PROVE  Fitted'
<1> USE DEF FInv, RInv, IInv, Shaped, Fields, Fitted
<1>1. chain' = chain /\ held' = Nothing /\ (r.given = "held" <=> held # Nothing)
  BY DEF Call
<1>2. /\ req'.phase \in {"called", "refused"} /\ req'.ask = r
      /\ req'.config = Supplied(r) /\ req'.stale = req.stale
      /\ req'.why \in {"none", "chain"}
  BY DEF Call
<1>3. Returned'
  BY <1>1, <1>2 DEF Returned, Keepsake, Read, Genuine, OfPool, PoolNow, Supplied
<1> QED
  BY <1>1, <1>2, <1>3 DEF Keepsake, Chosen, Flagged, InHand, Configured, Asked,
     Placed, ValueIsTaken, OwnConfigAccepted, Steps

(* What the SDK reads is genuine.                                          *)
LEMMA DerivedRead ==
  ASSUME chain \in World, Derives
  PROVE  Genuine(Derived) /\ (chain.about = "smart" => OfPool(Derived, PoolNow))
<1> USE DEF Derives, Derived, Genuine
<1>1. CASE chain.about = "market"
  BY <1>1 DEF GetWriteConfig
<1>2. CASE chain.about = "smart"
  BY <1>2 DEF GetSmartMarketExtraInfo, OfPool, PoolNow, HasPair
<1>3. CASE chain.about = "vault"
  BY <1>3 DEF GetVaultInfo
<1> QED
  BY <1>1, <1>2, <1>3

LEMMA ReadConfigFitted ==
  ASSUME FInv, ReadConfig
  PROVE  Fitted'
<1> USE DEF FInv, RInv, Fitted
<1>1. chain' = chain /\ held' = Derived /\ req' = req /\ Derives
  BY DEF ReadConfig
<1>2. Keepsake'
  BY <1>1, DerivedRead DEF Keepsake, Read, Genuine, OfPool, PoolNow
<1>3. Returned' /\ Chosen' /\ Flagged' /\ Asked'
  BY <1>1 DEF Returned, Read, Genuine, OfPool, PoolNow, Chosen, Flagged, InHand, Sound, Differs,
     LoanFlag, CollFlag, PairFlags, IsNative, Net, Asked
<1>4. Placed' /\ ValueIsTaken' /\ OwnConfigAccepted'
  BY <1>1 DEF Placed, ValueIsTaken, OwnConfigAccepted, Net
<1> QED
  BY <1>2, <1>3, <1>4

(* What was checked is genuine, and a config the SDK read passes the check *)
(* unless it is a Smart one that is stale or names the sentinel.           *)
LEMMA CheckedIsGenuine ==
  ASSUME chain.about \in {"market", "smart", "vault"}, NEW config,
         config.kind = chain.about, Checked(config), ~req.ask.trusted
  PROVE  /\ req.ask.op # "migrateToFixedTerm" => Genuine(config)
         /\ chain.about = "smart" /\ req.ask.op # "migrateToFixedTerm" =>
              OfPool(config, PoolNow)
<1> USE DEF Checked, Genuine
<1>1. CASE chain.about = "market"
  BY <1>1 DEF AssertMarketConfigMatchesMarket
<1>2. CASE chain.about = "smart"
  BY <1>2 DEF AssertMarketConfigMatchesMarket, AssertSmartConfigTokens, OfPool, PoolNow
<1>3. CASE chain.about = "vault"
  BY <1>3 DEF AssertVaultConfigAsset
<1> QED
  BY <1>1, <1>2, <1>3

LEMMA ReadIsChecked ==
  ASSUME chain \in World, chain.about \in {"market", "smart", "vault"}, NEW config,
         config.kind = chain.about, Read(config), ~Checked(config),
         req.ask.op = "migrateToFixedTerm" => chain.about = "market"
  PROVE  chain.about = "smart" /\ (req.stale \/ config.loan = NativeToken)
<1> USE DEF Checked, Read, Genuine
<1>1. CASE chain.about = "market"
  BY <1>1 DEF AssertMarketConfigMatchesMarket
<1>2. CASE chain.about = "smart"
  <2>1. SUFFICES ASSUME ~req.stale, config.loan # NativeToken PROVE FALSE
    BY <1>2
  <2>2. PoolNow \in DOMAIN Pool /\ PoolNow # "zero"
    BY <1>2, <2>1 DEF OfPool, Pool
  <2> QED
    BY <1>2, <2>1, <2>2 DEF AssertMarketConfigMatchesMarket, AssertSmartConfigTokens,
       OfPool, PoolNow
<1>3. CASE chain.about = "vault"
  BY <1>3 DEF AssertVaultConfigAsset
<1> QED
  BY <1>1, <1>2, <1>3

LEMMA ResolveConfigFitted ==
  ASSUME FInv, ResolveConfig
  PROVE  Fitted'
<1> USE DEF FInv, RInv, IInv, Shaped, Fields
<1>1. /\ chain' = chain /\ held' = held /\ req.phase = "called" /\ req.ask.op # "flashLoan"
      /\ chain.about \in {"market", "smart", "vault"}
      /\ req.ask \in Request /\ req.ask.about = chain.about
  BY DEF ResolveConfig
<1>2. /\ req'.ask = req.ask /\ req'.stale = req.stale /\ req'.mid = req.mid
      /\ req'.phase \in {"configured", "refused"}
  BY DEF ResolveConfig, Refuse
<1>3. req.ask.given # "none" => Typed(req.config)
  BY <1>1 DEF Handed
<1>4. CASE req'.phase = "refused" /\ req'.why # "config"
  BY <1>1, <1>2, <1>4, EndedFitted
<1>5. CASE req'.phase = "refused" /\ req'.why = "config"
  <2>1. req.ask.given # "none" /\ ~Checked(req.config) /\ req'.config = req.config
    BY <1>5 DEF ResolveConfig, Refuse
  <2>2. OwnConfigAccepted'
    <3>1. CASE req.ask.given = "held"
      <4>1. Read(req.config) /\ req.config.kind = chain.about
        BY <1>1, <1>3, <3>1 DEF Fitted, Returned, Typed
      <4>2. req.ask.op = "migrateToFixedTerm" => chain.about = "market"
        BY <1>1, RequestAssumption DEF OpsOf, SmartOps, VaultOps
      <4> QED
        BY <1>1, <1>2, <2>1, <4>1, <4>2, ReadIsChecked DEF OwnConfigAccepted
    <3>2. CASE req.ask.given # "held"
      BY <1>2, <3>2 DEF OwnConfigAccepted
    <3> QED
      BY <3>1, <3>2
  <2>3. Keepsake'
    BY <1>1, <1>2 DEF Fitted, Keepsake, Read, Genuine, OfPool, PoolNow
  <2> QED
    BY <1>5, <2>2, <2>3 DEF Fitted, Returned, Chosen, Flagged, InHand, Configured, Asked,
       Placed, ValueIsTaken, Steps
<1>6. CASE req'.phase = "configured"
  <2>1. \/ req.ask.given = "none" /\ Derives /\ req'.config = Derived
        \/ req.ask.given # "none" /\ Checked(req.config) /\ req'.config = req.config
    BY <1>6 DEF ResolveConfig, Refuse
  <2>2. chain.about = "smart" => req.ask.op # "migrateToFixedTerm"
    BY <1>1, RequestAssumption DEF OpsOf, SmartOps
  <2> DEFINE good(config) ==
        /\ req.ask.op # "migrateToFixedTerm" => Genuine(config)
        /\ chain.about = "smart" /\ ~Differs => OfPool(config, PoolNow)
  <2>3. Sound => good(req'.config)
    <3>1. CASE req.ask.given = "none"
      BY <2>1, <3>1, DerivedRead
    <3>2. CASE req.ask.given # "none" /\ ~req.ask.trusted
      BY <1>1, <1>3, <2>1, <2>2, <3>2, CheckedIsGenuine DEF Typed
    <3>3. CASE req.ask.given = "held" /\ req.ask.trusted
      BY <1>1, <2>1, <3>3 DEF Fitted, Returned, Read, Differs
    <3>4. CASE req.ask.given = "forged" /\ req.ask.trusted
      BY <3>4 DEF Sound
    <3> QED
      BY <1>1, <3>1, <3>2, <3>3, <3>4, RequestAssumption
  <2>4. Chosen'
    BY <1>1, <1>2, <1>6, <2>3 DEF Chosen, Sound, Genuine, Differs, OfPool, PoolNow
  <2>5. Keepsake'
    BY <1>1, <1>2 DEF Fitted, Keepsake, Read, Genuine, OfPool, PoolNow
  <2> QED
    BY <1>1, <1>6, <2>4, <2>5 DEF Fitted, Returned, Flagged, Asked, Placed, ValueIsTaken,
       OwnConfigAccepted, Steps
<1> QED
  BY <1>2, <1>4, <1>5, <1>6

(* Resolution gives each flag its provider's answer and leaves the tokens. *)
LEMMA ResolutionFlags ==
  ASSUME NEW config, Typed(config), chain.about \in {"market", "smart"}, chain \in World
  PROVE  LET after == WithResolvedProviders(Net, chain, config) IN
         /\ LoanFlag(after) /\ after.loan = config.loan /\ after.market = config.market
         /\ after.collProvider = chain.provider[config.market].coll
         /\ {after.loanProvider, after.collProvider} \cap {"noView", NativeToken} = {}
         /\ chain.about = "market" => CollFlag(after) /\ after.coll = config.coll
         /\ chain.about = "smart" =>
              after.a = config.a /\ after.b = config.b /\ after.lp = config.lp
<1> DEFINE after == WithResolvedProviders(Net, chain, config)
           p == chain.provider[config.market]
<1>1. {p.loan, p.coll} \cap {"noView", NativeToken} = {}
  BY FacadeAssumption DEF Typed
<1>2. CASE chain.about = "market"
  <2>1. /\ after.loanProvider = p.loan /\ after.loanIsNative = (p.loan = NativeProvider(Net))
        /\ after.collProvider = p.coll /\ after.collIsNative = (p.coll = NativeProvider(Net))
        /\ after.loan = config.loan /\ after.coll = config.coll
        /\ after.market = config.market
    BY <1>2 DEF WithResolvedProviders, Typed, ConfigFields, Providing
  <2> HIDE DEF after
  <2>2. LoanFlag(after) /\ CollFlag(after)
    BY <2>1 DEF LoanFlag, CollFlag, IsNative
  <2> QED
    BY <1>1, <1>2, <2>1, <2>2 DEF after
<1>3. CASE chain.about = "smart"
  <2>1. /\ after.loanProvider = p.loan /\ after.loanIsNative = (p.loan = NativeProvider(Net))
        /\ after.collProvider = p.coll /\ after.loan = config.loan
        /\ after.a = config.a /\ after.b = config.b /\ after.lp = config.lp
        /\ after.market = config.market
    BY <1>3 DEF WithResolvedProviders, Typed, ConfigFields, Providing
  <2> HIDE DEF after
  <2>2. LoanFlag(after)
    BY <2>1 DEF LoanFlag, IsNative
  <2> QED
    BY <1>1, <1>3, <2>1, <2>2 DEF after
<1> QED
  BY <1>2, <1>3

LEMMA VaultResolutionFlags ==
  ASSUME NEW config, Typed(config), chain.about = "vault", chain \in World
  PROVE  LET after == WithResolvedVaultProvider(Net, chain, chain.on, config) IN
         /\ after.isNative = IsNative(after.provider) /\ after.asset = config.asset
         /\ after.provider = IF chain.vault[chain.on] = "noView" THEN "zero"
                             ELSE chain.vault[chain.on]
         /\ after.provider \notin {"noView", NativeToken}
<1> DEFINE after == WithResolvedVaultProvider(Net, chain, chain.on, config)
           p == IF chain.vault[chain.on] = "noView" THEN "zero" ELSE chain.vault[chain.on]
<1>1. /\ after.provider = p /\ after.isNative = (p = NativeProvider(Net))
      /\ after.asset = config.asset
  BY DEF WithResolvedVaultProvider, Typed, ConfigFields
<1>2. p \notin {"noView", NativeToken}
  BY FacadeAssumption DEF NativeToken
<1> QED
  BY <1>1, <1>2 DEF IsNative

LEMMA ResolveFitted ==
  ASSUME FInv, Resolve
  PROVE  Fitted'
<1> USE DEF FInv, RInv, IInv, Shaped, Fields
<1> DEFINE config ==
      IF req.ask.op \in Unresolved THEN req.config
      ELSE IF chain.about = "vault"
      THEN WithResolvedVaultProvider(Net, chain, chain.on, req.config)
      ELSE WithResolvedProviders(Net, chain, req.config)
<1>1. /\ chain' = chain /\ held' = held /\ req.phase = "configured"
      /\ chain.about \in {"market", "smart", "vault"}
      /\ req.ask \in Request /\ req.ask.about = chain.about
  BY DEF Resolve
<1>2. CASE chain.about = "smart" /\ config.collProvider = "zero"
  <2>1. /\ req'.phase = "refused" /\ req'.why = "provider" /\ req'.stale = req.stale
    BY <1>2 DEF Resolve, Refuse
  <2> QED
    BY <1>1, <2>1, EndedFitted
<1>3. CASE ~(chain.about = "smart" /\ config.collProvider = "zero")
  <2>1. req' = [req EXCEPT !.config = config,
                  !.phase = IF chain.about = "smart" THEN "pairing" ELSE "resolved"]
    BY <1>3 DEF Resolve
  <2> HIDE DEF config
  <2>2. /\ req'.phase \in {"pairing", "resolved"} /\ req'.ask = req.ask
        /\ (req'.phase = "pairing") <=> (chain.about = "smart")
        /\ req'.config = config
        /\ req'.late = req.late /\ req'.mid = req.mid /\ req'.stale = req.stale
    BY <2>1
  <2>3. CASE req.ask.op = "flashLoan"
    <3>1. chain.about = "market"
      BY <1>1, <2>3, RequestAssumption DEF OpsOf, VaultOps, SmartOps
    <3> QED
      BY <1>1, <2>2, <2>3, <3>1 DEF Fitted, Keepsake, Read, Genuine, OfPool, PoolNow,
         Returned, Chosen, Flagged, InHand, Asked, Placed, ValueIsTaken,
         OwnConfigAccepted, Steps
  <2>4. CASE req.ask.op # "flashLoan"
    <3>1. InHand /\ Typed(req.config)
      BY <1>1, <2>4 DEF Handed, InHand, Configured, OnConfigs, ConfigFields
    <3>2. CASE req.ask.op \in Unresolved
      <4>1. chain.about = "market"
        BY <1>1, <3>2, RequestAssumption DEF OpsOf, VaultOps, SmartOps, Unresolved
      <4>2. config = req.config
        BY <3>2 DEF config
      <4>3. Chosen'
        BY <1>1, <2>2, <3>1, <4>1, <4>2 DEF Fitted, Chosen, Sound, Genuine
      <4>4. Flagged'
        BY <1>1, <2>2, <3>2, <4>1 DEF Flagged
      <4> QED
        BY <1>1, <2>2, <4>1, <4>3, <4>4 DEF Fitted, Keepsake, Read, Genuine, OfPool, PoolNow,
           Returned, Asked, Placed, ValueIsTaken, OwnConfigAccepted, Steps
    <3>3. CASE req.ask.op \notin Unresolved /\ chain.about # "vault"
      <4>1. config = WithResolvedProviders(Net, chain, req.config)
        BY <3>3 DEF config
      <4>2. /\ LoanFlag(config) /\ config.loan = req.config.loan
            /\ config.market = req.config.market
            /\ config.collProvider = chain.provider[req.config.market].coll
            /\ {config.loanProvider, config.collProvider} \cap {"noView", NativeToken} = {}
            /\ chain.about = "market" => CollFlag(config) /\ config.coll = req.config.coll
            /\ chain.about = "smart" => /\ config.a = req.config.a /\ config.b = req.config.b
                                        /\ config.lp = req.config.lp
        BY <1>1, <3>1, <3>3, <4>1, ResolutionFlags
      <4>3. req.ask.op # "migrateToFixedTerm"
        BY <3>3 DEF Unresolved
      <4>4. Chosen'
        <5>1. SUFFICES ASSUME Sound
                       PROVE  /\ Genuine(config)
                              /\ chain.about = "smart" /\ ~Differs =>
                                   OfPool(config, config.collProvider)
          BY <1>1, <2>2 DEF Chosen, Sound, Genuine, Differs, OfPool
        <5>2. /\ Genuine(req.config)
              /\ chain.about = "smart" /\ ~Differs => OfPool(req.config, PoolNow)
          BY <1>1, <3>1, <4>3, <5>1 DEF Fitted, Chosen
        <5>3. Genuine(config)
          BY <1>1, <3>3, <4>2, <5>2 DEF Genuine
        <5>4. chain.about = "smart" => config.collProvider = PoolNow
          BY <4>2, <5>2 DEF Genuine, PoolNow
        <5> QED
          BY <4>2, <5>2, <5>3, <5>4 DEF OfPool
      <4>5. Flagged'
        BY <1>1, <1>3, <2>2, <3>3, <4>2 DEF Flagged, LoanFlag, CollFlag, IsNative, Net
      <4> QED
        BY <1>1, <2>2, <4>4, <4>5 DEF Fitted, Keepsake, Read, Genuine, OfPool, PoolNow,
           Returned, Asked, Placed, ValueIsTaken, OwnConfigAccepted, Steps
    <3>4. CASE req.ask.op \notin Unresolved /\ chain.about = "vault"
      <4>1. config = WithResolvedVaultProvider(Net, chain, chain.on, req.config)
        BY <3>4 DEF config
      <4>2. /\ config.isNative = IsNative(config.provider)
            /\ config.asset = req.config.asset
            /\ config.provider \notin {"noView", NativeToken}
        BY <3>1, <3>4, <4>1, VaultResolutionFlags
      <4>3. Chosen'
        BY <1>1, <2>2, <3>1, <3>4, <4>2 DEF Fitted, Chosen, Sound, Genuine
      <4>4. Flagged'
        BY <1>1, <2>2, <3>4, <4>2 DEF Flagged, IsNative, Net
      <4> QED
        BY <1>1, <2>2, <3>4, <4>3, <4>4 DEF Fitted, Keepsake, Read, Genuine, OfPool, PoolNow,
           Returned, Asked, Placed, ValueIsTaken, OwnConfigAccepted, Steps
    <3> QED
      BY <3>2, <3>3, <3>4
  <2> QED
    BY <2>3, <2>4
<1> QED
  BY <1>2, <1>3

LEMMA PairResolution ==
  ASSUME NEW c, NEW d,
         Providing \cup {"a", "b", "lp", "aIsNative", "bIsNative"} \subseteq DOMAIN c,
         \/ d = WithResolvedPair(c)
         \/ /\ d = [c EXCEPT !.aIsNative = FALSE, !.bIsNative = FALSE]
            /\ c.collProvider \notin DOMAIN Pool
  PROVE  /\ d.market = c.market /\ d.loan = c.loan /\ d.loanProvider = c.loanProvider
         /\ d.collProvider = c.collProvider /\ d.loanIsNative = c.loanIsNative
         /\ d.a = c.a /\ d.b = c.b /\ d.lp = c.lp
         /\ PairFlags(d)
<1> DEFINE isSmart == c.collProvider \in DOMAIN Pool
           aNative == isSmart /\ Pool[c.collProvider].a = NativeToken
           bNative == isSmart /\ Pool[c.collProvider].b = NativeToken
<1>1. d = [c EXCEPT !.aIsNative = aNative, !.bIsNative = bNative]
  BY DEF WithResolvedPair
<1> HIDE DEF aNative, bNative
<1>2. /\ d.market = c.market /\ d.loan = c.loan /\ d.loanProvider = c.loanProvider
      /\ d.collProvider = c.collProvider /\ d.loanIsNative = c.loanIsNative
      /\ d.a = c.a /\ d.b = c.b /\ d.lp = c.lp
      /\ d.aIsNative = aNative /\ d.bIsNative = bNative
  BY <1>1 DEF Providing
<1> QED
  BY <1>2 DEF PairFlags, aNative, bNative

(* The pair's flags are its provider's answer; a provider without a pair   *)
(* has no native side, and a node that is silent ends the build.           *)
LEMMA PairFitted ==
  ASSUME FInv, ResolvePair \/ PairFails
  PROVE  Fitted'
<1> USE DEF FInv, RInv, IInv, Shaped, Fields
<1>1. /\ chain' = chain /\ held' = held /\ req.phase = "pairing"
      /\ req'.ask = req.ask /\ req'.stale = req.stale /\ req'.mid = req.mid
      /\ req'.phase \in {"resolved", "unreachable"}
      /\ req.ask \in Request /\ req.ask.about = chain.about
  BY DEF ResolvePair, PairFails
<1>2. CASE req'.phase = "unreachable"
  BY <1>1, <1>2, EndedFitted
<1>3. CASE req'.phase = "resolved"
  <2> DEFINE c == req.config
             d == req'.config
  <2>1. chain.about = "smart" /\ req.ask.op # "flashLoan"
    BY <1>1, RequestAssumption DEF Handed, OpsOf, SmartOps
  <2>2. Typed(c) /\ InHand /\ req.ask.op \notin Unresolved
    BY <1>1, <2>1, RequestAssumption DEF Handed, InHand, Configured, OnConfigs, ConfigFields,
       OpsOf, SmartOps, Unresolved
  <2>3. \/ d = WithResolvedPair(c)
        \/ /\ d = [c EXCEPT !.aIsNative = FALSE, !.bIsNative = FALSE]
           /\ c.collProvider \notin DOMAIN Pool
    <3>1. CASE ResolvePair
      BY <3>1 DEF ResolvePair
    <3>2. CASE PairFails
      <4>1. PICK e \in TransportErrors \cup
                     (IF c.collProvider \in DOMAIN Pool THEN {} ELSE ContractErrors) :
              req' = [req EXCEPT
                !.phase = IF IsContractLevelFailure(e) THEN "resolved" ELSE "unreachable",
                !.config = [@ EXCEPT !.aIsNative = FALSE, !.bIsNative = FALSE],
                !.lost = e \in TransportErrors]
        BY <3>2 DEF PairFails
      <4>2. IsContractLevelFailure(e)
        BY <1>3, <4>1
      <4>3. c.collProvider \notin DOMAIN Pool
        BY <4>1, <4>2 DEF IsContractLevelFailure, ContractErrors, TransportErrors
      <4> QED
        BY <4>1, <4>3
    <3> QED
      BY <3>1, <3>2
  <2>4. Providing \cup {"a", "b", "lp", "aIsNative", "bIsNative"} \subseteq DOMAIN c
    BY <2>1, <2>2 DEF Typed, ConfigFields
  <2>5. /\ d.market = c.market /\ d.loan = c.loan /\ d.loanProvider = c.loanProvider
        /\ d.collProvider = c.collProvider /\ d.loanIsNative = c.loanIsNative
        /\ d.a = c.a /\ d.b = c.b /\ d.lp = c.lp
        /\ PairFlags(d)
    BY <2>3, <2>4, PairResolution
  <2>6. /\ LoanFlag(c) /\ c.collProvider # "zero"
        /\ {c.loanProvider, c.collProvider} \cap {"noView", NativeToken} = {}
    BY <1>1, <2>1, <2>2 DEF Fitted, Flagged
  <2>7. Flagged'
    BY <1>1, <1>3, <2>1, <2>5, <2>6 DEF Flagged, LoanFlag, PairFlags, IsNative, Net
  <2>8. Chosen'
    <3>1. Sound => Genuine(c) /\ (~Differs => OfPool(c, c.collProvider))
      BY <1>1, <2>1, <2>2 DEF Fitted, Chosen, Unresolved
    <3>2. Sound => Genuine(d) /\ (~Differs => OfPool(d, d.collProvider))
      BY <2>1, <2>5, <3>1 DEF Genuine, OfPool
    <3> QED
      BY <1>1, <1>3, <3>2 DEF Chosen, Sound, Genuine, Differs, OfPool
  <2> QED
    BY <1>1, <1>3, <2>1, <2>7, <2>8 DEF Fitted, Keepsake, Read, Genuine, OfPool, PoolNow,
       Returned, Asked, Placed, ValueIsTaken, OwnConfigAccepted, Steps
<1> QED
  BY <1>1, <1>2, <1>3

LEMMA FailedFitted ==
  ASSUME FInv, VaultProviderFails \/ NodeFails
  PROVE  Fitted'
<1>1. chain' = chain /\ held' = held /\ req'.stale = req.stale /\ req'.phase = "unreachable"
  BY DEF VaultProviderFails, NodeFails, IsContractLevelFailure, ContractErrors,
         TransportErrors, FInv, RInv, IInv, Shaped, Fields
<1> QED
  BY <1>1, EndedFitted DEF FInv

LEMMA AskedFitted ==
  ASSUME FInv, AskBroker \/ AskMoolah \/ AskLists \/ AskLoanToken \/ FlashLoan
  PROVE  Fitted'
<1> USE DEF FInv, RInv, IInv, Shaped, Fields
<1>1. /\ chain' = chain /\ held' = held /\ req'.ask = req.ask /\ req'.late = req.late
      /\ req'.stale = req.stale /\ req'.phase \in {"configured", "resolved", "refused"}
      /\ req.ask \in Request /\ req.ask.about = chain.about
      /\ req'.phase = "refused" => req'.why # "config"
  BY DEF AskBroker, AskMoolah, AskLists, AskLoanToken, FlashLoan, Refuse
<1>2. CASE req'.phase = "refused"
  BY <1>1, <1>2, EndedFitted
<1>3. CASE req'.phase # "refused"
  <2>1. chain.about \in OnConfigs => req.ask.op = "flashLoan"
    BY DEF AskBroker, AskMoolah, AskLists, AskLoanToken, FlashLoan, OnConfigs, ConfigFields
  <2>2. Chosen' /\ Flagged'
    BY <1>1, <2>1 DEF Chosen, Flagged, InHand
  <2>3. Asked'
    <3>1. CASE AskBroker
      BY <1>1, <1>3, <3>1 DEF AskBroker, Refuse, ClaimsThisMoolah, Asked
    <3>2. CASE AskMoolah
      BY <1>1, <1>3, <3>2 DEF AskMoolah, Asked, Fitted
    <3>3. CASE AskLists
      <4>1. {chain.lists.open, chain.lists.market, chain.lists.borrower, chain.lists.allowed}
              \subseteq BOOLEAN
        BY FacadeAssumption
      <4>2. req.ask.unlisted \/ IsLiquidationMarketEnabled(chain.lists)
        BY <1>3, <3>3 DEF AskLists, Refuse
      <4>3. req.ask.unlisted \/ GatesOpen(chain.lists)
        BY <4>1, <4>2 DEF IsLiquidationMarketEnabled, GatesOpen
      <4>4. req'.phase = "configured" /\ chain.about = "liquidation"
        BY <1>3, <3>3 DEF AskLists, Refuse
      <4> QED
        BY <1>1, <4>3, <4>4 DEF Asked, GatesOpen
    <3>4. CASE AskLoanToken
      <4>1. /\ req'.phase = "resolved" /\ chain.about = "liquidation"
            /\ req.phase = "configured" /\ req.ask.token = Params[chain.on].loan
        BY <1>3, <3>4 DEF AskLoanToken, Refuse
      <4> QED
        BY <1>1, <4>1 DEF Asked, Fitted, GatesOpen
    <3>5. CASE FlashLoan
      <4>1. chain.about \notin {"broker", "liquidation"}
        BY <1>1, <3>5, RequestAssumption DEF FlashLoan, OpsOf, BrokerOps
      <4> QED
        BY <1>1, <4>1 DEF Asked
    <3> QED
      BY <3>1, <3>2, <3>3, <3>4, <3>5
  <2> QED
    BY <1>1, <1>3, <2>2, <2>3 DEF Fitted, Keepsake, Read, Genuine, OfPool, PoolNow, Returned,
       Placed, ValueIsTaken, OwnConfigAccepted, Steps
<1> QED
  BY <1>2, <1>3

(* Whatever else a config says, a route that is paid goes to a contract    *)
(* that takes it, once the flags are the providers' own.                   *)
LEMMA MarketValue ==
  ASSUME NEW r, r.op \in MarketOps,
         r.op \notin Unresolved => LoanFlag(r.config) /\ CollFlag(r.config),
         Emitted(Net, r).value
  PROVE  TakesValue(Net, r.op, Emitted(Net, r).to)
<1>0. Emitted(Net, r) = EmittedOnMarket(Net, r)
  BY DEF Emitted, MarketOps, SmartOps, VaultOps, BrokerOps
<1> USE DEF For, Paying, Pulling, Calling, Route
<1>1. CASE r.op = "supply"
  <2>1. Emitted(Net, r) = For(r.config, SupplySteps(r.config))
    BY <1>0, <1>1 DEF EmittedOnMarket
  <2>2. r.config.collIsNative /\ Emitted(Net, r).to = r.config.collProvider
    BY <2>1 DEF SupplySteps
  <2>3. IsNative(r.config.collProvider)
    BY <1>1, <2>2 DEF CollFlag, Unresolved
  <2> QED
    BY <1>1, <2>2, <2>3 DEF TakesValue, IsNative
<1>2. CASE r.op = "repay"
  <2>1. Emitted(Net, r) = For(r.config, RepaySteps(Net, r.config))
    BY <1>0, <1>2 DEF EmittedOnMarket
  <2>2. r.config.loanIsNative /\ Emitted(Net, r).to = r.config.loanProvider
    BY <2>1 DEF RepaySteps
  <2>3. IsNative(r.config.loanProvider)
    BY <1>2, <2>2 DEF LoanFlag, Unresolved
  <2> QED
    BY <1>2, <2>2, <2>3 DEF TakesValue, IsNative
<1>3. CASE r.op \in {"borrow", "withdraw", "moolahSupply", "moolahWithdraw",
                     "migrateToFixedTerm"}
  <2>1. Emitted(Net, r).value = FALSE
    BY <1>0, <1>3 DEF EmittedOnMarket, BorrowSteps, WithdrawSteps, MoolahSupplySteps,
       MoolahCallSteps
  <2> QED
    BY <2>1
<1> QED
  BY <1>1, <1>2, <1>3 DEF MarketOps

LEMMA SmartValue ==
  ASSUME NEW r, r.op \in SmartOps, LoanFlag(r.config), PairFlags(r.config),
         Emitted(Net, r).value
  PROVE  TakesValue(Net, r.op, Emitted(Net, r).to)
<1>0. Emitted(Net, r) = EmittedOnSmart(r)
  BY DEF Emitted, MarketOps, SmartOps, VaultOps, BrokerOps
<1> USE DEF For, Paying, Pulling, Calling, Route
<1>1. CASE r.op = "repaySmart"
  <2>1. Emitted(Net, r) = For(r.config, SmartRepaySteps(r.config))
    BY <1>0, <1>1 DEF EmittedOnSmart
  <2>2. r.config.loanIsNative /\ Emitted(Net, r).to = r.config.loanProvider
    BY <2>1 DEF SmartRepaySteps
  <2>3. IsNative(r.config.loanProvider)
    BY <1>1, <2>2 DEF LoanFlag
  <2> QED
    BY <1>1, <2>2, <2>3 DEF TakesValue, IsNative
<1>2. CASE r.op = "supplySmart"
  <2>1. Emitted(Net, r) = For(r.config, SmartSupplyCollateralSteps(r.config))
    BY <1>0, <1>2 DEF EmittedOnSmart
  <2>2. /\ r.config.aIsNative \/ r.config.bIsNative
        /\ Emitted(Net, r).to = r.config.collProvider
    BY <2>1 DEF SmartSupplyCollateralSteps
  <2>3. /\ r.config.collProvider \in DOMAIN Pool
        /\ NativeToken \in {Pool[r.config.collProvider].a, Pool[r.config.collProvider].b}
    BY <2>2 DEF PairFlags
  <2> QED
    BY <1>2, <2>2, <2>3 DEF TakesValue
<1>3. CASE r.op \in SmartOps \ {"repaySmart", "supplySmart"}
  <2>1. Emitted(Net, r).value = FALSE
    BY <1>0, <1>3 DEF EmittedOnSmart, SmartSupplyDexLpSteps, SmartWithdrawSteps,
       SmartUnwindSteps, SmartOps
  <2> QED
    BY <2>1
<1> QED
  BY <1>1, <1>2, <1>3

LEMMA OtherValue ==
  ASSUME NEW r, r.op \in VaultOps \cup {"liquidate", "flashLoan"},
         r.op \in VaultOps => r.config.isNative = IsNative(r.config.provider),
         Emitted(Net, r).value
  PROVE  TakesValue(Net, r.op, Emitted(Net, r).to)
<1> USE DEF For, Paying, Pulling, Calling, Route
<1>1. CASE r.op = "depositVault"
  <2>1. Emitted(Net, r) = VaultDepositSteps(Net, r.config, r.on)
    BY <1>1 DEF Emitted, EmittedOnVault, MarketOps, SmartOps, VaultOps, BrokerOps
  <2>2. r.config.isNative /\ Emitted(Net, r).to = r.config.provider
    BY <2>1 DEF VaultDepositSteps, IsNativeBNB
  <2> QED
    BY <1>1, <2>2 DEF TakesValue, IsNative, VaultOps
<1>2. CASE r.op \in {"withdrawVault", "vaultMint", "liquidate", "flashLoan"}
  <2>1. Emitted(Net, r).value = FALSE
    BY <1>2 DEF Emitted, EmittedOnVault, VaultWithdrawSteps, VaultMintSteps, LiquidateSteps,
       MoolahCallSteps, MarketOps, SmartOps, VaultOps, BrokerOps
  <2> QED
    BY <2>1
<1> QED
  BY <1>1, <1>2 DEF VaultOps

(* What Build hands to the builders.                                       *)
About == [op |-> req.ask.op, on |-> chain.on, config |-> req.config,
          broker |-> req.ask.broker, token |-> req.ask.token,
          paysNative |-> req.ask.paysNative]

LEMMA BuildEmits ==
  ASSUME FInv, Build
  PROVE  /\ chain' = chain /\ held' = held /\ req.phase = "resolved"
         /\ req'.ask = req.ask /\ req'.stale = req.stale /\ req'.mid = req.mid
         /\ req'.late = req.late /\ req'.config = req.config
         /\ req'.phase \in {"built", "refused"}
         /\ req'.phase = "refused" => req'.why # "config"
         /\ req'.phase = "built" =>
              /\ req'.route = Emitted(Net, About)
              /\ ~PaysNobody(Emitted(Net, About)) /\ AllowanceReadable(Emitted(Net, About))
              /\ req.ask.op = "vaultMint" => ~VaultMintRefuses(req.config, req.ask.routed)
         /\ req.ask \in Request /\ chain.about \in DOMAIN OpsOf
         /\ req.ask.about = chain.about /\ req.ask.op \in OpsOf[chain.about]
<1> USE DEF FInv, RInv, IInv, Shaped, Fields
<1>1. req.phase = "resolved"
  BY DEF Build
<1>2. req.ask \in Request /\ req.ask.about = chain.about
  BY <1>1
<1>3. chain.about \in DOMAIN OpsOf /\ req.ask.op \in OpsOf[chain.about]
  BY <1>2, RequestAssumption
<1>4. \/ \E why \in {"mint", "route"} : Refuse(why)
      \/ /\ req' = [req EXCEPT !.phase = "built", !.route = Emitted(Net, About)]
         /\ ~PaysNobody(Emitted(Net, About)) /\ AllowanceReadable(Emitted(Net, About))
         /\ req.ask.op = "vaultMint" => ~VaultMintRefuses(req.config, req.ask.routed)
  BY DEF Build, About
<1>5. chain' = chain /\ held' = held
  BY DEF Build
<1> HIDE DEF FInv, RInv, IInv
<1>6. Fields \subseteq DOMAIN req
  BY DEF FInv, RInv, IInv
<1> QED
  BY <1>1, <1>2, <1>3, <1>4, <1>5, <1>6 DEF Refuse

LEMMA BuildFitted ==
  ASSUME FInv, Build
  PROVE  Fitted'
<1> DEFINE op == req.ask.op
           e == Emitted(Net, About)
<1> USE BuildEmits
<1>1. Fitted /\ Handed
  BY DEF FInv, RInv
<1>2. CASE req'.phase = "refused"
  BY <1>1, <1>2, EndedFitted
<1>3. CASE req'.phase = "built"
  <2>1. /\ About.op = op /\ About.on = chain.on /\ About.config = req.config
        /\ About.broker = req.ask.broker
    BY DEF About
  <2>2. Net' = Net
    BY DEF Net
  <2> DEFINE paid == e.value => TakesValue(Net, op, e.to)
             placed == e.to \notin {"zero", "noView", NativeToken}
  <2>3. ASSUME op \in MarketOps PROVE paid /\ placed
    <3>1. chain.about = "market" /\ op # "flashLoan"
      BY <2>3 DEF OpsOf, MarketOps, SmartOps, VaultOps, BrokerOps
    <3>2. InHand
      BY <3>1 DEF InHand, Configured, OnConfigs, ConfigFields
    <3>3. op \notin Unresolved =>
            /\ LoanFlag(req.config) /\ CollFlag(req.config)
            /\ {req.config.loanProvider, req.config.collProvider}
                 \cap {"noView", NativeToken} = {}
      BY <1>1, <3>1, <3>2 DEF Fitted, Flagged
    <3>4. paid
      BY <2>1, <2>3, <3>3, MarketValue
    <3>5. e.to = Served(op, req.config)
      BY <1>3, <2>1, <2>3, MarketRoute
    <3>6. placed
      BY <2>3, <3>3, <3>5 DEF Served, OrMoolah, MarketOps, SmartOps, Unresolved, NativeToken
    <3> QED
      BY <3>4, <3>6
  <2>4. ASSUME op \in SmartOps PROVE paid /\ placed
    <3>1. chain.about = "smart" /\ op \notin Unresolved \cup {"flashLoan"}
      BY <2>4 DEF OpsOf, MarketOps, SmartOps, VaultOps, BrokerOps, Unresolved
    <3>2. InHand
      BY <3>1 DEF InHand, Configured, OnConfigs, ConfigFields
    <3>3. /\ LoanFlag(req.config) /\ PairFlags(req.config)
          /\ req.config.collProvider # "zero"
          /\ {req.config.loanProvider, req.config.collProvider}
               \cap {"noView", NativeToken} = {}
      BY <1>1, <3>1, <3>2 DEF Fitted, Flagged
    <3>4. paid
      BY <2>1, <2>4, <3>3, SmartValue
    <3>5. e.to = Served(op, req.config)
      BY <1>3, <2>1, <2>4, SmartRoute
    <3>6. placed
      BY <2>4, <3>3, <3>5 DEF Served, OrMoolah, SmartOps, NativeToken
    <3> QED
      BY <3>4, <3>6
  <2>5. ASSUME op \in VaultOps PROVE paid /\ placed
    <3>1. chain.about = "vault" /\ op # "flashLoan"
      BY <2>5 DEF OpsOf, MarketOps, SmartOps, VaultOps, BrokerOps
    <3>2. InHand /\ chain.on \in Vaults
      BY <3>1, FacadeAssumption DEF InHand, Configured, OnConfigs, ConfigFields, FInv, RInv
    <3>3. /\ req.config.isNative = IsNative(req.config.provider)
          /\ req.config.provider \notin {"noView", NativeToken}
      BY <1>1, <3>1, <3>2 DEF Fitted, Flagged
    <3>4. paid
      BY <2>1, <2>5, <3>3, OtherValue
    <3>5. e.to = OrVault(req.config, chain.on)
      BY <1>3, <2>1, <2>5, OtherRoute
    <3>6. placed
      BY <3>2, <3>3, <3>5 DEF OrVault, Vaults, VaultAsset, NativeToken
    <3> QED
      BY <3>4, <3>6
  <2>6. ASSUME op \in BrokerOps PROVE chain.about = "broker" /\ placed
    <3>1. chain.about = "broker"
      BY <2>6 DEF OpsOf, MarketOps, SmartOps, VaultOps, BrokerOps
    <3>2. req.ask.broker \in DOMAIN Claims
      BY <1>1, <3>1 DEF Fitted, Asked
    <3>3. e.to = req.ask.broker
      BY <1>3, <2>1, <2>6, OtherRoute
    <3> QED
      BY <3>1, <3>2, <3>3 DEF Claims, NativeToken
  <2>7. ASSUME op \in {"liquidate", "flashLoan"} PROVE paid /\ placed
    <3>1. paid
      BY <2>1, <2>7, OtherValue DEF VaultOps
    <3>2. e.to \in {"liquidator", "moolah"}
      BY <2>1, <2>7 DEF Emitted, LiquidateSteps, MoolahCallSteps, Pulling, Calling, Route,
         MarketOps, SmartOps, VaultOps, BrokerOps
    <3> QED
      BY <3>1, <3>2 DEF NativeToken
  <2>8. (chain.about = "broker" \/ paid) /\ placed
    BY <2>3, <2>4, <2>5, <2>6, <2>7 DEF OpsOf
  <2> HIDE DEF paid
  <2>9. Placed'
    BY <1>3, <2>8 DEF Placed
  <2>10. ValueIsTaken'
    BY <1>3, <2>2, <2>8 DEF ValueIsTaken, paid
  <2> QED
    BY <1>1, <1>3, <2>9, <2>10 DEF Fitted, Keepsake, Read, Genuine, OfPool, PoolNow,
       Returned, Chosen, Flagged, InHand, Configured, Asked, GatesOpen, OwnConfigAccepted
<1> QED
  BY <1>2, <1>3

LEMMA LandFitted ==
  ASSUME FInv, Land
  PROVE  Fitted'
<1>1. /\ chain' = chain /\ held' = held /\ req.phase = "built"
      /\ req'.phase \in {"landed", "bounced"} /\ req'.ask = req.ask
      /\ req'.late = req.late /\ req'.stale = req.stale /\ req'.route = req.route
  BY DEF Land, FInv, RInv, IInv, Shaped, Fields
<1>2. Placed' /\ ValueIsTaken'
  BY <1>1 DEF FInv, Fitted, Placed, ValueIsTaken, Steps, Net
<1> QED
  BY <1>1, <1>2 DEF FInv, Fitted, Keepsake, Read, Genuine, OfPool, PoolNow, Returned,
     Chosen, Flagged, InHand, Configured, Asked, OwnConfigAccepted

LEMMA NextFInv == FInv /\ [Next]_vars => FInv'
<1> SUFFICES ASSUME FInv, [Next]_vars PROVE FInv'
  OBVIOUS
<1>1. RInv' /\ InBounds'
  BY NextRInv, NextInBounds DEF FInv
<1>2. CASE ReadElsewhere \/ UNCHANGED vars
  <2>1. chain' = chain /\ held' = held /\ req' = req
    BY <1>2 DEF ReadElsewhere, vars
  <2>2. Keepsake' /\ Returned' /\ Chosen' /\ Flagged' /\ Asked'
    BY <2>1 DEF FInv, Fitted, Keepsake, Returned, Read, Genuine, OfPool, PoolNow, Chosen,
       Flagged, InHand, Sound, Differs, LoanFlag, CollFlag, PairFlags, IsNative, Net, Asked
  <2>3. Placed' /\ ValueIsTaken' /\ OwnConfigAccepted'
    BY <2>1 DEF FInv, Fitted, Placed, ValueIsTaken, OwnConfigAccepted, Net
  <2> QED
    BY <1>1, <2>2, <2>3 DEF FInv, Fitted
<1>3. CASE Move
  BY <1>1, <1>3, MoveFitted DEF FInv
<1>4. CASE ReadConfig
  BY <1>1, <1>4, ReadConfigFitted DEF FInv
<1>5. ASSUME NEW r \in Request, NEW c \in ChainIds, Call(r, c)
      PROVE  FInv'
  BY <1>1, <1>5, CallFitted DEF FInv
<1>6. CASE Proceeds
  <2>1. Fitted'
    BY <1>6, ResolveConfigFitted, ResolveFitted, PairFitted, FailedFitted, AskedFitted,
       BuildFitted, LandFitted DEF Proceeds
  <2> QED
    BY <1>1, <2>1 DEF FInv
<1> QED
  BY <1>2, <1>3, <1>4, <1>5, <1>6 DEF Next, Proceeds

LEMMA FittingInvariance == Spec => []FInv
BY InitFInv, NextFInv, PTL DEF Spec

(* Nobody is asked to take value who does not, however stale or forged the *)
(* flags a config came with.                                               *)
THEOREM ValueSafe == Spec => []ValueIsTaken
<1>1. FInv => ValueIsTaken
  BY DEF FInv, Fitted
<1> QED
  BY <1>1, FittingInvariance, PTL

(* What the SDK returned once it takes back: only a Smart config that is   *)
(* stale, or names a native loan by the sentinel, is turned down.          *)
THEOREM OwnConfigSafe == Spec => []OwnConfigAccepted
<1>1. FInv => OwnConfigAccepted
  BY DEF FInv, Fitted
<1> QED
  BY <1>1, FittingInvariance, PTL

(* The types, and with them that no call goes to the zero address, to the  *)
(* sentinel or to a view that is missing.                                  *)
THEOREM FacadeTypeCorrect == Spec => []TypeOK
<1>1. FInv => TypeOK
  <2> SUFFICES ASSUME FInv PROVE TypeOK
    OBVIOUS
  <2>1. ASSUME NEW c \in DOMAIN sdk.clients
        PROVE  c \in ChainIds /\ sdk.clients[c].own \in BOOLEAN
    <3>1. c \in ChainIds
      BY DEF FInv, InBounds
    <3>2. sdk.clients[c].own = (c \in sdk.own)
      BY DEF FInv, RInv, IInv, Clients
    <3>3. (c \in sdk.own) \in BOOLEAN
      OBVIOUS
    <3> QED
      BY <3>1, <3>2, <3>3
  <2>2. held.kind \in {"none", "market", "smart", "vault"}
    <3>1. CASE held = Nothing
      BY <3>1 DEF Nothing
    <3>2. CASE held # Nothing
      BY <3>2 DEF FInv, RInv, Kept, Typed, OnConfigs, ConfigFields
    <3> QED
      BY <3>1, <3>2
  <2> QED
    BY <2>1, <2>2 DEF FInv, InBounds, Fitted, Placed, TypeOK
<1> QED
  BY <1>1, FittingInvariance, PTL
-----------------------------------------------------------------------------
(* Steps that the contracts take.  The invariant now has the route in it:  *)
(* a builder's steps match the contract when they are built, and nothing   *)
(* about them changes until they are sent.                                 *)

LEMMA InitMatching == Init => Matching
BY DEF Init, Idle, Matching, Coins, InHand, Configured, Matched, LandsUnlessMoved, Steps

LEMMA MoveMatching ==
  ASSUME FInv, Matching, Move
  PROVE  Matching'
<1> USE DEF FInv, RInv, IInv, Shaped, Fields, Matching
<1>1. PICK w \in World : /\ w.net = Net /\ w.about = chain.about /\ w.on = chain.on
                         /\ chain' = w
  BY DEF Move
<1>2. /\ req'.phase = req.phase /\ req'.config = req.config /\ req'.ask = req.ask
      /\ req'.route = req.route
      /\ req'.stale = (req.stale \/ held # Nothing \/ req.phase = "called")
      /\ req'.mid = (req.mid \/ req.phase = "configured")
      /\ req.phase \in {"idle", "called", "configured", "pairing", "resolved", "built"}
  BY DEF Move
<1>3. Net' = Net /\ chain'.about = chain.about /\ chain'.on = chain.on
  BY <1>1 DEF Net
<1>4. Coins'
  BY <1>2, <1>3 DEF Coins, InHand, IsNative
<1>5. Sound' = Sound /\ Subject' = Subject /\ (Excused => Excused')
  BY <1>2, <1>3 DEF Sound, Subject, Excused, Differs, WrapsNothing
<1>6. Matched'
  BY <1>2, <1>3, <1>5 DEF Matched
<1>7. LandsUnlessMoved'
  BY <1>2 DEF LandsUnlessMoved
<1> QED
  BY <1>4, <1>6, <1>7

(* No steps yet, and nothing resolved: nothing to say.                     *)
LEMMA NoSteps ==
  ASSUME req'.phase \in {"called", "configured", "refused", "unreachable"}
  PROVE  Matching'
BY DEF Matching, Coins, InHand, Matched, LandsUnlessMoved, Steps, Configured

LEMMA ResolveMatching ==
  ASSUME NativeIsForItsCoin, FInv, Resolve
  PROVE  Matching'
<1> USE DEF FInv, RInv, IInv, Shaped, Fields
<1> DEFINE config ==
      IF req.ask.op \in Unresolved THEN req.config
      ELSE IF chain.about = "vault"
      THEN WithResolvedVaultProvider(Net, chain, chain.on, req.config)
      ELSE WithResolvedProviders(Net, chain, req.config)
<1>1. /\ chain' = chain /\ req.phase = "configured"
      /\ chain.about \in {"market", "smart", "vault"}
      /\ chain \in World /\ chain.net = Net
  BY DEF Resolve, Net
<1>2. CASE req'.phase = "refused"
  BY <1>2, NoSteps
<1>3. CASE req'.phase # "refused"
  <2>1. req' = [req EXCEPT !.config = config,
                  !.phase = IF chain.about = "smart" THEN "pairing" ELSE "resolved"]
    BY <1>3 DEF Resolve, Refuse
  <2> HIDE DEF config
  <2>2. /\ req'.phase \in {"pairing", "resolved"} /\ req'.ask = req.ask
        /\ req'.config = config
    BY <2>1
  <2>3. ASSUME req.ask.op # "flashLoan" PROVE Typed(req.config)
    BY <1>1, <2>3 DEF Handed, Configured, OnConfigs, ConfigFields
  <2>4. ASSUME req.ask.op \notin Unresolved \cup {"flashLoan"}, chain.about # "vault",
               IsNative(config.loanProvider)
        PROVE  Params[config.market].loan = "wrapped"
    <3>1. config = WithResolvedProviders(Net, chain, req.config)
      BY <2>4 DEF config
    <3>2. /\ config.market = req.config.market /\ config.market \in Markets
          /\ config.loanProvider = chain.provider[config.market].loan
      BY <1>1, <2>3, <2>4, <3>1, ResolutionOverwrites DEF Typed, ConfigFields
    <3> QED
      BY <1>1, <2>4, <3>2 DEF NativeIsForItsCoin, IsNative
  <2>5. ASSUME req.ask.op # "flashLoan", chain.about = "vault", IsNative(config.provider)
        PROVE  VaultAsset[chain.on] = "wrapped"
    <3>1. req.ask.op \notin Unresolved
      BY <1>1, <2>5, RequestAssumption DEF OpsOf, VaultOps, Unresolved
    <3>2. config = WithResolvedVaultProvider(Net, chain, chain.on, req.config)
      BY <2>5, <3>1 DEF config
    <3>3. config.provider = IF chain.vault[chain.on] = "noView" THEN "zero"
                            ELSE chain.vault[chain.on]
      BY <1>1, <2>3, <2>5, <3>2, VaultResolutionFlags
    <3>4. ~IsNative("zero") /\ chain.on \in Vaults
      BY <1>1, <2>5, NotNative, FacadeAssumption
    <3> QED
      BY <1>1, <2>5, <3>3, <3>4 DEF NativeIsForItsCoin, IsNative
  <2>6. Coins'
    BY <1>1, <2>2, <2>4, <2>5 DEF Coins, InHand, IsNative, Net
  <2> QED
    BY <2>2, <2>6 DEF Matching, Matched, LandsUnlessMoved, Steps
<1> QED
  BY <1>2, <1>3

LEMMA PairMatching ==
  ASSUME FInv, Matching, ResolvePair \/ PairFails
  PROVE  Matching'
<1> USE DEF FInv, RInv, IInv, Shaped, Fields
<1>1. /\ chain' = chain /\ req.phase = "pairing" /\ req'.ask = req.ask
      /\ req'.phase \in {"resolved", "unreachable"}
      /\ \/ req'.config = WithResolvedPair(req.config)
         \/ req'.config = [req.config EXCEPT !.aIsNative = FALSE, !.bIsNative = FALSE]
  BY DEF ResolvePair, PairFails
<1>2. CASE req.ask.op = "flashLoan"
  BY <1>1, <1>2 DEF Matching, Coins, InHand, Matched, LandsUnlessMoved, Steps
<1>3. CASE req.ask.op # "flashLoan"
  <2>1. chain.about = "smart" /\ Typed(req.config)
    BY <1>1, <1>3 DEF Handed, Configured, OnConfigs, ConfigFields
  <2>2. /\ req'.config.loanProvider = req.config.loanProvider
        /\ req'.config.market = req.config.market
    <3>1. Providing \subseteq DOMAIN req.config
      BY <2>1 DEF Typed, ConfigFields
    <3> HIDE DEF FInv, RInv, IInv, Shaped, Fields
    <3>2. /\ req.config.loanProvider = WithResolvedPair(req.config).loanProvider
          /\ req.config.market = WithResolvedPair(req.config).market
      BY <3>1, PairOverwrites
    <3> QED
      BY <1>1, <3>1, <3>2 DEF Providing
  <2>3. Coins'
    BY <1>1, <2>1, <2>2 DEF Matching, Coins, InHand, Configured, IsNative, Net
  <2> QED
    BY <1>1, <2>3 DEF Matching, Matched, LandsUnlessMoved, Steps
<1> QED
  BY <1>2, <1>3

LEMMA AskedMatching ==
  ASSUME FInv, AskBroker \/ AskMoolah \/ AskLists \/ AskLoanToken \/ FlashLoan
  PROVE  Matching'
<1>1. /\ chain' = chain /\ req'.ask = req.ask
      /\ req'.phase \in {"configured", "resolved", "refused"}
      /\ chain.about \in OnConfigs => req.ask.op = "flashLoan"
  BY DEF AskBroker, AskMoolah, AskLists, AskLoanToken, FlashLoan, Refuse, OnConfigs,
     ConfigFields, FInv, RInv, IInv, Shaped, Fields
<1> QED
  BY <1>1 DEF Matching, Coins, InHand, Matched, LandsUnlessMoved, Steps

(* What is built matches, unless it is excused.                            *)
LEMMA BuildMatching ==
  ASSUME FInv, Matching, Build
  PROVE  Matching'
<1> DEFINE op == req.ask.op
           e == Emitted(Net, About)
<1> USE BuildEmits
<1>1. Fitted /\ Handed /\ Matching /\ chain \in World
  BY DEF FInv, RInv
<1>2. CASE req'.phase = "refused"
  BY <1>2, NoSteps
<1>3. CASE req'.phase = "built"
  <2>1. /\ About.op = op /\ About.on = chain.on /\ About.config = req.config
        /\ About.broker = req.ask.broker /\ About.token = req.ask.token
    BY DEF About
  <2>2. Net' = Net /\ Sound' = Sound /\ Net \in Networks
    BY <1>1, FacadeAssumption DEF Net, Sound
  <2> DEFINE on == IF e.market = "none" THEN chain.on ELSE e.market
             wraps == Wbnb(Net) = "zero" /\ e.to = NativeProvider(Net)
                        /\ op \in {"repay"} \cup VaultOps
             fits == /\ e.approves \subseteq Pulled(Net, op, on, e.to) \X {e.to}
                     /\ Takes(Net, op, on, e) \/ req.ask.routed
  <2>3. ASSUME op \in MarketOps, Sound PROVE fits \/ wraps
    <3>1. chain.about = "market" /\ op # "flashLoan"
      BY <2>3 DEF OpsOf, MarketOps, SmartOps, VaultOps, BrokerOps
    <3>2. InHand
      BY <3>1 DEF InHand, Configured, OnConfigs, ConfigFields
    <3>3. req.config.market \in Markets
      BY <1>1, <3>1 DEF Handed, Configured, OnConfigs, ConfigFields, Typed
    <3>4. op # "migrateToFixedTerm" =>
            /\ req.config.loan = Params[req.config.market].loan
            /\ req.config.coll = Params[req.config.market].coll
      BY <1>1, <2>3, <3>1, <3>2 DEF Fitted, Chosen, Genuine
    <3>5. op \notin Unresolved =>
            /\ LoanFlag(req.config) /\ CollFlag(req.config)
            /\ IsNative(req.config.loanProvider) =>
                 Params[req.config.market].loan = "wrapped"
      BY <1>1, <3>1, <3>2 DEF Fitted, Flagged, Matching, Coins
    <3>6. \/ Fits(op, req.config.market, e)
          \/ op = "repay" /\ Wbnb(Net) = "zero" /\ e.to = NativeProvider(Net)
      BY <2>1, <2>2, <2>3, <3>3, <3>4, <3>5, MarketFits
    <3>7. e.market = req.config.market
      BY <1>3, <2>1, <2>3, MarketRoute
    <3>8. on = req.config.market
      BY <3>3, <3>7 DEF Markets, Params
    <3> QED
      BY <3>6, <3>8 DEF Fits
  <2>4. ASSUME op \in SmartOps, Sound, ~Differs PROVE fits
    <3>1. chain.about = "smart" /\ op \notin Unresolved \cup {"flashLoan"}
      BY <2>4 DEF OpsOf, MarketOps, SmartOps, VaultOps, BrokerOps, Unresolved
    <3>2. InHand
      BY <3>1 DEF InHand, Configured, OnConfigs, ConfigFields
    <3>3. LoanFlag(req.config) /\ PairFlags(req.config)
      BY <1>1, <3>1, <3>2 DEF Fitted, Flagged
    <3>4. /\ req.config.loan \in {Params[req.config.market].loan, NativeToken}
          /\ OfPool(req.config, req.config.collProvider)
      BY <1>1, <2>4, <3>1, <3>2 DEF Fitted, Chosen, Genuine, Unresolved
    <3>5. Fits(op, req.config.market, e)
      BY <1>3, <2>1, <2>2, <2>4, <3>3, <3>4, SmartFits
    <3>6. e.market = req.config.market /\ req.config.market \in Markets
      BY <1>1, <1>3, <2>1, <2>4, <3>1, SmartRoute DEF Handed, Configured, OnConfigs,
         ConfigFields, Typed
    <3>7. on = req.config.market
      BY <3>6 DEF Markets, Params
    <3> QED
      BY <3>5, <3>7 DEF Fits
  <2>5. ASSUME op \in VaultOps, Sound PROVE fits \/ wraps
    <3>1. chain.about = "vault" /\ op \notin {"flashLoan", "migrateToFixedTerm"}
      BY <2>5 DEF OpsOf, MarketOps, SmartOps, VaultOps, BrokerOps
    <3>2. InHand /\ chain.on \in Vaults
      BY <1>1, <3>1, FacadeAssumption DEF InHand, Configured, OnConfigs, ConfigFields
    <3>3. /\ req.config.isNative = IsNative(req.config.provider)
          /\ IsNative(req.config.provider) => VaultAsset[chain.on] = "wrapped"
      BY <1>1, <3>1, <3>2 DEF Fitted, Flagged, Matching, Coins
    <3>4. req.config.asset = VaultAsset[chain.on]
      BY <1>1, <2>5, <3>1, <3>2 DEF Fitted, Chosen, Genuine
    <3>5. e.market = "none"
      BY <1>3, <2>1, <2>5, OtherRoute
    <3>6. op = "vaultMint" => ~VaultMintRefuses(req.config, req.ask.routed)
      BY <1>3
    <3>7. \/ Wbnb(Net) = "zero" /\ e.to = NativeProvider(Net)
          \/ /\ e.approves \subseteq Pulled(Net, op, chain.on, e.to) \X {e.to}
             /\ Takes(Net, op, chain.on, e) \/ req.ask.routed
      BY <2>1, <2>2, <2>5, <3>2, <3>3, <3>4, <3>6, VaultFits
    <3> QED
      BY <2>5, <3>5, <3>7
  <2>6. ASSUME op \in {"liquidate", "flashLoan"} PROVE fits
    <3>1. op = "liquidate" => req.ask.token = Params[chain.on].loan
      <4>1. op = "liquidate" => chain.about = "liquidation"
        BY DEF OpsOf, MarketOps, SmartOps, VaultOps, BrokerOps
      <4> QED
        BY <1>1, <4>1 DEF Fitted, Asked
    <3> DEFINE to == IF op = "liquidate" THEN "liquidator" ELSE "moolah"
               tokens == IF op = "liquidate" THEN {req.ask.token} ELSE {}
    <3>2. e = Pulling(to, tokens)
      BY <2>1, <2>6 DEF Emitted, LiquidateSteps, MoolahCallSteps, Pulling, Calling,
         MarketOps, SmartOps, VaultOps, BrokerOps
    <3>3. /\ e.to = to /\ e.approves = tokens \X {e.to} /\ e.value = FALSE
          /\ e.market = "none"
      BY <3>2 DEF Pulling, Route
    <3>4. Pulled(Net, op, chain.on, to) = tokens /\ TakesValue(Net, op, to) = FALSE
      BY <2>6, <3>1 DEF Pulled, TakesValue
    <3> HIDE DEF to, tokens, e
    <3>5. Takes(Net, op, chain.on, e)
      BY <2>6, <3>3, <3>4 DEF Takes, SmartOps, VaultOps
    <3> QED
      BY <3>3, <3>4, <3>5
  <2>7. ASSUME chain.about # "broker", Sound PROVE fits \/ wraps \/ Differs
    BY <2>3, <2>4, <2>5, <2>6, <2>7 DEF OpsOf
  <2>8. /\ Subject' = on /\ Differs' = Differs
        /\ wraps => WrapsNothing'
    BY <1>3, <2>2 DEF Subject, Differs, WrapsNothing
  <2> HIDE DEF on, wraps
  <2>9. Matched'
    BY <1>3, <2>2, <2>7, <2>8 DEF Matched, Excused
  <2> QED
    BY <1>3, <2>9 DEF Matching, Coins, InHand, Configured, LandsUnlessMoved
<1> QED
  BY <1>2, <1>3

LEMMA LandMatching ==
  ASSUME FInv, Matching, Land
  PROVE  Matching'
<1>1. /\ chain' = chain /\ req.phase = "built"
      /\ req'.phase = IF /\ Serves
                         /\ \/ chain.about = "broker"
                            \/ Takes(Net, req.ask.op, Subject, req.route)
                      THEN "landed" ELSE "bounced"
      /\ req'.ask = req.ask /\ req'.late = req.late /\ req'.mid = req.mid
      /\ req'.stale = req.stale /\ req'.route = req.route
  BY DEF Land, FInv, RInv, IInv, Shaped, Fields
<1>2. /\ Sound' = Sound /\ Subject' = Subject /\ Excused' = Excused /\ Net' = Net
  BY <1>1 DEF Sound, Subject, Excused, Differs, WrapsNothing, Net
<1>3. Matched'
  BY <1>1, <1>2 DEF Matching, Matched, Steps
<1>4. LandsUnlessMoved'
  <2> SUFFICES ASSUME req'.phase = "bounced", Sound, ~req.late, ~Excused,
                      ~req.ask.unlisted, ~req.ask.routed
               PROVE  FALSE
    BY <1>1, <1>2 DEF LandsUnlessMoved, Excused, Differs, PoolMayDiffer, WrapsNothing
  <2>1. chain.about = "broker" \/ Takes(Net, req.ask.op, Subject, req.route)
    BY <1>1 DEF Matching, Matched, Steps
  <2>2. Serves
    <3>1. CASE chain.about = "liquidation"
      BY <1>1, <3>1 DEF FInv, Fitted, Asked, Serves
    <3>2. CASE chain.about # "liquidation"
      BY <1>1, <3>2 DEF FInv, RInv, ConfigNeverRoutes, Steps
    <3> QED
      BY <3>1, <3>2
  <2> QED
    BY <1>1, <2>1, <2>2
<1> QED
  BY <1>1, <1>3, <1>4 DEF Matching, Coins, InHand, Configured

LEMMA NextMatching ==
  ASSUME NativeIsForItsCoin, FInv, Matching, [Next]_vars
  PROVE  Matching'
<1>1. CASE ReadElsewhere \/ ReadConfig \/ UNCHANGED vars
  <2>1. chain' = chain /\ req' = req
    BY <1>1 DEF ReadElsewhere, ReadConfig, vars
  <2> QED
    BY <2>1 DEF Matching, Coins, InHand, IsNative, Net, Matched, Sound, Subject, Excused,
       Differs, WrapsNothing, LandsUnlessMoved, PoolMayDiffer
<1>2. CASE Move
  BY <1>2, MoveMatching
<1>3. ASSUME NEW r \in Request, NEW c \in ChainIds, Call(r, c)
      PROVE  Matching'
  <2>1. req'.phase \in {"called", "refused"}
    BY <1>3 DEF Call, FInv, RInv, IInv, Shaped, Fields
  <2> QED
    BY <2>1, NoSteps
<1>4. CASE ResolveConfig
  <2>1. req'.phase \in {"configured", "refused"}
    BY <1>4 DEF ResolveConfig, Refuse, FInv, RInv, IInv, Shaped, Fields
  <2> QED
    BY <2>1, NoSteps
<1>5. CASE VaultProviderFails \/ NodeFails
  <2>1. req'.phase = "unreachable"
    BY <1>5 DEF VaultProviderFails, NodeFails, IsContractLevelFailure, ContractErrors,
       TransportErrors, FInv, RInv, IInv, Shaped, Fields
  <2> QED
    BY <2>1, NoSteps
<1> QED
  BY <1>1, <1>2, <1>3, <1>4, <1>5, ResolveMatching, PairMatching, AskedMatching,
     BuildMatching, LandMatching DEF Next

LEMMA MatchingInvariance ==
  ASSUME NativeIsForItsCoin
  PROVE  Spec => []MInv
<1>1. Init => MInv
  BY InitFInv, InitMatching DEF MInv
<1>2. MInv /\ [Next]_vars => MInv'
  BY NextFInv, NextMatching DEF MInv
<1> QED
  BY <1>1, <1>2, PTL DEF Spec

(* What a builder returns from a sound config lands, on every network and  *)
(* for every registration, unless one moved after the builder looked.      *)
THEOREM LandingSafe ==
  ASSUME NativeIsForItsCoin
  PROVE  Spec => []LandsUnlessMoved
<1>1. MInv => LandsUnlessMoved
  BY DEF MInv, Matching
<1> QED
  BY <1>1, MatchingInvariance, PTL

(* It approves nothing that the call it is for does not spend.             *)
THEOREM NothingIdleSafe ==
  ASSUME NativeIsForItsCoin
  PROVE  Spec => []NothingIdleApproved
<1>1. MInv => NothingIdleApproved
  BY DEF MInv, Matching, Matched, NothingIdleApproved, Excused, Differs, PoolMayDiffer
<1> QED
  BY <1>1, MatchingInvariance, PTL
=============================================================================
