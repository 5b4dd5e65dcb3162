------------------------------- MODULE Facade -------------------------------
(***************************************************************************)
(* The MoolahSDK class (MoolahSDK.ts) between an integrator and a chain    *)
(* whose registrations move: it finds a client for the chain asked for,    *)
(* derives or checks the config, lets the builder resolve what it must,    *)
(* and returns steps; the integrator sends them later.                     *)
(*                                                                         *)
(* Every read is a step of its own, so a registration may move between any *)
(* two, and any read may meet a node that does not answer.  The reads that *)
(* only size an amount are left out: all they can do here is fail.         *)
(***************************************************************************)
EXTENDS Routes, Naturals

CONSTANTS
  World,        \* what may be registered: a network, a subject, its contracts
  Request,      \* the requests made of the SDK
  SdkConfig,    \* the constructor's rpcUrls and publicClients
  MaxMoves      \* bound on how often a registration changes

(* CHAIN_ID_TO_NETWORK.                                                    *)
NetworkOf == [c \in {"56", "1"} |-> IF c = "56" THEN "bsc" ELSE "ethereum"]
ChainIds  == DOMAIN NetworkOf \cup {"97"}

(* What the methods act on, and what the types of a config promise.        *)
OpsOf == [market |-> MarketOps \cup {"flashLoan"}, smart |-> SmartOps,
          vault |-> VaultOps, broker |-> BrokerOps, liquidation |-> {"liquidate"}]

Providing == {"kind", "market", "loan", "loanProvider", "collProvider",
              "loanIsNative"}
ConfigFields ==
  [market |-> Providing \cup {"coll", "collIsNative"},
   smart  |-> Providing \cup {"a", "b", "lp", "aIsNative", "bIsNative"},
   vault  |-> {"kind", "asset", "provider", "isNative"}]

(* What is registered has an address, or there is none.                    *)
ASSUME FacadeAssumption ==
  /\ \A w \in World :
       /\ w.net \in Networks
       /\ w.about \in {"market", "smart"} => w.on \in Markets
       /\ w.about = "vault" => w.on \in Vaults
       /\ \A k \in Markets : {"noView", NativeToken} \cap
                             {w.provider[k].loan, w.provider[k].coll} = {}
       /\ \A k \in Vaults : w.vault[k] # NativeToken
       /\ {w.lists.open, w.lists.market, w.lists.borrower, w.lists.allowed}
            \subseteq BOOLEAN
  /\ \A c \in SdkConfig : c.own \subseteq ChainIds /\ c.own \cup DOMAIN c.rpc # {}
  /\ MaxMoves \in Nat

ASSUME RequestAssumption ==
  \A r \in Request :
    /\ r.about \in DOMAIN OpsOf /\ r.op \in OpsOf[r.about]
    /\ r.given \in {"none", "held", "forged"}
    /\ r.given = "forged" =>
         /\ r.about \in DOMAIN ConfigFields
         /\ ConfigFields[r.about] \subseteq DOMAIN r.config
         /\ r.config.kind = r.about
         /\ r.about # "vault" => r.config.market \in Markets

VARIABLES
  chain,      \* the world the request is about
  moves,      \* how often it changed
  sdk,        \* the SDK's configuration and the clients it has made
  held,       \* a config the integrator read earlier and kept
  req         \* the request in hand

vars == <<chain, moves, sdk, held, req>>

Nothing == [kind |-> "none"]

Net  == chain.net
Here == CHOOSE c \in DOMAIN NetworkOf : NetworkOf[c] = Net

Steps == {"built", "landed", "bounced"}

TypeOK ==
  /\ moves \in 0..MaxMoves
  /\ \A c \in DOMAIN sdk.clients : c \in ChainIds /\ sdk.clients[c].own \in BOOLEAN
  /\ held.kind \in {"none", "market", "smart", "vault"}
  /\ req.phase \in {"idle", "called", "configured", "pairing", "resolved",
                    "refused", "unreachable"} \cup Steps
  /\ req.phase \in Steps => req.route.to \notin {"zero", "noView", NativeToken}
  /\ {req.mid, req.late, req.lost, req.stale} \subseteq BOOLEAN

(* The caller's clients are in the cache from the start.                   *)
Construct(c) == [own |-> c.own, rpc |-> c.rpc,
                 clients |-> [i \in c.own |-> [chainId |-> i, own |-> TRUE]]]

Idle == [phase |-> "idle", why |-> "none", ask |-> Nothing, config |-> Nothing,
         client |-> Nothing, route |-> Calling("none"),
         stale |-> FALSE,   \* a registration moved since held was read
         mid   |-> FALSE,   \* ... between the config and the resolution
         late  |-> FALSE,   \* ... since the resolution
         lost  |-> FALSE]   \* a read of this request was not answered

Init ==
  /\ chain \in World
  /\ moves = 0
  /\ \E c \in SdkConfig : sdk = Construct(c)
  /\ held = Nothing
  /\ req = Idle
-----------------------------------------------------------------------------
(* Clients.                                                                *)

(* rpcUrls for the chain, the blank ones dropped.                          *)
GetRpcUrls(c) == IF c \in DOMAIN sdk.rpc THEN sdk.rpc[c] \ {"blank"} ELSE {}

CanReach(c) ==
  \/ c \in DOMAIN sdk.clients
  \/ c \in DOMAIN NetworkOf /\ GetRpcUrls(c) # {}

(* Variant: one client serves them all.                                    *)
FirstClientMade(c) ==
  IF sdk.clients = <<>> THEN [chainId |-> c, own |-> FALSE]
  ELSE sdk.clients[CHOOSE i \in DOMAIN sdk.clients : TRUE]

GetPublicClient(c) ==
  IF c \in DOMAIN sdk.clients THEN sdk.clients[c]
  ELSE [chainId |-> c, own |-> FALSE]

Cached(c) ==
  [sdk EXCEPT !.clients = [i \in DOMAIN @ \cup {c} |->
                             IF i = c THEN GetPublicClient(c) ELSE @[i]]]

(* Any read on another chain; some need no network, only a client.         *)
ReadElsewhere ==
  /\ req.phase = "idle"
  /\ \E c \in ChainIds \ {Here} :
       /\ CanReach(c) /\ c \notin DOMAIN sdk.clients
       /\ sdk' = Cached(c)
  /\ UNCHANGED <<chain, moves, held, req>>
-----------------------------------------------------------------------------
(* The world: a registration becomes another one of the same subject.      *)

(* The builder has read what it goes by.                                   *)
Looked ==
  \/ req.phase \in {"pairing", "resolved", "built"}
  \/ req.phase = "configured" /\ chain.about = "liquidation"

Move ==
  /\ moves < MaxMoves
  /\ req.phase \in {"idle", "called", "configured", "pairing", "resolved", "built"}
  /\ \E w \in World \ {chain} :
       /\ w.net = Net /\ w.about = chain.about /\ w.on = chain.on
       /\ chain' = w
  /\ moves' = moves + 1
  /\ req' = [req EXCEPT
       !.stale = @ \/ held # Nothing \/ req.phase = "called",
       !.mid   = @ \/ req.phase = "configured",
       !.late  = @ \/ Looked]
  /\ UNCHANGED <<sdk, held>>
-----------------------------------------------------------------------------
(* Reading a config and keeping it.                                        *)

Derives ==
  CASE chain.about = "market" -> TRUE
    [] chain.about = "smart"  -> HasPair(chain, chain.on)
    [] chain.about = "vault"  -> chain.vault[chain.on] # "noView"
    [] OTHER -> FALSE

Derived ==
  CASE chain.about = "market" -> GetWriteConfig(Net, chain, chain.on)
    [] chain.about = "smart"  -> GetSmartMarketExtraInfo(Net, chain, chain.on)
    [] chain.about = "vault"  -> GetVaultInfo(Net, chain, chain.on)

ReadConfig ==
  /\ req.phase = "idle" /\ held = Nothing
  /\ CanReach(Here) /\ Derives
  /\ held' = Derived
  /\ sdk' = Cached(Here)
  /\ UNCHANGED <<chain, moves, req>>
-----------------------------------------------------------------------------
(* The build methods.                                                      *)

Refuse(why) == req' = [req EXCEPT !.phase = "refused", !.why = why]

Supplied(r) ==
  CASE r.given = "none" -> Nothing [] r.given = "held" -> held
    [] r.given = "forged" -> r.config

(* getNetwork and getPublicClient come first.  A config that was read is   *)
(* handed over, or the request goes without one from the start.            *)
Call(r, c) ==
  /\ req.phase = "idle"
  /\ r.about = chain.about /\ (r.given = "held" <=> held # Nothing)
  /\ LET served == c \in DOMAIN NetworkOf /\ CanReach(c) IN
     /\ c = Here \/ ~served
     /\ req' = [req EXCEPT !.phase = IF served THEN "called" ELSE "refused",
                           !.why = IF served THEN "none" ELSE "chain",
                           !.ask = r, !.config = Supplied(r),
                           !.client = IF served THEN GetPublicClient(c) ELSE Nothing]
     /\ sdk' = IF served THEN Cached(c) ELSE sdk
  /\ held' = Nothing
  /\ UNCHANGED <<chain, moves>>

(* What a supplied config must pass.  Migration binds the market and knows *)
(* no trustedConfig.                                                       *)
Checked(config) ==
  IF req.ask.op = "migrateToFixedTerm" THEN config.market = chain.on
  ELSE \/ req.ask.trusted
       \/ CASE chain.about = "market" ->
                 AssertMarketConfigMatchesMarket(chain.on, config)
            [] chain.about = "smart" ->
                 /\ AssertMarketConfigMatchesMarket(chain.on, config)
                 /\ AssertSmartConfigTokens(chain, config)
            [] chain.about = "vault" -> AssertVaultConfigAsset(chain.on, config)

(* resolveMarketConfig, resolveSmartConfig, resolveVaultConfig.            *)
ResolveConfig ==
  /\ req.phase = "called" /\ chain.about \in {"market", "smart", "vault"}
  /\ req.ask.op # "flashLoan"
  /\ IF req.ask.given = "none"
     THEN IF Derives
          THEN req' = [req EXCEPT !.phase = "configured", !.config = Derived]
          ELSE Refuse("derive")
     ELSE IF Checked(req.config)
          THEN req' = [req EXCEPT !.phase = "configured"]
          ELSE Refuse("config")
  /\ UNCHANGED <<chain, moves, sdk, held>>

(* What a builder resolves before it emits anything.                       *)
Resolve ==
  /\ req.phase = "configured" /\ chain.about \in {"market", "smart", "vault"}
  /\ LET config ==
           IF req.ask.op \in Unresolved THEN req.config
           ELSE IF chain.about = "vault"
           THEN WithResolvedVaultProvider(Net, chain, chain.on, req.config)
           ELSE WithResolvedProviders(Net, chain, req.config) IN
     IF chain.about = "smart" /\ config.collProvider = "zero"
     THEN Refuse("provider")
     ELSE req' = [req EXCEPT !.config = config,
            !.phase = IF chain.about = "smart" THEN "pairing" ELSE "resolved"]
  /\ UNCHANGED <<chain, moves, sdk, held>>

(* The pair of the provider just resolved: it answers, or the read fails.  *)
ResolvePair ==
  /\ req.phase = "pairing" /\ req.config.collProvider \in DOMAIN Pool
  /\ req' = [req EXCEPT !.phase = "resolved", !.config = WithResolvedPair(@)]
  /\ UNCHANGED <<chain, moves, sdk, held>>

PairFails ==
  /\ req.phase = "pairing"
  /\ \E e \in TransportErrors \cup
             (IF req.config.collProvider \in DOMAIN Pool THEN {} ELSE ContractErrors) :
       req' = [req EXCEPT
         !.phase = IF IsContractLevelFailure(e) THEN "resolved" ELSE "unreachable",
         !.config = [@ EXCEPT !.aIsNative = FALSE, !.bIsNative = FALSE],
         !.lost = e \in TransportErrors]
  /\ UNCHANGED <<chain, moves, sdk, held>>

(* vault.provider() has a catch of the same kind.                          *)
VaultProviderFails ==
  /\ req.phase = "configured" /\ chain.about = "vault"
  /\ \E e \in TransportErrors :
       req' = [req EXCEPT
         !.phase = IF IsContractLevelFailure(e) THEN "resolved" ELSE "unreachable",
         !.config = [@ EXCEPT !.provider = "zero", !.isNative = FALSE],
         !.lost = TRUE]
  /\ UNCHANGED <<chain, moves, sdk, held>>

(* Every other read has no catch.                                          *)
NodeFails ==
  /\ \/ req.phase \in {"called", "resolved"}
     \/ req.phase = "configured" /\ chain.about # "vault"
  /\ req' = [req EXCEPT !.phase = "unreachable", !.lost = TRUE]
  /\ UNCHANGED <<chain, moves, sdk, held>>

(* A broker is asked who it is, then Moolah is asked who the broker is.    *)
AskBroker ==
  /\ req.phase = "called" /\ chain.about = "broker"
  /\ IF /\ req.ask.op = "brokerRepayAll"
        /\ ~req.ask.paysNative /\ req.ask.token = "none"
     THEN Refuse("arguments")
     ELSE IF ClaimsThisMoolah(req.ask.broker)
     THEN req' = [req EXCEPT !.phase = "configured"]
     ELSE Refuse("broker")
  /\ UNCHANGED <<chain, moves, sdk, held>>

AskMoolah ==
  /\ req.phase = "configured" /\ chain.about = "broker"
  /\ IF BrokerIsRegistered(chain, req.ask.broker, req.ask.expected)
     THEN req' = [req EXCEPT !.phase = "resolved"]
     ELSE Refuse("broker")
  /\ UNCHANGED <<chain, moves, sdk, held>>

(* The liquidator's gates, then the market's own loan token.               *)
AskLists ==
  /\ req.phase = "called" /\ chain.about = "liquidation"
  /\ IF req.ask.unlisted \/ IsLiquidationMarketEnabled(chain.lists)
     THEN req' = [req EXCEPT !.phase = "configured"]
     ELSE Refuse("unlisted")
  /\ UNCHANGED <<chain, moves, sdk, held>>

AskLoanToken ==
  /\ req.phase = "configured" /\ chain.about = "liquidation"
  /\ IF req.ask.token = Params[chain.on].loan
     THEN req' = [req EXCEPT !.phase = "resolved"]
     ELSE Refuse("token")
  /\ UNCHANGED <<chain, moves, sdk, held>>

(* buildFlashLoanParams asks nothing.                                      *)
FlashLoan ==
  /\ req.phase = "called" /\ req.ask.op = "flashLoan"
  /\ req' = [req EXCEPT !.phase = "resolved"]
  /\ UNCHANGED <<chain, moves, sdk, held>>

(* Allowances are read, and the steps returned.                            *)
Build ==
  /\ req.phase = "resolved"
  /\ LET about == [op |-> req.ask.op, on |-> chain.on, config |-> req.config,
                   broker |-> req.ask.broker, token |-> req.ask.token,
                   paysNative |-> req.ask.paysNative]
         route == Emitted(Net, about) IN
     IF req.ask.op = "vaultMint" /\ VaultMintRefuses(req.config, req.ask.routed)
     THEN Refuse("mint")
     ELSE IF PaysNobody(route) \/ ~AllowanceReadable(route)
     THEN Refuse("route")
     ELSE req' = [req EXCEPT !.phase = "built", !.route = route]
  /\ UNCHANGED <<chain, moves, sdk, held>>

(* The market the call is about: the config's, or the one named.           *)
Subject == IF req.route.market = "none" THEN chain.on ELSE req.route.market

Serves ==
  CASE chain.about = "broker" ->
         chain.broker[Claims[req.route.to].market] = req.route.to
    [] chain.about = "liquidation" -> GatesOpen(chain.lists)
    [] OTHER -> req.route.to = Registered(chain, req.ask.op, Subject)

Land ==
  /\ req.phase = "built"
  /\ req' = [req EXCEPT !.phase =
       IF Serves /\ (chain.about = "broker" \/ Takes(Net, req.ask.op, Subject, req.route))
       THEN "landed" ELSE "bounced"]
  /\ UNCHANGED <<chain, moves, sdk, held>>

Next ==
  \/ ReadElsewhere \/ Move \/ ReadConfig
  \/ \E r \in Request, c \in ChainIds : Call(r, c)
  \/ ResolveConfig \/ Resolve \/ ResolvePair \/ PairFails
  \/ VaultProviderFails \/ NodeFails
  \/ AskBroker \/ AskMoolah \/ AskLists \/ AskLoanToken \/ FlashLoan
  \/ Build \/ Land

Spec == Init /\ [][Next]_vars
-----------------------------------------------------------------------------
(* Properties.                                                             *)

(* A config is sound that the SDK derived itself, or that it checked.      *)
Sound == req.ask.given # "forged" \/ ~req.ask.trusted

(* A Smart config names its pool's tokens, which belong to one provider:   *)
(* one read before a move and not checked after it names another pool's.   *)
PoolMayDiffer ==
  /\ chain.about = "smart"
  /\ req.mid \/ (req.ask.trusted /\ req.stale)

(* Where the address book has no wrapped coin, the plain market's repay    *)
(* and the vault's builders take the ERC-20 path into a native provider.   *)
WrapsNothing ==
  /\ Wbnb(Net) = "zero" /\ req.route.to = NativeProvider(Net)
  /\ req.ask.op \in {"repay"} \cup VaultOps

(* No config decides where a call or an approval goes, not even a trusted  *)
(* one: it is the contract registered for the encoded market when the      *)
(* builder resolved it (configTrust.ts: "the config's copy is not          *)
(* load-bearing and cannot be").                                           *)
ConfigNeverRoutes ==
  req.phase \in Steps =>
    /\ \A a \in req.route.approves : a[2] = req.route.to
    /\ req.late \/ chain.about = "liquidation" \/ Serves

(* Value is only ever attached to a call whose target takes it, however    *)
(* stale or forged the config's native flags (resolveProviders.ts:25-42).  *)
(* What a broker is paid in is the caller's word and left out.             *)
ValueIsTaken ==
  req.phase \in Steps /\ req.route.value /\ chain.about # "broker"
    => TakesValue(Net, req.ask.op, req.route.to)

(* A call built from a sound config lands, unless a registration moved     *)
(* after the builder looked, or for a reason named above, or the caller    *)
(* asked to go ahead regardless.                                           *)
LandsUnlessMoved ==
  req.phase = "bounced" /\ Sound =>
    \/ req.late \/ PoolMayDiffer \/ WrapsNothing
    \/ req.ask.unlisted \/ req.ask.routed

(* Nothing is approved that the call cannot spend: each approval is of a   *)
(* token the target pulls in the market it is called for.                  *)
NothingIdleApproved ==
  req.phase \in Steps /\ Sound /\ chain.about # "broker" =>
    \/ req.route.approves \subseteq
         Pulled(Net, req.ask.op, Subject, req.route.to) \X {req.route.to}
    \/ PoolMayDiffer \/ WrapsNothing

(* A build one of whose reads was not answered returns no steps: silence   *)
(* is not taken for a contract's no (rpcErrors.ts).                        *)
SilenceBuildsNothing == req.lost => req.phase = "unreachable"

(* A config the SDK returned may be handed back however long it was kept:  *)
(* a plain one and a vault's are always taken; a Smart one is turned down  *)
(* after a move, or when its loan is native, for then the SDK named the    *)
(* sentinel as the loan token and its own check compares it with params.   *)
OwnConfigAccepted ==
  req.phase = "refused" /\ req.why = "config" /\ req.ask.given = "held" =>
    chain.about = "smart" /\ (req.stale \/ req.config.loan = NativeToken)

(* Unless the caller vouched for the config, the encoded market is the one *)
(* that was named; migration never takes his word.                         *)
NamedMarketOnly ==
  req.phase \in Steps =>
    \/ Subject = chain.on
    \/ req.ask.trusted /\ req.ask.op # "migrateToFixedTerm"

(* A request reads through the client of its own chain: the caller's if he *)
(* gave one, whatever else the SDK has read before.                        *)
ClientOfTheChain ==
  req.client # Nothing => req.client = [chainId |-> Here, own |-> Here \in sdk.own]
=============================================================================
