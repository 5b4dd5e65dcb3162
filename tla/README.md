# A TLA+ model of the Lista lending SDK

The repository is a TypeScript SDK for Lista's lending protocol (a Morpho-Blue
derivative called Moolah). It never holds keys and never sends a transaction: a
*builder* reads the chain and returns an ordered list of steps, and the caller's
loop sends them. What makes it hard is everything between those two moments. The
state a builder read is stale when its transactions land, a sequence is not
atomic, receipts lie or never come, and each sequence leaves something durable
behind on chain (an allowance, an authorization) that has to be brought back.

This directory models that part: where a build gets its addresses from and whom
its steps go to, what the builders ask for, how their steps are executed and
undone, how a repayment is priced, how authorizations are granted, signed,
cancelled and undone; and the other half of the SDK, the figures it shows of a
position or a loan, held against what the chain makes of an operation chosen by
them.

## 1. Inventory of the system

Paths are relative to `packages/`; `lending` is `moolah-lending-sdk/src`, `core`
is `moolah-sdk-core/src`.

| component | state | operations | interacts with | hard behaviour | what makes it correct |
|---|---|---|---|---|---|
| approval steps (`lending/builders/approve.ts`, `utils.ts`, `types.ts`) | none of its own; reads `allowance` | `buildApproveSteps`, `buildClearAllowanceStep`, `priorAllowanceOf`, `finalizeSteps` | every ERC-20 pulling builder splices them around its call | the read is stale when the steps land; USDT-like tokens refuse non-zero to non-zero | the allowance ends where it was found; no approve is refused; the spender is exposed to one ceiling at most |
| share pricing (`builders/sharePricing.ts`, mint buffer in `vault.ts`) | reads a market's or vault's totals | `supplySharesToAssetCeiling`, `sharesToAssetCeiling`, `previewMint` buffer | repay, Smart repay, moolahSupply, mint, migration | un-accrued totals, virtual shares, rounding of tiny amounts | the ceiling covers what the call pulls until more interest has accrued than was added |
| builders that pull tokens (`market.ts`, `smart.ts`, `vault.ts`, `broker.ts`, `liquidation.ts`) | none | supply, supplyDexLp, two-token supply, deposit, moolahSupply, repay (assets, shares, all), Smart repay, broker repay and repayAll, liquidate, mint | approve, pricing, provider resolution | native or ERC-20 path; two reads at different moments; reclaim or not | as above, per builder |
| builders that pull nothing (same files) | none | borrow, withdraw, redeem, broker borrow, convert, refinance, flash loan | provider resolution | one call on a snapshot | the call is addressed to the contract that serves the market |
| execution contract (`/README.md`, loop of `/scripts/fork-flows.mjs`) | position in the list, receipts, undo position | send, wait, catch and run `meta.reversalSteps`, rethrow | wallet, mempool, chain, other sequences | timeouts, reverted receipts, throwing sends, crashes, overlap | nothing durable is left; nobody is exposed beyond what was asked |
| repayment pricing (`read/market/getMarketUserData.ts`, `MoolahSDK.buildRepayParams`) | a snapshot of market and position | `_getExtraRepayAmount`, repay sizing | market builder | interest between quote and inclusion; others repay for the borrower | a repay-all that settles clears the debt; only unseen interest starves it |
| authorization (`builders/authorization.ts`, `authorizationSig.ts`) | on chain: `isAuthorized`, `nonce`; off chain: signatures in anybody's hands | set, revoke, typed data, submit with signature, read nonce, cancel | Moolah, relayers | bearer signatures, nonce order, a revoke that does not consume a nonce, answers on stale reads | a cancelled grant never lands; grants expire; none outside the address book |
| migration to a fixed term (`buildMigrateToFixedTermSteps`) | snapshot of grant, target, price | grant (with its revoke as reversal), migrate | authorization, PositionManager, target market | grant lands, migration reverts | no orphan grant; never sent against a market known to be short |
| provider resolution (`resolveProviders.ts`) | none; reads `Moolah.providers`, `vault.provider()` | `withResolvedProviders`, `withResolvedVaultProvider` | every builder | provider migration, zero provider, non-conforming Smart provider, transport failures | spender and call target agree; value never goes to the zero address |
| config trust (`configTrust.ts`) | none | `assertMarketConfigMatchesMarket`, `assertSmartConfigTokens`, `assertVaultConfigAsset` | facade, API configs | forged or stale configs | the approved token is the pulled token |
| facade (`MoolahSDK.ts`) | client cache per chain | one method per builder and read | everything | defaulting of `userData`, `onBehalf`, `trustedConfig` | a sequence is built for the market and the account named |
| RPC failures (`rpcErrors.ts`, `read/shared/irm.ts`) | none | classify, optional reads | reads | a timeout taken for a revert | an unreachable node is never evidence |
| reads (`lending/read`, `core/read/helpers`) | none | market, Smart, vault, broker, IRM, ERC-20 | builders, facade | snapshots of several blocks combined, the local clock | what is advised is not refused |
| position, interest, liquidation arithmetic (`core/calculations`) | none | LTV, loanable, rates, incentive | reads, simulate | rounding, two copies (Decimal and bigint), Taylor expansion | the copies agree; none rounds in the account's favour |
| fixed-term loans (`calculations/loan.ts`) | none | interest, penalty, repayment quote | broker reads and builders | settled windows, boundary dates, a quote held while time passes | no window charged twice; a quote clears the loan |
| stable pool (`calculations/stablepool.ts`) | none | D, y, amounts in and out | Smart reads, simulate | Newton iterations that may not converge | never better than the pool gives |
| simulation (`core/simulate`) | none | market, Smart and vault operations on a snapshot | callers | agreement with execution | simulated equals executed |
| decimals (`utils/decimal.ts`, `fraction.ts`) | none | scale-aligned arithmetic, rounding | everything | implicit truncation | rounding in the stated direction |
| API client (`core/api/client.ts`) | none | HTTP requests | facade | error envelopes | an error is never data |
| tables, ABIs, display, zones, chains | none | lookups, formatting | everything | none | none |

Which of these are modelled is in section 6.

## 2. Modules

| module | stands for | uses |
|---|---|---|
| `Approvals` | approve.ts, step lists | none |
| `SharePricing` | ceilings and buffers | none |
| `Builders` | what each token-pulling builder asks, and whether it reclaims | Approvals, SharePricing |
| `Execution` | builders, loops, mempool and chain together | Builders |
| `ScopedAllowance` | the abstract promise: a sequence borrows an allowance | none |
| `ExecutionScope` | refinement mapping from Execution to ScopedAllowance | Execution, INSTANCE ScopedAllowance |
| `RepayPricing` | one repayment, priced and included | SharePricing |
| `Authorization` | grants, signatures, cancellation | none |
| `Migration` | the migration builder and its loop beside `Authorization` | Authorization |
| `Providers` | registrations, configs derived from them, config trust, resolution, RPC failures | none |
| `Routes` | what each builder emits: target, approvals, value, market; and what the contracts take | Providers |
| `Facade` | the SDK class between an integrator and registrations that move | Routes |
| `Decimals` | the SDK's scaled integers | none |
| `Positions` | figures and simulations of a market and a vault, and the bigint copy | Decimals |
| `SmartPositions` | the same of a Smart market | Positions |
| `Advice` | an account that reads, simulates and sends, beside Moolah's accounting | SmartPositions |
| `FixedLoan` | what loans at the broker cost | Decimals |
| `LoanQuotes` | an account whose loan is quoted and repaid later, beside the broker | FixedLoan |
| `Figures` | the two together | Advice, LoanQuotes |
| `MCExecution`, `MCRepayPricing`, `MCAuthorization`, `MCMigration`, `MCFacade`, `MCFigures` | values of the constants | the module they name |
| `ExecutionProofs`, `TurnsProofs`, `ScopeProofs` | proofs about plans and any sequences of them; those that take turns; those that borrow an allowance | Execution; each other; ExecutionScope |
| `GrantProofs` | proofs about grants, alone and beside a migration | Migration |
| `FacadeProofs` | proofs about requests | Facade |
| `RepayProofs` | proofs about the price of a repayment | RepayPricing |
| `DecimalProofs` | proofs about quotients, Decimals, powers and sums | FixedLoan |
| `FiguresProofs` | proofs about the broker's loans, their quotes and totals; about positions | Figures, DecimalProofs |

### How state and actions correspond to the code

**Execution.** A *session* is one builder call followed by the loop over its
steps. `Price` is the builder's first read (the market, vault or position;
`amount` is the `approveAmount` it decides on) and `Build` the second
(`publicClient.readContract(allowance)` in `buildApproveSteps`) together with the
synchronous splice that follows. They are two actions because an `await` separates
them. `Send`, `Confirm`, `Catch` (in its three forms `SendThrows`,
`RevertedThrows`, `WaitTimesOut`), `SendUndo`, `NextUndone` and `Rethrow` are the
lines of README.md's loop, one action per `await`: `undo` is the position in its
two nested `for`s, `InSlice` its `steps.slice(0, step.index)`. `ChecksReceipt` and
`UndoesOnError` select the loop: README.md's is (FALSE, TRUE); that of
`scripts/fork-flows.mjs` is (TRUE, FALSE). `mempool` is the wallet's pending
transactions in nonce order; the `Mine…` actions are the token, the protocol and
the node, external. `standing` and `found` are history: what the owner granted
for keeps, and what a builder read.

`waits` is the owner's discipline, not the SDK's: a request that waits is started
only when no other sequence is in progress on its allowance. Only where sequences
overlap does a USDT-like token refuse an approve (`MineBouncedApprove`).

What a step keeps of `StepParam` is kind, slot, amount, `observedState.allowance`,
the amounts of `meta.reversalSteps`, and `index`. Every reversal of an approve is
an approve of the same slot, so amounts are enough. A *slot* is a (token, spender)
pair of one owner; the provider that is the spender is resolved by the builder and
fixed here (`SlotOf`).

**RepayPricing.** The market contract stores totals and folds interest in only
when touched (`unfolded`). `QuoteShares` reads the stored totals
(`sharesToAssetCeiling`), `QuoteAll` uses totals with the interest of the time
since, plus twenty minutes more, rounded down (`_getExtraRepayAmount().roundDown`).
The facade asks for the market first (`ReadMarket`) and then for the position, whose
figure it computes in the totals it already has (`Seen`), with what its clock adds
for the time between (`told`, nothing up to all that was earned). `Elapse` and the
`Others…` actions come between the two reads and between quote and `Include`.
Interest is the number of units the whole market earned.

**Authorization.** `BuildSetAuthorizationSteps` and `BuildRevokeAuthorizationSteps`
are a builder and its transaction together: their builders read nothing, so there
is nothing to go stale. `Sign` is `buildAuthorizationTypedData` and the wallet's
signature; `SignElsewhere` a signature that did not come from this SDK; submission
goes through `buildSetAuthorizationWithSigSteps` and what the contract rejects
changes nothing. The cancel builder is two actions, `AskCancel` (the nonce read)
and `AnswerCancel`.

**Migration.** `ReadGrant` and `ReadTarget` are the `Promise.all` of three reads (a
market and its broker are read together, as only the market's totals move), in any
order; the price of a share-denominated debt is read last. `Send`, `Confirm`,
`Throws` and `Undo` are the loop: a wallet may refuse a step or the undo, a wait may
give up on a transaction (`tx`) that lands later, and the undo is sent but not waited
for. `mig.checks` selects the loop: README.md's takes any receipt for a success, the
other throws on a reverted one (as `scripts/fork-flows.mjs` does, which undoes
nothing); the run has both. The account's
transactions are mined in the order sent (`GrantLands`, `GrantReverts`, `Migrate`,
`MigrateReverts`, `UndoLands`, external), and the PositionManager may refuse for
reasons of its own. `ours` is history: the grant in force is the one this loop made.

**Facade, Routes, Providers.** `chain` is everything the request is about: the
providers of the three markets, of the vaults, the registered brokers, the
liquidator's lists. `Move` replaces a registration by another of the same subject,
between any two reads. `Call` is the synchronous start of a build method
(`getNetwork`, `getPublicClient`, the cached client); `ResolveConfig` is
`resolveMarketConfig` and its Smart and vault siblings, deriving a config or
checking a supplied one; `Resolve` and `ResolvePair` are the two halves of
`withResolvedProviders` (the providers, then the pool of the provider just
found), two actions because an `await` separates them; `Build` reads the allowance
and returns the steps; `Land` is the transaction. `PairFails`,
`VaultProviderFails` and `NodeFails` are reads that fail: the first two have a
`catch` that asks `isContractLevelFailure`, the rest have none. Brokers and the
liquidator have reads of their own (`AskBroker` then `AskMoolah`, `AskLists` then
`AskLoanToken`). A *route* is what is left of the steps: target, approvals
(token, spender), whether value is attached, and the market that is encoded.
Addresses are names. `TakesValue`, `Pulled` and `Takes` at the end of `Routes`
are the contracts, external. `stale`, `mid`, `late` and `lost` are history: when
a registration moved, and whether a read was not answered.

**Decimals, Positions, SmartPositions, Advice.** A Decimal is an integer and a
number of digits; `Over` keeps the digits of both operands and truncates, as
`decimal.ts` does. `Positions` has both copies of the arithmetic: the Decimal one
of `getMarketUserData` and `simulate/market.ts`, and the bigint one of
`position.ts`. `Advice` puts them beside the contract's accounting (`Accrued`,
`Debt`, `Healthy`, `Borrowed`, `Repaid`, external): `ReadInfo` and `ReadUser` are
the two reads of the facade, the second with the local clock, which may lag; a
simulate action picks amounts, among them everything that was advised, and of a
Smart market whether the caller hands in `computeLpOutput` (`quoted`; `asked.blind`
says that tokens were simulated without it, and then the simulation leaves them out
as the source does); the two
legs of the operation are mined one after the other; `Elapse`, `OthersAccrue` and
`VaultEarns` come in between. A variable exit may cost any amount of LP up to the
slippage that was quoted (`asked.most`).

**FixedLoan, LoanQuotes.** `FixedLoan` is `loan.ts`; `LoanQuotes` a broker that
charges from `integral`, the sum over time of principal times rate, which shares
no definition with the SDK's formula. `AskQuote` takes the stamp the SDK rounds to
or one the caller names; `PayPart` is a partial repayment by anybody;
`SendQuote` settles it: interest first, then the penalty on the principal that
the rest can clear, then principal, and a remainder below the minimum loan
reverts.

## 3. Runs

The instances are chosen so that each is small enough to be exhausted and large
enough that the case the properties are about happens; the mutants listed in
`PROJECT.json` are the evidence that it does.

| run | what it shows | bounds |
|---|---|---|
| `Execution_readme` (pass) | With README.md's loop, sends that throw and calls that revert, and one sequence at a time per allowance: `StandingAllowanceKept`, `ExposureBounded`, `UsdtRuleKept`, `StarvedOnlyByAccrual`, `RestoresWhatItFound`, and under fairness `HeadroomReclaimed`, `SlotsAreFreed`; the system implements `ScopedAllowance` (`KeepsThePromise`) | two repayments (exact amount, or everything) in turn on one USDT-like slot, owner's allowance 0..2, debt 1 growing to 2: below, at and above every raise, so reset, raise, no raise and two-step way back all occur |
| `Execution_faults` (pass) | What survives timeouts, failing undos and crashes, with a loop that looks at its receipts and a second sequence that either starts from what the first one left or does not wait for it: `NeverAboveAsked` always; `UsdtRuleKept`, `StarvedOnlyByAccrual`, `RestoresWhatItFound` while sequences take turns | two sequences, each a share-priced repayment that reclaims or keeps its headroom, or an exact supply that does not wait; allowance 0..1, debt 1..3; the sessions are symmetric |
| `Repay_pricing` (pass) | Assets, shares and everything, the last from two reads, on six markets from dust to a price above the initial one, and one whose shares are worth less than the first ones were, with up to four units of interest and two moves of others: `StarvedOnlyByInterest`, `RepayAllLeavesNoDebt` | virtual amounts 1 and 10; a margin of a unit and one of several |
| `Authorization` (pass) | `CancelledNeverLands`, `GrantsExpire`, `OnlyTheAddressBook`, `SpentIsFinal` | three signatures over two nonces and three moments: a grant at nonce 1, and the cancellations of 0 and 1 the builder tells its caller to make "lowest first" |
| `Migration` (pass) | `NoOrphanGrant`, `ShortOnlyIfMoved`, with README.md's loop and with one that looks at its receipts, waits that give up, refused sends and undos | one migration, one outstanding signature on the same grant, a market with room for it and one without, and one without a broker |
| `Routing` (pass) | Every build method on every registration: `ConfigNeverRoutes`, `NamedMarketOnly`, `ValueIsTaken`, `LandsUnlessMoved`, `NothingIdleApproved`, `OwnConfigAccepted`, `SilenceBuildsNothing`, `ClientOfTheChain` | both networks; a plain market with a native loan, one with a native collateral, a Smart market over either of two pools, two vaults; providers absent, plain, native or without a view; four would-be brokers; all sixteen settings of the liquidator's lists; configs absent, kept from an earlier read, or forged in the market, each token, the providers or the flags, trusted or not; one move |
| `Figures` (pass) | `AdvisedIsSafe`, `SimulationComesTrue`, `ClearedMeansAccepted`, `TwinsAgree`; `QuoteClears`, `OutstandingIsOwed` | binary digits: wads of 4, loan tokens of 3, collateral of 2, so that every rounding happens on small figures; three moments, a tick earning a sixteenth of a debt, so that two outgrow the margin's quarter; loans watched for twelve ticks, buffer of four, stamps rounded to two, two partial repayments; loans that have matured, been repaid in part, or earn less than a unit a second; a dynamic loan of nothing |
| `Execution_timeout` (violation) | `NoStandingHeadroom`: the step in flight is not in the slice that is undone | one timed-out raise suffices |
| `Execution_exact` (violation) | `StandingAllowanceKept`: builders that approve exactly append no clear step | owner's allowance 1, supply of 2 |
| `Execution_reverted` (violation) | `NoStandingHeadroom`: the loop never looks at `receipt.status` | a supply that reverts |
| `Repay_all` (violation) | `CoveredWhenQuoted`: repayAll may ask for one unit too little | no interest, nobody else |
| `Authorization_cancel` (violation) | `SpentMeansSubmitted`: a consumed nonce does not mean the grant was submitted | two signatures |

`CHECK_DEADLOCK FALSE` is said in the repayment, authorization, migration, routing
and figures runs: one repayment that has landed, an exhausted clock with nothing
left to sign, a migration, a request or an operation that is over is an end, not a
deadlock. Execution has an explicit
`Finished` step and its runs check deadlock.

### What the exceptions in the properties say

Some properties hold but for a case, which they name; each case is the code's.

* `PoolMayDiffer` (`LandsUnlessMoved`, `NothingIdleApproved`): a Smart config names
  its pool's tokens, and resolution refreshes providers and native flags but not
  the tokens; after a move between the config's read and the resolution, or in a
  trusted config older than a move, they are the other pool's.
* `WrapsNothing`: the plain market's repay and the vault's builders compare the
  token with the address book's wrapped coin. Ethereum has none there, so a
  market or vault served by Ethereum's native provider is sent down the ERC-20
  path, into a contract that pulls nothing. The comments at those guards speak of
  Ethereum as handled.
* `OwnConfigAccepted`: a Smart config with a native loan names the sentinel as its
  loan token, and is turned down when handed back untrusted, for the check
  compares it with the market's params.
* `RoomLeft` (`AdvisedIsSafe`, `ClearedMeansAccepted`): what is advised keeps two
  percent of the limit back (a variable exit a little less). Interest that outgrows it makes the chain refuse.
  The interest the SDK could not have seen because its clock is behind counts.
* `ClearedMeansAccepted` leaves out an exit that takes every LP: the ratio of a
  position without collateral is taken to be zero, so it is never flagged,
  whatever is still owed.
* `SimulationComesTrue` and `ClearedMeansAccepted` leave out tokens that are
  simulated without `computeLpOutput`, which is optional. Then `simulate/smart.ts`
  does not look at them: a supply is shown as if it were not made, which
  `SimulationComesTrue` still holds to showing no more to borrow than there will be;
  an exit is judged on the collateral as it was, a variable one without its slippage,
  and cleared.
* `NoOrphanGrant` says why a grant the migration made may be in force when its loop is
  over: the undo is sent and yet to be mined; the migration took place; README.md's
  loop took the receipt of a reverted migration for a success; the wait that gave up
  was the grant's own, which the loop does not undo; or the wallet refused the undo.
  Any other cause violates it.
* `QuoteClears` leaves out a loan that earns less than a unit a second. There the
  penalty is rounded up to a whole unit a second before it is multiplied by the
  time left, and falls faster than the buffer makes up for.
* `TwinsAgree` holds the Decimal copy of a figure between what the bigints make of
  the debt cut to wads and of a wad more, but for what either cuts on its way: a
  ratio by one unit of the collateral's worth in wads, a liquidation price by the
  digits of the decimals' first quotient, what may be borrowed by a unit of the loan
  token above and by the bigints' coarser rounding below, what may leave by a unit of
  collateral. It leaves out a repayment of more than the debt, on which the Decimal
  copy answers more than the collateral.

### Bounds

`MaxMargin` bounds figures that come from a caller or a clock; `MaxOwed`, `MaxDue`
and `MaxInterest` what accrual does; `MaxMoves` what others do; `MaxNow`,
`MaxNonce` and `MaxSigned` time, nonces and signatures. They bound the instance,
not the code. Amounts are unbounded naturals (the code uses `bigint`), so no width
is modelled. Time is counted in ticks: `Ttl` and `CancelTtl` are 3600 and 300
seconds in the code. In `Figures`, `Base`, `WadDecimals`, `LoanDecimals`,
`CollDecimals`, `RateDecimals`, `Year`, `Block`, `RepayBuffer` and the thresholds are
the code's constants made small; TLC's integers have 32 bits and the code's figures
256. What is kept is which is larger: a debt earns less in a tick than the margin
keeps back, and more in two; a quote's buffer outlasts the stamp's rounding. `MaxTime`, `MaxClock`, `MaxYield` and `MaxParts`
bound what happens while an account is watched.

One move of a registration suffices for `Routing`: its history variables only ask
whether one happened in each of three windows, and the proofs hold for any number.

### Fairness

`FairSpec` assumes that a builder or loop that has started keeps running, per
session, and that the wallet's pending transactions are mined. It is weak
fairness: no program here needs to win a race infinitely often. It assumes neither
that a session starts, nor that a fault happens, nor that interest accrues. A
builder that has priced and then dies is a crash, and the run that checks liveness
has no crashes: a program that dies undoes nothing.

## 4. Proofs

Every invariant below was checked by TLC on the instance of its run before it was
proved. A theorem holds for every value of the constants the named assumptions
allow; where it has a hypothesis more, that is said.

### Any sequences

`ExecutionProofs` proves, for any set of slots, sessions and requests, any prices
and any faults:

* `BuildSequenceIsPlan`: whatever the amount and the allowance read,
  `BuildSequence` returns a plan: approve steps that start at the allowance read,
  reset first if the token needs it and then raise to exactly the amount, stamped
  with their positions, each carrying a way back that ends at the allowance read
  and that the token takes; one call; and, when the builder reclaims and has raised,
  the same way back.
* `TypeCorrect`: `Spec => []TypeOK`.
* `SpenderBounded`: `Spec => []NeverAboveAsked`. Whatever overlaps, times out,
  crashes or reverts, a spender can take no more than the owner's own allowance or
  than some sequence of the owner has asked for.

`NeverAboveAsked` is not inductive: a transaction in the mempool could carry
anything. The invariant `IInv` adds what closes the gap. `Planned`: a session in its
loop holds a plan in the sense of the first theorem and stands inside it.
`PendingBounded`: every pending approve is of its session's slot and within its
session's figure. `Opening`: a session whose loop has not started stands before its
first step. A reversal goes to the allowance that was found, and a plan contains
approve steps only if that is below the amount, so reversals are bounded too.
`NextIInv` has one step per action; each has a lemma of its own, and
`NeverUnchanged`, `PendingUnchanged` and `PlannedUnchanged` carry the conjuncts an
action cannot disturb.

### Sequences that take turns

`TurnsProofs` proves the three properties whose premise is `TakesTurns` (every
request waits until its allowance is free), for either loop and every fault,
timeouts and crashes included:

* `UsdtRuleHolds`: `Spec => []UsdtRuleKept`. No approve bounces.
* `OnlyAccrualStarves`: `Spec => []StarvedOnlyByAccrual`.
* `RestoresItsAllowance`: `Spec => RestoresWhatItFound`. A sequence executed to its
  end leaves what it found, also when sequences before it were abandoned.

What an approve finds is decided when it is mined, long after the builder looked.
The invariant therefore follows the allowance *as a transaction will find it*:
`Finds(s, i, n)` says that a transaction of session `s` at place `i` of the mempool
meets the allowance `n`, because of the last approve of `s` before it, or because
nothing of `s` is pending before it and the chain is at `n`. With that, `TurnsInv`
says of a session that takes turns: nobody else is active on its slot
(`OneAtATime`); a pending raise of a USDT-like token finds zero, and a pending call
at least its amount (`PendingFine`); before each step the allowance is what the step
before left (`Ready`); the step waited for is the one that is pending, or has
arrived with its effect (`Awaits`); a loop that undoes has left behind what it sent
last (`Undoes`); before it starts, nothing of it is pending (`Unsent`). A receipt
that the loop ignores breaks none of this: an approve cannot revert while sequences
take turns, which is one of the things the invariant proves.

### A borrowed allowance

`ScopeProofs` proves what README.md's loop promises, under `Prudent`: requests wait
and reclaim, the loop undoes when it throws, and what may go wrong is that a send
throws or the protocol refuses. The violation runs show what happens without it: a
builder that does not reclaim loses an allowance (`Execution_exact`), and leaves one
behind when its call reverts unnoticed (`Execution_reverted`); a wait that times out
leaves a raise that nobody undoes (`Execution_timeout`). A reverted call that the loop
ignores is harmless under `Prudent`, because the way back is a step of the plan.

* `AllowanceGivenBack`: `Prudent` implies `Spec => []StandingAllowanceKept`.
* `ExposureHolds`: ... `Spec => []ExposureBounded`.
* `HeadroomGone`: ... `Spec => []NoStandingHeadroom`, the property that the
  timeout and the ignored receipt violate.
* `BorrowsAsPromised`: ... `Spec => KeepsThePromise`. Execution implements
  `ScopedAllowance`.

`LentInv` is `TurnsInv` and what the holder of an allowance knows of it: having
raised, it found the owner's figure and has at most its own amount there
(`Borrowed`); a loop that gave up has sent its way back or has it still to send
(`GoesBack`, `ToCome`); what is pending is waited for or undoes (`SentFor`). The
refinement maps a slot to the session that is active on it (`Holder`). The step
simulation has one lemma per kind of step: those that leave the chain's allowances
alone take a slot, let it go with the allowance at the owner's figure, or stutter
(`QuietKeepsPromise`); a mined transaction moves its own slot only, in its
session's hands.

### Grants and migration

`GrantProofs` proves, for any contracts, nonces, deadlines and moments:
`AuthTypeCorrect`; `CancellationHolds` (`CancelledNeverLands`); `GrantsAreShort`
(`GrantsExpire`); `AddressBookHolds` (`OnlyTheAddressBook`); `ConsumedIsFinal`
(`SpentIsFinal`). `AuthInv` adds to the types that landed nonces, those the cancel
builder called consumed, and the nonce it read are behind the contract's
(`NonceIsPast`); that a cancelling signature is for the nonce its caller asked to
cancel (`BurnsItsNonce`); that a grant of the SDK has a deadline within its time to
live (`ShortLived`).

Of a migration it proves `MigTypeCorrect`, `NeverSentShort` (`ShortOnlyIfMoved`) and
`GrantTakenBack` (`NoOrphanGrant`), for either loop and without further hypotheses:
the five causes named there are the only ones. Two parts strengthen the types.
`InPlan`: a loop that has begun holds the plan that follows from the grant the builder
saw, stands inside it, and priced its debt within the market it saw. `Answers` relates
the transactions to what they did: a grant is the loop's own only by the first of two
steps, a migration's fate and its receipt agree, and a loop is over only behind its
last receipt or behind its undo. `GrantsAsEver` is a
refinement, `Spec => AuthSpec`: beside a migration, grants change in no way they
could not have changed without it, so the five theorems above hold there too.

### Requests

`FacadeProofs` proves, for any networks, registrations, requests and supplied
configs, trusted or forged, and any number of moves:

* `RoutingSafe`: `Spec => []ConfigNeverRoutes`. The target and the spenders of a
  route are what the chain had registered when the builder looked, for the market
  that is encoded. A config decides neither.
* `MarketSafe`: `Spec => []NamedMarketOnly`. The market that is encoded is the one
  the caller named, unless he vouched for the config; a migration's always is.
* `SilenceSafe`: `Spec => []SilenceBuildsNothing`. A read that was not answered
  never ends in steps.
* `ClientSafe`: `Spec => []ClientOfTheChain`. A request reads through a client of
  its own chain, the caller's where he gave one.
* `ValueSafe`: `Spec => []ValueIsTaken`. Value goes only to a contract that takes
  it (a broker's calls, whose value is the caller's word, apart).
* `OwnConfigSafe`: `Spec => []OwnConfigAccepted`. A config the SDK has read is not
  turned down when it is handed back: a plain one and a vault's never; a Smart one
  only after a move, or when its loan is native.
* `FacadeTypeCorrect`: `Spec => []TypeOK`.
* `LandingSafe` and `NothingIdleSafe`, under `NativeIsForItsCoin`:
  `Spec => []LandsUnlessMoved` and `Spec => []NothingIdleApproved`. What is called
  takes what is sent and pulls what is approved, but for the exceptions section 3
  names.

`SilenceSafe` and `ClientSafe` follow from a small invariant, `IInv`: a request keeps
its fields and is one that may be made (`Shaped`), only an unreachable one is marked
lost (`Silent`), and every cached client is its chain's own (`Clients`). Routing
needs more, for `ConfigNeverRoutes` speaks only of a request that has been built.
`RInv` follows a config from the moment it is in hand: a kept one is of what the
chain has (`Kept`); one in hand has its kind's fields, and names the market that was
asked for or is vouched for (`Handed`); once resolved, and until a registration
moves, its providers are the chain's, whatever it said before (`Resolved`). The
lemmas `ResolutionOverwrites`, `PairOverwrites` and `VaultOverwrites` say that
resolution replaces the providers and keeps the market, and one lemma per family of
builders says that a route names only what resolution found.

The tokens are followed separately, by `FInv`, because resolution does not refresh
them: a config the SDK has read speaks of its subject and, until a registration
moves, of its pool (`Keepsake`, `Returned`); a sound one still does when it is used
(`Chosen`); after resolution each native flag agrees with its provider (`Flagged`);
brokers and liquidations passed their gates (`Asked`); a call goes to an address
(`Placed`). `MInv` adds that the steps match the contract that is called (`Matched`):
approvals within what it pulls, value it takes. `LandsUnlessMoved` and
`NothingIdleApproved` follow, for a contract that is called is the one the chain had.

`NativeIsForItsCoin` says that a network's native provider is registered only for
markets and vaults of the wrapped coin. Nothing in the SDK checks it; the provider
contract wraps one coin and can serve no other.

### Repayments

`RepayProofs` proves, for any markets, amounts, margins and moves of others:

* `RepayTypeCorrect`: `Spec => []TypeOK`. Nobody clears more shares than he owes.
* `RepayAllClears`: `Spec => []RepayAllLeavesNoDebt`.
* `StarvedByInterestOnly`: if `VirtualAssets = 1`, `Spec => []StarvedOnlyByInterest`.

The first two follow from `QInv`: the borrower's shares are among the market's
(`Held`) and in the market that was read were no fewer than now (`Kept`), a call that names assets asks for just these and one that names shares for
something (`Asked`), and a repayment of everything names at least the position
(`Whole`), which others can only make smaller.

The third is about prices. Let `Value` and `Stock` be the market's assets and
shares with the virtual ones, and `Allowed` the builder's own figure plus the
interest it has not seen. `Covers` says
`request.shares * Value <= Allowed * Stock`: the shares named cost no more than
that. Each step keeps the inequality for a reason of its own, stated as a lemma in
numbers. `InterestPrice`: a unit of interest adds at most one unit to the price of
shares that are among the market's. `BorrowPrice` and `RepayPrice`: others' shares
are rounded against them, so neither borrowing nor repaying raises what a share
costs. `EmptyPrice`: when rounding has paid off more than there was, a share left
costs at most a unit; it is here that a single virtual asset is needed.
`SharesPrice`, `AllPrice` and `DilutedPrice` establish it for the two quotes.
Between the two reads of a repayment of everything no shares are named yet, and
`Foresees` says the same of all that may be: however much of the position is left
when it is read, it costs no more than the figure made of it then and the interest
earned since the market was read. The figure is in the market as it was, so the steps
of others keep the inequality as above (`NoDearer`), and what the clock adds only
raises the figure. The
products are cancelled by hand (`Cancel`, `Times`), for the solver multiplies no
inequalities.

The proof corrected the property. The builder's own figure for everything
(`_getExtraRepayAmount`) leaves the virtual amounts out, and was taken to be short by
less than a unit, the one its rounding down loses. That is true only while a share
is worth at least what the first one was. In a market whose shares are worth less
(others' repayments, rounded up, lower it) it is short
by less than two; `Diluted` says which market is which, and the run has one of each.

### Loans

`FiguresProofs` proves, for any accounts, rates, buffers, blocks and number of partial
repayments, in exact integer arithmetic with every rounding the code makes:

* `LoanTypeCorrect`: `FiguresSpec => []LoanTypeOK`.
* `QuoteHolds`: `FiguresSpec => []QuoteClears`. A quote sent within twice its buffer
  clears its loan, if the loan's interest is more than a unit a second.
* `LoansAreOwed`: `FiguresSpec => []EachLoanIsOwed`. What the SDK shows of each loan
  is no less than the broker would take at once, and no more than a block later.
* `TotalsAreOwed`: `FiguresSpec => OutstandingIsOwed`. However many loans an account
  has, the total that is shown lies between the totals of these, and that of its
  dynamic loan covers the debt.

The broker charges from its own integral, the SDK from the stamps of the position.
`Books` says that the two agree: the integral is the rate times how long it `Ran`
since principal was last repaid, at most to maturity, and no more interest has been
taken than was due. Hence `AccruedIs`: the SDK's interest at a stamp that is not in
the past, or at the end of a matured loan, is what the broker will charge then.

`QuoteClears` speaks of the moment a quote is sent; the invariant has to say what
the quote is good for before. `Cost(i, t)` is what clearing a loan at `t` will take
if nothing is paid until then, and `Holds` says that the quote in hand is at least
that, for every `t` left of its time. Three lemmas in numbers establish it when the
quote is made (`QuoteCovers`): up to the buffer the forward interest covers what
accrues (`HeldForTheBuffer`); for as long again only the seconds beyond the buffer
are uncovered, at most half of all, and each second that has passed took half its
interest off the penalty (`HeldForTwice`); and a quote at a
stamp ahead is enough before it too, provided a second earns a whole unit
(`HeldBefore`), which is where the exception of `QuoteClears` comes from. Time that
passes changes no `Cost` (`TickKeeps`). A partial repayment raises none
(`SettleKeeps`), though it restarts the integral: rounding the interest anew can add
one unit, and at least one unit of principal was paid.

A total is a sum by recursion over the set of an account's loans. `DecimalProofs`
takes the sum and the powers that scale a Decimal as what they are, recursive
functions, and shows that each exists and has one value at every argument. The
library's induction takes an operator, which no prover here can instantiate;
`SetInduction` says the same of a set of numbers, from the well-foundedness of their
order, and `ScaleIs`, `ScaleSum`, `SumIs` and `SumsGrow` follow by it: a power is a
positive number, exponents add, and what holds of each summand holds of the sums.
On these rest the lemmas that every figure uses: that an operation on Decimals gives
one, of which digits and sign, and that cutting digits keeps an order (`PlusIs`,
`TimesIs`, `OverIs`, `RoundDownIs`, `CutKeeps`).

### Positions

`FiguresProofs` proves, for any markets, Smart markets, vaults, thresholds, amounts
and clocks:

* `TypesHold`: `FiguresSpec => []TypeOK`. Whatever the caller was advised and sends,
  the chain keeps a position: no collateral, debt or share goes below zero, shares
  stay among the market's, nothing is booked in the future; and no Smart position is
  shown a ratio below zero.

Most of it is what the reads return, so the invariant `AInv` follows a figure from
the chain to the screen and back: the record on the chain (`OnChain`, `InVault`), the
market that was read (`GoodInfo`), the position computed from it (`GoodData`), and
the amounts that are sent (`GoodAsk`). Three steps are less than obvious. A clock
that is behind makes the compounded interest negative, and the debt that is shown
with it: `TaylorBehind` bounds it by the debt itself as long as no debt would double
in the time the clock is behind, which `AdviceAssumption` says. What may be borrowed
or taken out, when negative, is never sent (`ChoiceIs`). And of a Smart exit the
ratio is cut at zero where more is repaid than owed, while a borrow's needs the
argument that adding to a pool takes no LP, quoted or not (`LpSuppliedIs`).

* `TwinsHold`: `FiguresSpec => []TwinsAgree`. Whatever a caller is shown of a
  market's position, and of a borrow or a repayment simulated on it, is the same
  on decimals and on bigints, within the bounds of `TwinsAgree`: the ratio, the
  liquidation price, what may be borrowed and what may leave.

Its invariant `TInv` says what the caller's figures are: those of `MarketUserData` on
the market he read (`Figured`, `Exact`), and those of the simulation of what he asked
(`Simulated`). What relates the copies is `Owing(b, w, m)`: of a debt b on decimals, w
is the whole wads and m wads are no less. Reading a debt, borrowing more and repaying
some of it keep that relation (`OwedIs`, `OwingMore`, `OwingLess`), so one lemma for
each figure covers the position as read and as simulated (`RatioAgrees`,
`LiqPriceAgrees`, `LoanableAgrees`, `WithdrawableAgrees`). Each rests on a lemma about
natural numbers alone (`RatioCore`, `LiqCore`, `LoanableCore`, `StaysCore`) that brings
both copies' chains of quotients to products. Two points are less than obvious. What
must stay is three quotients on decimals and two on bigints, so the decimals may come
out lower; they lose less than a wad's unit because a debt that is not zero has the
digits of at least three wads (`Spare`, from the quotient of shares and the interest,
`SpareIs`), and what may leave is cut to units of collateral afterwards. And the
bigints multiply the LLTV by the threshold and cut, the decimals do not: the bounds
need a margin that is exact (`MarginIs`).

### Assumptions

The proofs assume the named ASSUMEs of the modules, which TLC evaluates in the runs:
`PricingAssumption`, `MarginAssumption`, `UsdtAssumption` and `ExecutionAssumption`
(types of the constants); `AuthorizationAssumption` and `MigrationAssumption` (the
address book lists targets, the account is none, the position manager is listed and
is not the zero address); `RepayAssumption` (types, and that a borrower's shares are
among the market's); `FacadeAssumption` and `RequestAssumption`; `LoanAssumption` and
`QuoteAssumption` (types; a loan is watched from when it was taken or principal was
last repaid, so that no interest has been paid since); `DigitsAssumption`,
`PositionAssumption` and `VariableAssumption` (digits and thresholds; the threshold's
two digits are fewer than a wad's eighteen);
`AdviceAssumption` (types; a position's shares are among the market's, nothing was
booked in the future, a pool that is borrowed against holds tokens and has LP
(the read divides by both, and throws otherwise), no clock is
so far behind that a debt doubles meanwhile, a market's price is not so small that
eighteen digits show it as zero, and its LLTV, at 98 %, still fits a wad's digits, as
every LLTV of a few digits does). `FacadeAssumption` says that a
registration is on a known network, that a market's is of a market and a vault's of
a vault, that the names which stand for the native coin and for a vault provider
without a view are not registered for a market, and that an SDK instance is
configured for chains it knows. `RequestAssumption` says that a request is one of
the methods of its subject, and that a config handed in has the kind and the fields
its TypeScript type demands.

Hypotheses beyond these are `Prudent` (the four theorems of `ScopeProofs`),
`NativeIsForItsCoin` (`LandingSafe`, `NothingIdleSafe`) and `VirtualAssets = 1` (`StarvedByInterestOnly`). Each holds in
the run that checks its property, and is what the code, its constants or its
documented use say.

### Only model-checked

The liveness properties `HeadroomReclaimed` and `SlotsAreFreed`, for which the
provers have no rule of fairness; of `Figures`, `AdvisedIsSafe`,
`SimulationComesTrue` and `ClearedMeansAccepted`; and what the violation runs refute.

The three of `Figures` are not proved because, as they stand, they are not true for
every value of the constants: each allows a gap of a unit or two, which is how far
the roundings lie apart while a share is worth about a unit. They say that nothing
but rounding separates two figures, on an instance where every rounding
happens and a unit is large.

## 5. What the violation runs say

1. README.md's loop undoes the steps *before* the one that threw. A raise whose
   wait timed out lands later and stays.
2. README.md says every token-pulling builder puts the allowance back. Supply,
   Smart LP supply, vault deposit and the assets path of `moolahSupply` do not: an
   owner's smaller standing allowance is lost.
3. README.md's loop ignores `receipt.status`; the script that runs "exactly as the
   README prescribes" does not.
4. "Both repay paths over-approve by construction" is off by one unit for repayAll
   on dust.
5. The cancel builder's "that signature was already submitted" is wrong when the
   nonce was consumed by another signature, such as an earlier cancellation.

Observations without a run of their own; the passing properties name each as an
exception, or the text here does:

* A session of this wallet that overlaps another on the same allowance may restore
  the other's raise. README.md asks for one step at a time, not one sequence at a
  time. `NeverAboveAsked` is what remains true of it.
* `simulate/smart.ts` takes the ratio of a position without collateral for zero, so
  an exit that takes every LP while something is owed is not flagged, although
  `exceedError` is documented there as "whether position exceeds safety limits".
* `computeLpOutput` of `simulate/smart.ts` is optional, and the examples of its doc
  pass `info._computeLpOutput` for it, a field that a type has and no read returns.
  Without it an exit in tokens is judged on untouched collateral and cleared
  (`asked.blind`).
* README.md's loop leaves a migration's grant standing when the migration reverts,
  for it does not look at `receipt.status` (`NoOrphanGrant`, and item 3 above).
* On Ethereum a market or vault served by the native provider is sent down the
  ERC-20 path (`WrapsNothing`).
* A Smart config that the SDK itself derived is refused when handed back, if the
  loan is native (`OwnConfigAccepted`).
* The quote of a loan that earns less than a unit a second may not clear it at the
  end of its buffer (`QuoteClears`).
* The plain read says a loan is native when its token is the wrapped coin and some
  provider serves it; resolution, only when that provider is the native one,
  although the comment there calls the two the same. Resolution comes last, so
  builds are not affected.
* `getVaultInfo` asks for the provider without the `catch` that resolution has, so
  a vault without a provider view cannot be read but can be built for.

## 6. Not modelled, and why

* *Rates*: yearly rates, utilization, a vault's earnings, a simulated borrow rate,
  and `read/shared/irm.ts`, whose optional calls decide only what is displayed. No
  build depends on them.
* *Stable pool*: Newton iterations on products of three balances. With TLC's 32-bit
  integers any instance on which they take more than a step or two overflows.
* *Liquidation incentive*: a closed formula without state.
* *API client*: one request per call, an error envelope turned into an exception.
* *Zones, chains, display, ABIs, address book*: tables and formatting. Of the
  address book, the native providers, the wrapped coin, the USDT-like tokens and
  the contracts that may be authorized are constants of the modules that use them.
* *Encoding*: calldata, the splitting of a signature, the recovery id, the EIP-712
  domain. No property depends on them.
* *Of the fixed-term loans*: their merge into a market's user data with a weighted
  rate. It is shown, and the account's own figures are not computed from it. Of a
  dynamic loan, the principal in place of a normalized debt that is missing
  (`loan.ts:56`): the read of the broker never leaves it out.
* *Of the facade*: the API getters, the dispatch of plain reads, and whose position
  a `repayAll` or `withdrawAll` is sized by. The latter is the wallet's own also
  when `onBehalf` names somebody else; what the protocol then does is not in `src`.
* *Of the builders*: checks of arguments that neither a registration nor a config
  decides; the amounts of Smart's two-token supply, whose two approvals `Routes`
  has but `Execution`, with one slot per sequence, has not; the supply side of the
  share ceilings.
* *Of the decimals*: rounding to nearest and up, parsing and formatting.

## 7. Plan

1. *(done)* `Approvals`, `SharePricing`, `Builders`, `Execution`, `ScopedAllowance`,
   `RepayPricing`, their runs, type correctness and the bound on exposure proved.
2. *(done)* `Authorization`, `Migration`.
3. *(done)* `Providers`, `Routes`, `Facade`: resolution, native paths, config trust,
   builders that pull nothing, RPC failures; routing proved.
4. *(done)* `Decimals`, `Positions`, `SmartPositions`, `Advice`, `FixedLoan`,
   `LoanQuotes`: the figures, and what the chain makes of operations chosen by them.
5. Sequences over two slots (Smart supply) in `Execution`; the supply-side share
   ceiling, whose shares may exceed the market's, in `RepayPricing`;
   `read/shared/irm.ts`.
6. *(done)* Proofs of everything the runs of `Execution`, `RepayPricing`,
   `Authorization`, `Migration` and `Facade` check, but for liveness; of the loans in
   `Figures`, that a quote holds and that each figure shown is owed.
7. Proofs about positions in `Figures`: the types and the two copies of the
   arithmetic *(done)*; the gaps of the other three properties as functions of the
   prices and the digits, and then their proofs.
