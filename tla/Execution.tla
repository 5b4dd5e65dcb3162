----------------------------- MODULE Execution -----------------------------
(***************************************************************************)
(* Sequences being built and executed by one wallet.                       *)
(*                                                                         *)
(* A session is one call of a builder that pulls an ERC-20 token, followed *)
(* by the executor's loop over the steps it returned.  The builder reads   *)
(* the chain twice, once to price the call and once for the allowance; the *)
(* transactions land later, in nonce order.  In between, the amount owed   *)
(* moves, sends fail, receipts time out, calls revert, and other sessions  *)
(* of the wallet run.                                                      *)
(*                                                                         *)
(* The executor is the caller's: the loop README.md prescribes is the one  *)
(* with ~ChecksReceipt and UndoesOnError, the loop of the repository's own *)
(* scripts the one with ChecksReceipt and ~UndoesOnError.                  *)
(***************************************************************************)
EXTENDS Builders

CONSTANTS
  Session,         \* builder calls the wallet makes, each once
  SlotOf,          \* the allowance each session's call spends from
  Job,             \* the requests to choose from
  InitAllowance,   \* allowances the owner may hold at the start
  Debt,            \* what a call may cost at the start
  MaxOwed,         \* bound on what accrual makes of it
  ChecksReceipt,   \* the loop throws on a reverted receipt
  UndoesOnError,   \* the loop runs meta.reversalSteps when it throws
  Fault            \* which of the faults below may happen

Faults == {"sendThrows", "timeout", "refused", "undoThrows", "crash"}

ASSUME ExecutionAssumption ==
  /\ SlotOf \in [Session -> Slot]
  /\ Job \subseteq Requests
  /\ InitAllowance \subseteq Nat
  /\ Debt \subseteq Nat
  /\ MaxOwed \in Nat
  /\ ChecksReceipt \in BOOLEAN /\ UndoesOnError \in BOOLEAN
  /\ Fault \subseteq Faults

VARIABLES
  allowance,   \* on chain: each slot's allowance
  owed,        \* on chain: what each session's call pulls if mined now
  mempool,     \* the wallet's pending transactions, in nonce order
  job,         \* what each session asks for
  status,      \* where each session stands
  amount,      \* the allowance its builder decided to ask for
  plan,        \* the steps its builder returned
  pc,          \* the step its loop is at
  receipt,     \* what the node last told it
  undo,        \* position in the catch block's two nested loops
  found,       \* history: the allowance its builder read
  call,        \* history: how its call fared on chain
  bounced,     \* history: sessions one of whose approves the token refused
  standing     \* history: the allowance the owner granted for keeps

chainVars == <<allowance, owed, mempool, call, bounced, standing>>
loopVars  == <<status, pc, receipt, undo>>
planVars  == <<job, amount, plan, found>>
vars      == <<chainVars, loopVars, planVars>>

Tx == [from : Session, kind : {"approve", "call"}, slot : Slot,
       amount : Nat, undoes : BOOLEAN]

Ended(s)   == status[s] \in {"done", "failed", "crashed"}
Pending(s) == {i \in 1..Len(mempool) : mempool[i].from = s}
Drained(s) == Pending(s) = {}

(* A session holds its slot from its first read until its last transaction *)
(* is mined.                                                               *)
Active(s) == status[s] # "idle" /\ ~(Ended(s) /\ Drained(s))
AtRest(slot) == \A s \in Session : SlotOf[s] = slot => ~Active(s)

Current(s) == plan[s][pc[s]]
Raised(s)  == amount[s] > found[s]

(* What a call takes if it is mined now: a broker's repay takes no more    *)
(* than the amount it is given, every other call takes what it costs by    *)
(* then.                                                                   *)
Pull(s) ==
  IF job[s].builder = "brokerRepay" /\ amount[s] < owed[s]
  THEN amount[s] ELSE owed[s]

TypeOK ==
  /\ allowance \in [Slot -> Nat]
  /\ owed \in [Session -> Nat]
  /\ mempool \in Seq(Tx)
  /\ job \in [Session -> Job]
  /\ status \in [Session -> {"idle", "priced", "running", "waiting",
                             "undoing", "done", "failed", "crashed"}]
  /\ amount \in [Session -> Nat]
  /\ plan \in [Session -> Seq(Step)]
  /\ pc \in [Session -> Nat \ {0}]
  /\ receipt \in [Session -> {"none", "success", "reverted"}]
  /\ undo \in [Session -> [step : Nat \ {0}, at : Nat \ {0}]]
  /\ found \in [Session -> Nat]
  /\ call \in [Session -> {"none", "settled", "starved", "refused"}]
  /\ bounced \subseteq Session
  /\ standing \in [Slot -> Nat]

Init ==
  /\ allowance \in [Slot -> InitAllowance]
  /\ owed \in [Session -> Debt]
  /\ mempool = <<>>
  /\ job \in [Session -> Job]
  /\ status = [s \in Session |-> "idle"]
  /\ amount = [s \in Session |-> 0]
  /\ plan = [s \in Session |-> <<>>]
  /\ pc = [s \in Session |-> 1]
  /\ receipt = [s \in Session |-> "none"]
  /\ undo = [s \in Session |-> [step |-> 1, at |-> 1]]
  /\ found = [s \in Session |-> 0]
  /\ call = [s \in Session |-> "none"]
  /\ bounced = {}
  /\ standing = allowance
-----------------------------------------------------------------------------
(* The builder.                                                            *)

(* The first read: the market, the vault or the position prices the call.  *)
Price(s) ==
  /\ status[s] = "idle"
  /\ job[s].waits => AtRest(SlotOf[s])
  /\ \E a \in Asked(job[s], owed[s]).amounts :
        amount' = [amount EXCEPT ![s] = a]
  /\ status' = [status EXCEPT ![s] = "priced"]
  /\ UNCHANGED <<chainVars, pc, receipt, undo, job, plan, found>>

(* The second read: the allowance.  The steps are fixed from here on.      *)
Build(s) ==
  /\ status[s] = "priced"
  /\ LET read == allowance[SlotOf[s]] IN
       /\ found' = [found EXCEPT ![s] = read]
       /\ plan' = [plan EXCEPT ![s] =
            BuildSequence(SlotOf[s], amount[s], read, Reclaims(job[s]))]
  /\ status' = [status EXCEPT ![s] = "running"]
  /\ UNCHANGED <<chainVars, pc, receipt, undo, job, amount>>
-----------------------------------------------------------------------------
(* The executor.                                                           *)

Submit(s, kind, slot, n, undoes) ==
  mempool' = Append(mempool, [from |-> s, kind |-> kind, slot |-> slot,
                              amount |-> n, undoes |-> undoes])

Send(s) ==
  /\ status[s] = "running"
  /\ Submit(s, Current(s).kind, Current(s).slot, Current(s).amount, FALSE)
  /\ status' = [status EXCEPT ![s] = "waiting"]
  /\ receipt' = [receipt EXCEPT ![s] = "none"]
  /\ UNCHANGED <<allowance, owed, call, bounced, standing, pc, undo, planVars>>

(* A receipt ends the wait, whatever its status says, unless the loop      *)
(* looks at it.                                                            *)
Confirm(s) ==
  /\ status[s] = "waiting"
  /\ receipt[s] # "none"
  /\ ChecksReceipt => receipt[s] = "success"
  /\ IF pc[s] = Len(plan[s])
     THEN /\ status' = [status EXCEPT ![s] = "done"]
          /\ UNCHANGED pc
     ELSE /\ status' = [status EXCEPT ![s] = "running"]
          /\ pc' = [pc EXCEPT ![s] = @ + 1]
  /\ UNCHANGED <<chainVars, receipt, undo, planVars>>

(* The catch block: walk steps.slice(0, step.index), or rethrow at once.   *)
Catch(s) ==
  /\ status' = [status EXCEPT ![s] = IF UndoesOnError THEN "undoing" ELSE "failed"]
  /\ UNCHANGED <<chainVars, pc, receipt, undo, planVars>>

SendThrows(s) == "sendThrows" \in Fault /\ status[s] = "running" /\ Catch(s)

RevertedThrows(s) ==
  /\ ChecksReceipt
  /\ status[s] = "waiting"
  /\ receipt[s] = "reverted"
  /\ Catch(s)

(* The wait gives up on a transaction that is still in the mempool.        *)
WaitTimesOut(s) ==
  /\ "timeout" \in Fault
  /\ status[s] = "waiting"
  /\ receipt[s] = "none"
  /\ Catch(s)

(* Variant: the slice ends one step early.                                 *)
StopsOneShort(s) == undo[s].step < Current(s).index

(* The steps the catch block looks at, and the reversal it is about to     *)
(* send.                                                                   *)
InSlice(s)      == undo[s].step <= Current(s).index
Undone(s)       == plan[s][undo[s].step]
HasReversal(s)  == InSlice(s) /\ undo[s].at <= Len(Undone(s).reversal)

(* Reversals are sent one after the other; none waits for a receipt.       *)
SendUndo(s) ==
  /\ status[s] = "undoing"
  /\ HasReversal(s)
  /\ Submit(s, "approve", Undone(s).slot, Undone(s).reversal[undo[s].at], TRUE)
  /\ undo' = [undo EXCEPT ![s].at = @ + 1]
  /\ UNCHANGED <<allowance, owed, call, bounced, standing, status, pc, receipt, planVars>>

(* Variant: the walk does not move on.                                     *)
UndoneAgain(s) ==
  /\ status[s] = "undoing"
  /\ InSlice(s) /\ ~HasReversal(s)
  /\ UNCHANGED vars

NextUndone(s) ==
  /\ status[s] = "undoing"
  /\ InSlice(s) /\ ~HasReversal(s)
  /\ undo' = [undo EXCEPT ![s] = [step |-> @.step + 1, at |-> 1]]
  /\ UNCHANGED <<chainVars, status, pc, receipt, planVars>>

Rethrow(s) ==
  /\ status[s] = "undoing"
  /\ ~InSlice(s) \/ (HasReversal(s) /\ "undoThrows" \in Fault)
  /\ status' = [status EXCEPT ![s] = "failed"]
  /\ UNCHANGED <<chainVars, pc, receipt, undo, planVars>>

(* The process dies, or the builder throws after its first read; what was  *)
(* sent stays in the mempool.                                              *)
Crash(s) ==
  /\ "crash" \in Fault
  /\ status[s] \in {"priced", "running", "waiting", "undoing"}
  /\ status' = [status EXCEPT ![s] = "crashed"]
  /\ UNCHANGED <<chainVars, pc, receipt, undo, planVars>>
-----------------------------------------------------------------------------
(* The chain.  The token, the protocol and the node are external: they are *)
(* modelled by what the builders rely on.                                  *)

(* The node reports to the loop; nobody waits for a reversal.              *)
Report(tx, outcome) ==
  /\ mempool' = Tail(mempool)
  /\ receipt' = IF tx.undoes THEN receipt
                ELSE [receipt EXCEPT ![tx.from] = outcome]

TokenRefuses(tx) ==
  tx.slot \in UsdtLike /\ tx.amount > 0 /\ allowance[tx.slot] > 0

MineApprove ==
  /\ mempool # <<>>
  /\ LET tx == Head(mempool) IN
       /\ tx.kind = "approve"
       /\ ~TokenRefuses(tx)
       /\ allowance' = [allowance EXCEPT ![tx.slot] = tx.amount]
       /\ Report(tx, "success")
  /\ UNCHANGED <<owed, call, bounced, standing, status, pc, undo, planVars>>

MineBouncedApprove ==
  /\ mempool # <<>>
  /\ LET tx == Head(mempool) IN
       /\ tx.kind = "approve"
       /\ TokenRefuses(tx)
       /\ bounced' = bounced \cup {tx.from}
       /\ Report(tx, "reverted")
  /\ UNCHANGED <<allowance, owed, call, standing, status, pc, undo, planVars>>

(* The call pulls what is owed when it is mined.  A call that was covered  *)
(* without a raise spends the owner's own allowance.                       *)
MineCall ==
  /\ mempool # <<>>
  /\ LET tx == Head(mempool)
         s  == tx.from IN
       /\ tx.kind = "call"
       /\ Pull(s) <= allowance[tx.slot]
       /\ allowance' = [allowance EXCEPT ![tx.slot] = @ - Pull(s)]
       /\ call' = [call EXCEPT ![s] = "settled"]
       /\ standing' = IF Raised(s) THEN standing
                      ELSE [standing EXCEPT ![tx.slot] =
                              IF Pull(s) < @ THEN @ - Pull(s) ELSE 0]
       /\ Report(tx, "success")
  /\ UNCHANGED <<owed, bounced, status, pc, undo, planVars>>

(* The call reverts: the allowance does not cover what it takes by now, or *)
(* the protocol refuses for a reason of its own.                           *)
MineRevertedCall ==
  /\ mempool # <<>>
  /\ LET tx == Head(mempool)
         s  == tx.from IN
       /\ tx.kind = "call"
       /\ \/ /\ Pull(s) > allowance[tx.slot]
             /\ call' = [call EXCEPT ![s] = "starved"]
          \/ /\ "refused" \in Fault
             /\ call' = [call EXCEPT ![s] = "refused"]
       /\ Report(tx, "reverted")
  /\ UNCHANGED <<allowance, owed, bounced, standing, status, pc, undo, planVars>>

(* Interest, or a price, moves what a call costs; an exact call names it.  *)
Accrue(s) ==
  /\ ~Exact(job[s])
  /\ call[s] = "none"
  /\ owed[s] < MaxOwed
  /\ owed' = [owed EXCEPT ![s] = @ + 1]
  /\ UNCHANGED <<allowance, mempool, call, bounced, standing, loopVars, planVars>>
-----------------------------------------------------------------------------
Mine == MineApprove \/ MineBouncedApprove \/ MineCall \/ MineRevertedCall

(* What a loop does unless something goes wrong.                           *)
Execute(s) == \/ Send(s) \/ Confirm(s) \/ RevertedThrows(s)
              \/ SendUndo(s) \/ NextUndone(s) \/ Rethrow(s)

Fail(s) == SendThrows(s) \/ WaitTimesOut(s) \/ Crash(s)

(* Every session is over and nothing is left to mine.                      *)
Finished ==
  /\ \A s \in Session : Ended(s) /\ Drained(s)
  /\ UNCHANGED vars

Next ==
  \/ \E s \in Session : Price(s) \/ Build(s) \/ Execute(s) \/ Fail(s) \/ Accrue(s)
  \/ Mine
  \/ Finished

Spec == Init /\ [][Next]_vars

(* A builder or a loop that has started is a running program, and the      *)
(* wallet's transactions pay their fee, so both go on; nobody has to start *)
(* a session, and accrual and faults are not owed to anybody.              *)
FairSpec ==
  /\ Spec
  /\ \A s \in Session : WF_vars(Build(s) \/ Execute(s))
  /\ WF_vars(Mine)
-----------------------------------------------------------------------------
(* Correctness.                                                            *)

(* When no sequence is in progress on a slot, its allowance is what the    *)
(* owner granted for keeps, less what calls that needed no raise took from *)
(* it: every raise has been put back, by the clear step of a finished      *)
(* sequence or by the reversals of an abandoned one.                       *)
StandingAllowanceKept ==
  \A slot \in Slot : AtRest(slot) => allowance[slot] = standing[slot]

(* At every moment the spender can take no more than the owner's own       *)
(* allowance or the ceiling of the one sequence in progress; in particular *)
(* no headroom is left behind once no sequence is.                         *)
ExposureBounded ==
  \A slot \in Slot :
    \/ allowance[slot] <= standing[slot]
    \/ \E s \in Session : /\ SlotOf[s] = slot /\ Active(s)
                          /\ allowance[slot] <= amount[s]

(* The headroom half of the above alone: nothing above the owner's own     *)
(* allowance survives the last sequence on a slot.                         *)
NoStandingHeadroom ==
  \A slot \in Slot : AtRest(slot) => allowance[slot] <= standing[slot]

(* Every sequence waits until no other is in progress on its allowance.    *)
TakesTurns == \A s \in Session : job[s].waits

(* While sequences take turns, one that raised the allowance, reclaims, and *)
(* is executed to the end leaves the allowance where its builder found it, *)
(* whatever happened to the call and to abandoned sequences before it.     *)
RestoresWhatItFound ==
  [][\A s \in Session :
       (/\ TakesTurns
        /\ status[s] # "done" /\ status'[s] = "done"
        /\ Raised(s) /\ Reclaims(job[s]))
       => allowance'[SlotOf[s]] = found[s]]_vars

(* Whatever fails, overlaps or is lost, the spender can never take more    *)
(* than the owner's own allowance or than one of the owner's sequences has *)
(* asked for.                                                              *)
NeverAboveAsked ==
  \A slot \in Slot :
    \/ allowance[slot] <= standing[slot]
    \/ \E s \in Session : /\ SlotOf[s] = slot /\ status[s] # "idle"
                          /\ allowance[slot] <= amount[s]

(* No approve of a sequence or of its reversals is ever refused by a token *)
(* that takes no change from non-zero to non-zero, while sequences take    *)
(* turns.                                                                  *)
UsdtRuleKept == TakesTurns => bounced = {}

(* The call lacks allowance only when what it costs outgrew the ceiling    *)
(* the builder asked for, while sequences take turns.                      *)
StarvedOnlyByAccrual ==
  TakesTurns => \A s \in Session : call[s] = "starved" => owed[s] > amount[s]

(* An allowance above the owner's own comes down again.                    *)
HeadroomReclaimed ==
  \A slot \in Slot :
    allowance[slot] > standing[slot] ~> allowance[slot] <= standing[slot]
=============================================================================
