----------------------------- MODULE ScopeProofs -----------------------------
(***************************************************************************)
(* The loop of README.md keeps the promise README.md makes: sequences that *)
(* take turns borrow an allowance, spend within it, and put it back.  What *)
(* the proofs ask of loop, requests and faults is Prudent; what happens    *)
(* without it is in the runs that expect a violation.                      *)
(***************************************************************************)
EXTENDS ExecutionScope, TurnsProofs

(* Every sequence waits for its turn and reclaims; the loop undoes what it *)
(* did when it throws; sends may fail and the protocol may refuse, but the *)
(* loop outlives its transactions.                                         *)
Prudent ==
  /\ UndoesOnError
  /\ Fault \subseteq {"sendThrows", "refused"}
  /\ \A j \in Job : j.waits /\ Reclaims(j)

(* A reversal to what was found is still to be sent.                       *)
ToCome(s) == \E i \in 1..Current(s).index :
  /\ plan[s][i].reversal # <<>>
  /\ \/ undo[s].step < i
     \/ undo[s].step = i /\ undo[s].at <= Len(plan[s][i].reversal)

(* What the holder of a slot knows of it.                                  *)
Borrowed(s) ==
  /\ status[s] = "priced" => allowance[SlotOf[s]] = standing[SlotOf[s]]
  /\ (Active(s) /\ status[s] # "priced" /\ Raised(s)) =>
       standing[SlotOf[s]] = found[s] /\ allowance[SlotOf[s]] <= amount[s]
  /\ (Active(s) /\ status[s] # "priced" /\ ~Raised(s)) =>
       allowance[SlotOf[s]] = standing[SlotOf[s]]
  /\ status[s] # "crashed"

(* A loop that gave up has sent its way back, or is about to.              *)
GoesBack(s) == Raised(s) =>
  /\ status[s] = "undoing" => LeavesBehind(s, found[s]) \/ ToCome(s)
  /\ (Ended(s) /\ Active(s)) => LeavesBehind(s, found[s])

SentFor(i) ==
  LET tx == mempool[i] IN
  /\ ~tx.undoes => status[tx.from] = "waiting"
  /\ ~Raised(tx.from) => tx.kind = "call"

Lent ==
  /\ StandingAllowanceKept
  /\ \A s \in Session : Borrowed(s) /\ GoesBack(s)
  /\ \A i \in 1..Len(mempool) : SentFor(i)

LentInv == TurnsInv /\ Lent
-----------------------------------------------------------------------------
LEMMA PrudentTurns ==
  ASSUME Prudent, TurnsInv
  PROVE  /\ TakesTurns /\ Turns /\ IInv
         /\ \A s \in Session : Reclaims(job[s])
BY DEF Prudent, TurnsInv, TakesTurns, IInv, TypeOK

(* Of a session with nothing pending: what is left behind is there.        *)
LEMMA LeftBehind ==
  ASSUME NEW s, Drained(s), NEW n
  PROVE  LeavesBehind(s, n) <=> allowance[SlotOf[s]] = n
BY DEF Drained, LeavesBehind, Finds

(* A step of one session that leaves the chain and the mempool alone.      *)
LEMMA QuietLent ==
  ASSUME IInv, Lent, NEW s \in Session,
         UNCHANGED <<allowance, standing, mempool>>,
         \A r \in Session \ {s} :
           /\ status'[r] = status[r] /\ pc'[r] = pc[r] /\ undo'[r] = undo[r]
           /\ plan'[r] = plan[r] /\ found'[r] = found[r] /\ amount'[r] = amount[r],
         Borrowed(s)', GoesBack(s)',
         \A i \in Pending(s) : SentFor(i)',
         ~Active(s)' => allowance[SlotOf[s]] = standing[SlotOf[s]]
  PROVE  Lent'
<1>1. \A r : Pending(r)' = Pending(r)
  BY DEF Pending
<1>2. \A r \in Session : r # s => Active(r)' = Active(r)
  BY <1>1 DEF Active, Ended, Drained
<1>3. \A r, i, n : Finds(r, i, n)' <=> Finds(r, i, n)
  BY <1>1 DEF Finds
<1>4. StandingAllowanceKept'
  <2> SUFFICES ASSUME NEW k \in Slot, AtRest(k)'
               PROVE  allowance[k] = standing[k]
    BY DEF StandingAllowanceKept
  <2>1. CASE k = SlotOf[s]
    BY <2>1 DEF AtRest
  <2>2. CASE k # SlotOf[s]
    <3>1. AtRest(k)
      BY <1>2, <2>2 DEF AtRest
    <3> QED
      BY <3>1 DEF Lent, StandingAllowanceKept
  <2> QED
    BY <2>1, <2>2
<1>5. ASSUME NEW r \in Session, r # s
      PROVE  Borrowed(r)' /\ GoesBack(r)'
  <2>1. Borrowed(r) /\ GoesBack(r)
    BY DEF Lent
  <2>2. Borrowed(r)'
    BY <1>2, <1>5, <2>1 DEF Borrowed, Raised
  <2>3. GoesBack(r)'
    BY <1>2, <1>3, <1>5, <2>1 DEF GoesBack, Raised, LeavesBehind, ToCome, Current, Ended
  <2> QED
    BY <2>2, <2>3
<1>6. ASSUME NEW i \in 1..Len(mempool)
      PROVE  SentFor(i)'
  <2>1. SentFor(i) /\ mempool[i].from \in Session
    BY ActiveOnes DEF Lent
  <2>2. CASE mempool[i].from = s
    BY <2>2 DEF Pending
  <2>3. CASE mempool[i].from # s
    BY <2>1, <2>3 DEF SentFor, Raised
  <2> QED
    BY <2>2, <2>3
<1> QED
  BY <1>4, <1>5, <1>6 DEF Lent

LEMMA PriceLent ==
  ASSUME IInv, TakesTurns, Turns, Lent, NEW s \in Session, Price(s)
  PROVE  Lent'
<1>1. /\ status[s] = "idle" /\ status' = [status EXCEPT ![s] = "priced"]
      /\ AtRest(SlotOf[s])
      /\ \E a : amount' = [amount EXCEPT ![s] = a]
      /\ UNCHANGED <<chainVars, pc, receipt, undo, job, plan, found>>
  BY DEF Price, TakesTurns
<1>2. allowance[SlotOf[s]] = standing[SlotOf[s]]
  BY <1>1, ExecutionAssumption DEF Lent, StandingAllowanceKept
<1>3. /\ status'[s] = "priced" /\ Pending(s) = {}
      /\ \A r \in Session \ {s} : status'[r] = status[r] /\ amount'[r] = amount[r]
  BY <1>1 DEF IInv, TypeOK, Turns, Fine, Unsent, Drained
<1>4. UNCHANGED <<allowance, standing, mempool>>
  BY <1>1 DEF chainVars
<1>5. Borrowed(s)' /\ GoesBack(s)'
  BY <1>2, <1>3, <1>4 DEF Borrowed, GoesBack, Ended
<1> QED
  BY <1>1, <1>2, <1>3, <1>4, <1>5, QuietLent

LEMMA BuildLent ==
  ASSUME IInv, Turns, Lent, NEW s \in Session, Build(s)
  PROVE  Lent'
<1>1. /\ status[s] = "priced" /\ status' = [status EXCEPT ![s] = "running"]
      /\ found' = [found EXCEPT ![s] = allowance[SlotOf[s]]]
      /\ \E p : plan' = [plan EXCEPT ![s] = p]
      /\ UNCHANGED <<chainVars, pc, receipt, undo, job, amount>>
  BY DEF Build
<1>2. allowance[SlotOf[s]] = standing[SlotOf[s]] /\ Pending(s) = {}
  BY <1>1 DEF Lent, Borrowed, Turns, Fine, Unsent, Drained
<1>3. /\ status'[s] = "running" /\ found'[s] = allowance[SlotOf[s]] /\ amount'[s] = amount[s]
      /\ \A r \in Session \ {s} :
           status'[r] = status[r] /\ found'[r] = found[r] /\ plan'[r] = plan[r]
  BY <1>1 DEF IInv, TypeOK
<1>4. UNCHANGED <<allowance, standing, mempool>>
  BY <1>1 DEF chainVars
<1>5. amount[s] \in Nat /\ allowance[SlotOf[s]] \in Nat
  BY ExecutionAssumption DEF IInv, TypeOK
<1>6. Borrowed(s)'
  BY <1>2, <1>3, <1>4, <1>5 DEF Borrowed, Raised
<1>7. GoesBack(s)'
  BY <1>3 DEF GoesBack, Ended
<1> QED
  BY <1>1, <1>2, <1>3, <1>4, <1>6, <1>7, QuietLent

LEMMA ConfirmLent ==
  ASSUME IInv, Turns, Lent, NEW s \in Session, Reclaims(job[s]), Confirm(s)
  PROVE  Lent'
<1>1. /\ status[s] = "waiting" /\ receipt[s] # "none"
      /\ UNCHANGED <<chainVars, receipt, undo, planVars>>
  BY DEF Confirm
<1>2. /\ Active(s) /\ Pending(s) = {}
      /\ Current(s).kind = "approve" => allowance[SlotOf[s]] = Current(s).amount
  BY <1>1, ActiveOnes DEF Turns, Fine, Awaits, Drained
<1>3. UNCHANGED <<allowance, standing, mempool, plan, found, amount>>
  BY <1>1 DEF chainVars, planVars
<1>4. Borrowed(s)
  BY DEF Lent
<1>5. CASE /\ pc[s] = Len(plan[s]) /\ UNCHANGED pc
           /\ status' = [status EXCEPT ![s] = "done"]
  <2>1. status'[s] = "done" /\ \A r \in Session \ {s} : status'[r] = status[r]
    BY <1>5 DEF IInv, TypeOK
  <2>2. ~Active(s)'
    BY <1>2, <1>3, <2>1 DEF Active, Ended, Drained, Pending
  <2>3. Borrowed(s)' /\ GoesBack(s)'
    BY <2>1, <2>2 DEF Borrowed, GoesBack
  <2>4. allowance[SlotOf[s]] = standing[SlotOf[s]]
    <3>1. CASE Raised(s)
      <4>1. IsPlan(plan[s], SlotOf[s], amount[s], found[s], Reclaims(job[s]))
        BY <1>1 DEF IInv, Planned, InLoop
      <4>2. found[s] < amount[s]
        BY <3>1 DEF Raised, IInv, TypeOK
      <4>3. Current(s).kind = "approve" /\ Current(s).amount = found[s]
        BY <1>5, <4>1, <4>2 DEF IsPlan, Current
      <4> QED
        BY <1>1, <1>2, <1>4, <3>1, <4>3 DEF Borrowed
    <3>2. CASE ~Raised(s)
      BY <1>1, <1>2, <1>4, <3>2 DEF Borrowed
    <3> QED
      BY <3>1, <3>2
  <2> QED
    BY <1>1, <1>2, <1>3, <1>5, <2>1, <2>3, <2>4, QuietLent
<1>6. CASE /\ status' = [status EXCEPT ![s] = "running"]
           /\ pc' = [pc EXCEPT ![s] = @ + 1]
  <2>1. /\ status'[s] = "running"
        /\ \A r \in Session \ {s} : status'[r] = status[r] /\ pc'[r] = pc[r]
    BY <1>6 DEF IInv, TypeOK
  <2>2. Active(s)'
    BY <2>1 DEF Active, Ended
  <2>3. Borrowed(s)' /\ GoesBack(s)'
    BY <1>1, <1>2, <1>3, <1>4, <2>1, <2>2 DEF Borrowed, GoesBack, Raised, Ended
  <2> QED
    BY <1>1, <1>2, <1>3, <2>1, <2>2, <2>3, QuietLent
<1> QED
  BY <1>5, <1>6 DEF Confirm

(* A loop that throws has either raised nothing yet, or passed the step    *)
(* that did.                                                               *)
LEMMA CatchLent ==
  ASSUME IInv, Turns, Lent, UndoesOnError, NEW s \in Session,
         SendThrows(s) \/ RevertedThrows(s)
  PROVE  Lent'
<1>1. /\ status' = [status EXCEPT ![s] = "undoing"]
      /\ UNCHANGED <<chainVars, pc, receipt, undo, planVars>>
      /\ \/ status[s] = "running"
         \/ status[s] = "waiting" /\ receipt[s] = "reverted"
  BY DEF SendThrows, RevertedThrows, Catch
<1>2. UNCHANGED <<allowance, standing, mempool, plan, found, amount>>
  BY <1>1 DEF chainVars, planVars
<1>3. /\ status'[s] = "undoing" /\ \A r \in Session \ {s} : status'[r] = status[r]
      /\ Active(s)
  BY <1>1, ActiveOnes DEF IInv, TypeOK
<1>4. Drained(s) /\ undo[s] = [step |-> 1, at |-> 1] /\ Borrowed(s)
  BY <1>1 DEF Turns, Fine, Unsent, Awaits, Lent
<1>5. Active(s)'
  BY <1>3 DEF Active, Ended
<1>6. Borrowed(s)'
  BY <1>1, <1>2, <1>3, <1>4, <1>5 DEF Borrowed, Raised
<1>7. InLoop(s)
  BY <1>1 DEF InLoop
<1>8. /\ pc[s] \in 1..Len(plan[s]) /\ Len(plan[s]) \in Nat
      /\ Current(s).index = pc[s] - 1
  BY <1>7, CurrentStep DEF Current
<1>9. Raised(s) => LeavesBehind(s, found[s]) \/ ToCome(s)
  <2> SUFFICES ASSUME Raised(s)
               PROVE  LeavesBehind(s, found[s]) \/ ToCome(s)
    OBVIOUS
  <2>1. IsPlan(plan[s], SlotOf[s], amount[s], found[s], Reclaims(job[s]))
    BY <1>7 DEF IInv, Planned
  <2>2. found[s] < amount[s]
    BY DEF Raised, IInv, TypeOK
  <2>3. plan[s][1].kind = "approve" /\ plan[s][1].reversal # <<>>
    BY <2>1, <2>2 DEF IsPlan
  <2>4. CASE pc[s] = 1
    <3>1. status[s] = "running"
      BY <1>1, <2>3, <2>4 DEF Turns, Fine, Awaits, Current
    <3>2. allowance[SlotOf[s]] = found[s]
      BY <2>4, <3>1 DEF Turns, Fine, Ready
    <3> QED
      BY <1>4, <3>2, LeftBehind
  <2>5. CASE pc[s] # 1
    <3>1. 1 \in 1..Current(s).index
      BY <1>8, <2>5
    <3>2. PICK r : r = plan[s][1].reversal
      OBVIOUS
    <3>3. 1 \in 1..Len(plan[s])
      BY <1>8
    <3>4. IsUndo(r, SlotOf[s], found[s])
      BY <1>7, <2>3, <3>2, <3>3, CurrentStep DEF PlanStep
    <3>5. 1 <= Len(r)
      BY <3>4 DEF IsUndo
    <3>6. undo[s].step = 1 /\ undo[s].at = 1
      BY <1>4
    <3> QED
      BY <2>3, <3>1, <3>2, <3>5, <3>6 DEF ToCome
  <2> QED
    BY <2>4, <2>5
<1>10. GoesBack(s)'
  <2>1. Raised(s)' = Raised(s) /\ ToCome(s)' = ToCome(s) /\ ~Ended(s)'
    BY <1>1, <1>2, <1>3 DEF Raised, ToCome, Current, Ended
  <2>2. LeavesBehind(s, found[s])' <=> LeavesBehind(s, found[s])
    BY <1>2 DEF LeavesBehind, Finds, Pending
  <2> QED
    BY <1>9, <2>1, <2>2 DEF GoesBack
<1> QED
  BY <1>1, <1>2, <1>3, <1>4, <1>5, <1>6, <1>10, QuietLent DEF Drained

LEMMA NextUndoneLent ==
  ASSUME IInv, Turns, Lent, NEW s \in Session, NextUndone(s)
  PROVE  Lent'
<1>1. /\ status[s] = "undoing" /\ InSlice(s) /\ ~HasReversal(s)
      /\ undo' = [undo EXCEPT ![s] = [step |-> @.step + 1, at |-> 1]]
      /\ UNCHANGED <<chainVars, status, pc, receipt, planVars>>
  BY DEF NextUndone
<1>2. /\ undo'[s].step = undo[s].step + 1 /\ undo'[s].at = 1
      /\ undo[s].step \in Nat /\ undo[s].at \in Nat
      /\ \A r \in Session \ {s} : undo'[r] = undo[r]
  BY <1>1 DEF IInv, TypeOK
<1>3. UNCHANGED <<allowance, standing, mempool, plan, found, amount>>
  BY <1>1 DEF chainVars, planVars
<1>4. Borrowed(s) /\ GoesBack(s) /\ Active(s)
  BY <1>1, ActiveOnes DEF Lent
<1>5. Active(s)'
  BY <1>1 DEF Active, Ended
<1>6. Borrowed(s)'
  BY <1>1, <1>3, <1>4 DEF Borrowed, Raised, Active, Ended, Drained, Pending
<1>7. ToCome(s) => ToCome(s)'
  <2> SUFFICES ASSUME NEW i \in 1..Current(s).index, plan[s][i].reversal # <<>>,
                      \/ undo[s].step < i
                      \/ undo[s].step = i /\ undo[s].at <= Len(plan[s][i].reversal)
               PROVE  ToCome(s)'
    BY DEF ToCome
  <2>1. ~(undo[s].step = i /\ undo[s].at <= Len(plan[s][i].reversal))
    BY <1>1 DEF HasReversal, Undone
  <2>2. InLoop(s)
    BY <1>1 DEF InLoop
  <2>3. /\ pc[s] \in 1..Len(plan[s]) /\ Len(plan[s]) \in Nat
        /\ Current(s).index = pc[s] - 1
    BY <2>2, CurrentStep DEF Current
  <2>4. i \in 1..Len(plan[s]) /\ i \in Nat
    BY <2>3
  <2>5. PICK r : r = plan[s][i].reversal
    OBVIOUS
  <2>6. IsUndo(r, SlotOf[s], found[s])
    BY <2>2, <2>4, <2>5, CurrentStep DEF PlanStep
  <2>7. 1 <= Len(r)
    BY <2>6 DEF IsUndo
  <2>8. undo'[s].step < i \/ (undo'[s].step = i /\ undo'[s].at <= Len(r))
    BY <1>2, <2>1, <2>4, <2>7
  <2>9. i \in 1..Current(s)'.index /\ plan'[s][i].reversal = r
    BY <1>1, <1>3, <2>5 DEF Current
  <2>10. (plan[s][i].reversal)' # <<>> /\ i \in (1..Current(s).index)'
    BY <2>5, <2>9
  <2> QED
    BY <2>8, <2>9, <2>10 DEF ToCome
<1>8. GoesBack(s)'
  <2>1. Raised(s)' = Raised(s) /\ ~Ended(s)'
    BY <1>1, <1>3 DEF Raised, Ended
  <2>2. LeavesBehind(s, found[s])' <=> LeavesBehind(s, found[s])
    BY <1>3 DEF LeavesBehind, Finds, Pending
  <2> QED
    BY <1>1, <1>4, <1>7, <2>1, <2>2 DEF GoesBack
<1>9. \A i \in Pending(s) : SentFor(i)'
  BY <1>1, <1>3 DEF Lent, SentFor, Raised, Pending
<1> QED
  BY <1>1, <1>2, <1>3, <1>5, <1>6, <1>8, <1>9, QuietLent

(* A catch block that has walked its slice has sent the way back.          *)
LEMMA RethrowLent ==
  ASSUME IInv, Turns, Lent, "undoThrows" \notin Fault, NEW s \in Session, Rethrow(s)
  PROVE  Lent'
<1>1. /\ status[s] = "undoing" /\ ~InSlice(s)
      /\ status' = [status EXCEPT ![s] = "failed"]
      /\ UNCHANGED <<chainVars, pc, receipt, undo, planVars>>
  BY DEF Rethrow
<1>2. UNCHANGED <<allowance, standing, mempool, plan, found, amount>>
  BY <1>1 DEF chainVars, planVars
<1>3. /\ status'[s] = "failed" /\ \A r \in Session \ {s} : status'[r] = status[r]
      /\ Active(s) /\ Borrowed(s) /\ GoesBack(s)
  BY <1>1, ActiveOnes DEF IInv, TypeOK, Lent
<1>4. ~ToCome(s)
  <2> SUFFICES ASSUME NEW i \in 1..Current(s).index,
                      undo[s].step < i \/ undo[s].step = i
               PROVE  FALSE
    BY DEF ToCome
  <2>1. InLoop(s)
    BY <1>1 DEF InLoop
  <2>2. pc[s] \in Nat /\ Current(s).index = pc[s] - 1
    BY <2>1, CurrentStep DEF Current
  <2>3. undo[s].step \in Nat
    BY DEF IInv, TypeOK
  <2> QED
    BY <1>1, <2>2, <2>3 DEF InSlice
<1>5. Raised(s) => LeavesBehind(s, found[s])
  BY <1>1, <1>3, <1>4 DEF GoesBack
<1>6. Borrowed(s)'
  BY <1>1, <1>2, <1>3 DEF Borrowed, Raised
<1>7. GoesBack(s)'
  <2>1. Raised(s)' = Raised(s)
    BY <1>2 DEF Raised
  <2>2. LeavesBehind(s, found[s])' <=> LeavesBehind(s, found[s])
    BY <1>2 DEF LeavesBehind, Finds, Pending
  <2> QED
    BY <1>3, <1>5, <2>1, <2>2 DEF GoesBack
<1>8. \A i \in Pending(s) : SentFor(i)'
  <2> SUFFICES ASSUME NEW i \in Pending(s)
               PROVE  SentFor(i)'
    OBVIOUS
  <2>1. SentFor(i) /\ mempool[i].from = s
    BY DEF Lent, Pending
  <2>2. mempool[i].undoes
    BY <1>1, <2>1 DEF SentFor
  <2> QED
    BY <1>2, <2>1, <2>2 DEF SentFor, Raised
<1>9. ~Active(s)' => allowance[SlotOf[s]] = standing[SlotOf[s]]
  <2> SUFFICES ASSUME ~Active(s)'
               PROVE  allowance[SlotOf[s]] = standing[SlotOf[s]]
    OBVIOUS
  <2>1. Drained(s)
    BY <1>2, <1>3 DEF Active, Drained, Pending
  <2>2. Raised(s) => allowance[SlotOf[s]] = found[s]
    BY <1>5, <2>1, LeftBehind
  <2> QED
    BY <1>1, <1>3, <2>2 DEF Borrowed
<1> QED
  BY <1>1, <1>2, <1>3, <1>6, <1>7, <1>8, <1>9, QuietLent

(* One session sends one transaction more.                                 *)
LEMMA SubmitLent ==
  ASSUME IInv, Turns, Lent, NEW s \in Session,
         NEW kind \in {"approve", "call"}, NEW n \in Nat, NEW undoes \in BOOLEAN,
         Submit(s, kind, SlotOf[s], n, undoes),
         UNCHANGED <<allowance, standing, pc, planVars>>,
         \A r \in Session \ {s} : status'[r] = status[r] /\ undo'[r] = undo[r],
         status[s] \in {"running", "undoing"}, status'[s] \in {"waiting", "undoing"},
         ~undoes => status'[s] = "waiting",
         Drained(s) \/ status'[s] = status[s],
         ~Raised(s) => kind = "call",
         GoesBack(s)'
  PROVE  Lent'
<1>0. PICK tx \in Tx : /\ mempool' = Append(mempool, tx)
                       /\ tx.from = s /\ tx.kind = kind /\ tx.undoes = undoes
  BY Submitted
<1>1. /\ Len(mempool) \in Nat /\ Len(mempool') = Len(mempool) + 1
      /\ \A i \in 1..Len(mempool) : mempool'[i] = mempool[i]
      /\ mempool'[Len(mempool) + 1] = tx
      /\ \A r : Pending(r)' = IF tx.from = r THEN Pending(r) \cup {Len(mempool) + 1}
                              ELSE Pending(r)
  BY <1>0, Appended DEF IInv
<1>2. /\ \A r \in Session : r # s => Pending(r)' = Pending(r) /\ Active(r)' = Active(r)
      /\ Active(s) /\ Active(s)'
  BY <1>0, <1>1 DEF Active, Ended, Drained
<1>3. UNCHANGED <<plan, found, amount>>
  BY DEF planVars
<1>4. StandingAllowanceKept'
  BY <1>2 DEF StandingAllowanceKept, AtRest, Lent
<1>5. Borrowed(s)'
  <2>1. Borrowed(s)
    BY DEF Lent
  <2> QED
    BY <1>2, <1>3, <2>1 DEF Borrowed, Raised
<1>6. ASSUME NEW r \in Session, r # s
      PROVE  Borrowed(r)' /\ GoesBack(r)'
  <2>1. Borrowed(r) /\ GoesBack(r) /\ status'[r] = status[r] /\ undo'[r] = undo[r]
    BY <1>6 DEF Lent
  <2>2. Borrowed(r)'
    BY <1>2, <1>3, <1>6, <2>1 DEF Borrowed, Raised
  <2>3. ToCome(r)' = ToCome(r) /\ Raised(r)' = Raised(r)
    BY <1>3, <2>1 DEF ToCome, Current, Raised
  <2>4. LeavesBehind(r, found[r]) => LeavesBehind(r, found[r])'
    <3> SUFFICES ASSUME LeavesBehind(r, found[r])
                 PROVE  LeavesBehind(r, found[r])'
      OBVIOUS
    <3>1. PICK l, m : l = Len(mempool) + 1 /\ m = found[r]
      OBVIOUS
    <3>2. l \in 1..(Len(mempool) + 1) /\ Finds(r, l, m)
      BY <1>1, <3>1 DEF LeavesBehind
    <3>3. Finds(r, l + 1, m)'
      BY <1>0, <1>6, <3>1, <3>2, FindsStill DEF IInv
    <3>4. LeavesBehind(r, m)'
      BY <1>1, <3>1, <3>3 DEF LeavesBehind
    <3>5. m = (found[r])'
      BY <1>3, <3>1
    <3> QED
      BY <3>4, <3>5
  <2>5. GoesBack(r)'
    BY <1>2, <1>6, <2>1, <2>3, <2>4 DEF GoesBack, Ended
  <2> QED
    BY <2>2, <2>5
<1>7. ASSUME NEW i \in 1..Len(mempool')
      PROVE  SentFor(i)'
  <2>1. CASE i \in 1..Len(mempool)
    <3>1. PICK old : old = mempool[i]
      OBVIOUS
    <3>2. SentFor(i) /\ old.from \in Session /\ i \in Pending(old.from)
      BY <2>1, <3>1, ActiveOnes DEF Lent
    <3>3. mempool'[i] = old
      BY <1>1, <2>1, <3>1
    <3>4. old.from = s => ~Drained(s)
      BY <3>2 DEF Drained
    <3>5. status'[old.from] = status[old.from]
      BY <3>2, <3>4
    <3> QED
      BY <1>3, <3>1, <3>2, <3>3, <3>5 DEF SentFor, Raised
  <2>2. CASE i = Len(mempool) + 1
    BY <1>0, <1>1, <1>3, <2>2 DEF SentFor, Raised
  <2> QED
    BY <1>1, <2>1, <2>2
<1> QED
  BY <1>4, <1>5, <1>6, <1>7 DEF Lent

LEMMA SendLent ==
  ASSUME IInv, Turns, Lent, NEW s \in Session, Send(s)
  PROVE  Lent'
<1>1. /\ status[s] = "running" /\ status' = [status EXCEPT ![s] = "waiting"]
      /\ Submit(s, Current(s).kind, Current(s).slot, Current(s).amount, FALSE)
      /\ UNCHANGED <<allowance, standing, pc, undo, planVars>>
  BY DEF Send
<1>2. InLoop(s) /\ Drained(s)
  BY <1>1 DEF InLoop, Turns, Fine, Unsent
<1>3. /\ pc[s] \in 1..Len(plan[s])
      /\ PlanStep(plan[s], pc[s], SlotOf[s], amount[s], found[s])
  BY <1>2, CurrentStep
<1>4. /\ Current(s).kind \in {"approve", "call"} /\ Current(s).slot = SlotOf[s]
      /\ Current(s).amount \in Nat
  BY <1>2, <1>3, PlanStepBound DEF Current
<1>5. PICK kind \in {"approve", "call"}, n \in Nat, no \in BOOLEAN :
        kind = Current(s).kind /\ n = Current(s).amount /\ no = FALSE
  BY <1>4
<1>6. Submit(s, kind, SlotOf[s], n, no)
  BY <1>1, <1>4, <1>5
<1>7. /\ status'[s] = "waiting" /\ \A r \in Session \ {s} : status'[r] = status[r]
  BY <1>1 DEF IInv, TypeOK
<1>8. ~Raised(s) => kind = "call"
  <2>1. amount[s] \in Nat /\ found[s] \in Nat
    BY DEF IInv, TypeOK
  <2> QED
    BY <1>3, <1>5, <2>1 DEF PlanStep, Current, Raised
<1>9. GoesBack(s)'
  BY <1>7 DEF GoesBack, Ended
<1> QED
  BY <1>1, <1>2, <1>5, <1>6, <1>7, <1>8, <1>9, SubmitLent

(* The last reversal of a step is the way back to what was found.          *)
LEMMA SendUndoLent ==
  ASSUME IInv, Turns, Lent, NEW s \in Session, SendUndo(s)
  PROVE  Lent'
<1>1. /\ status[s] = "undoing" /\ HasReversal(s)
      /\ Submit(s, "approve", Undone(s).slot, Undone(s).reversal[undo[s].at], TRUE)
      /\ undo' = [undo EXCEPT ![s].at = @ + 1]
      /\ UNCHANGED <<allowance, standing, status, pc, planVars>>
  BY DEF SendUndo
<1>2. PICK u, k, rev : u = undo[s].step /\ k = undo[s].at /\ rev = plan[s][u].reversal
  OBVIOUS
<1>3. /\ u \in 1..Len(plan[s]) /\ u <= Current(s).index /\ Current(s).index \in Nat
      /\ k \in 1..Len(rev) /\ IsUndo(rev, SlotOf[s], found[s])
      /\ plan[s][u].kind = "approve" /\ Undone(s).slot = SlotOf[s] /\ rev[k] \in Nat
  BY <1>1, <1>2, ReversalHere
<1>4. PICK n \in Nat, yes \in BOOLEAN : n = rev[k] /\ yes = TRUE
  BY <1>3
<1>5. Submit(s, "approve", SlotOf[s], n, yes)
  BY <1>1, <1>2, <1>3, <1>4 DEF Undone
<1>6. /\ undo'[s].step = u /\ undo'[s].at = k + 1
      /\ \A r \in Session \ {s} : undo'[r] = undo[r]
  <2>1. undo \in [Session -> [step : Nat \ {0}, at : Nat \ {0}]]
    BY DEF IInv, TypeOK
  <2> QED
    BY <1>1, <1>2, <2>1
<1>7. UNCHANGED <<plan, found, amount>>
  BY <1>1 DEF planVars
<1>8. Raised(s)
  <2>1. InLoop(s)
    BY <1>1 DEF InLoop
  <2>2. PlanStep(plan[s], u, SlotOf[s], amount[s], found[s])
    BY <1>3, <2>1, CurrentStep
  <2>3. amount[s] \in Nat /\ found[s] \in Nat
    BY DEF IInv, TypeOK
  <2> QED
    BY <1>3, <2>2, <2>3 DEF PlanStep, Raised
<1>9. GoesBack(s)'
  <2>1. CASE k = Len(rev)
    <3>1. n = found[s]
      BY <1>3, <1>4, <2>1 DEF IsUndo
    <3>2. PICK tx \in Tx : /\ mempool' = Append(mempool, tx)
                           /\ tx.from = s /\ tx.kind = "approve" /\ tx.amount = n
      BY <1>5, Submitted
    <3>3. LeavesBehind(s, n)'
      BY <3>2, FindsTheLast DEF IInv
    <3>4. n = (found[s])'
      BY <1>7, <3>1
    <3>5. ~Ended(s)'
      BY <1>1 DEF Ended
    <3> QED
      BY <3>3, <3>4, <3>5 DEF GoesBack
  <2>2. CASE k # Len(rev)
    <3>1. u \in Nat /\ u \in 1..Current(s).index
      BY <1>3
    <3>2. k + 1 <= Len(rev)
      BY <1>3, <2>2 DEF IsUndo
    <3>3. rev # <<>>
      BY <1>3 DEF IsUndo
    <3>4. /\ (plan[s][u].reversal)' = rev /\ (1..Current(s).index)' = 1..Current(s).index
          /\ ~Ended(s)'
      BY <1>1, <1>2, <1>7 DEF Current, Ended
    <3>5. ToCome(s)'
      BY <1>6, <3>1, <3>2, <3>3, <3>4 DEF ToCome
    <3> QED
      BY <3>4, <3>5 DEF GoesBack
  <2> QED
    BY <2>1, <2>2
<1> QED
  BY <1>1, <1>4, <1>5, <1>6, <1>8, <1>9, SubmitLent
-----------------------------------------------------------------------------
(* The chain's steps.                                                      *)

(* A mined transaction ends nobody else's hold.                            *)
LEMMA OthersStay ==
  ASSUME TypeOK, mempool # <<>>, mempool' = Tail(mempool), UNCHANGED status
  PROVE  /\ \A r \in Session : Active(r)' => Active(r)
         /\ \A r \in Session : r # mempool[1].from => Active(r)' = Active(r)
<1>1. /\ Len(mempool) \in Nat \ {0}
      /\ \A r : Pending(r)' = {i \in 1..(Len(mempool) - 1) : i + 1 \in Pending(r)}
  BY Shifted
<1>2. \A r \in Session : Active(r)' => Active(r)
  BY <1>1 DEF Active, Ended, Drained
<1>3. ASSUME NEW r \in Session, r # mempool[1].from
      PROVE  Drained(r)' = Drained(r)
  <2>1. 1 \notin Pending(r) /\ Pending(r) \subseteq 1..Len(mempool)
    BY <1>3, PendingIs DEF Pending
  <2>2. ASSUME NEW j \in Pending(r)
        PROVE  j - 1 \in Pending(r)'
    <3>1. j - 1 \in 1..(Len(mempool) - 1) /\ (j - 1) + 1 = j
      BY <1>1, <2>1
    <3> QED
      BY <1>1, <3>1
  <2>3. ASSUME NEW j \in Pending(r)'
        PROVE  j + 1 \in Pending(r)
    BY <1>1
  <2> QED
    BY <2>2, <2>3 DEF Drained
<1> QED
  BY <1>2, <1>3 DEF Active, Ended

(* Whose last transaction is mined ends at what was found.                 *)
LEMMA MinedLent ==
  ASSUME IInv, Turns, Lent, mempool # <<>>, mempool' = Tail(mempool),
         UNCHANGED <<status, pc, undo, planVars>>,
         NEW tx, tx = mempool[1],
         \A k \in Slot \ {tx.slot} : allowance'[k] = allowance[k] /\ standing'[k] = standing[k],
         tx.kind = "approve" =>
           allowance'[tx.slot] = tx.amount /\ standing'[tx.slot] = standing[tx.slot],
         tx.kind = "call" => IF Raised(tx.from)
           THEN /\ standing'[tx.slot] = standing[tx.slot]
                /\ allowance[tx.slot] <= amount[tx.from]
                     => allowance'[tx.slot] <= amount[tx.from]
           ELSE allowance'[tx.slot] = standing'[tx.slot]
  PROVE  Lent'
<1>1. /\ Len(mempool) \in Nat \ {0} /\ Len(mempool') = Len(mempool) - 1
      /\ \A i \in 1..Len(mempool') : mempool'[i] = mempool[i + 1]
      /\ \A r : Pending(r)' = {i \in 1..(Len(mempool) - 1) : i + 1 \in Pending(r)}
  BY Shifted DEF IInv
<1> DEFINE s == tx.from
<1>2. /\ 1 \in 1..Len(mempool) /\ s \in Session /\ 1 \in Pending(s) /\ Active(s)
      /\ tx.slot = SlotOf[s] /\ tx.slot \in Slot /\ FineAt(1) /\ SentFor(1)
  BY <1>1, ActiveOnes, ExecutionAssumption DEF Turns, PendingFine, Lent
<1>3. /\ tx.kind \in {"approve", "call"} /\ tx.undoes \in BOOLEAN
      /\ tx.kind = "approve" => tx.amount <= amount[s]
  BY <1>2, PendingIs DEF IInv, PendingBounded
<1>4. UNCHANGED <<plan, found, amount>>
  BY DEF planVars
<1>5. \A r \in Session : Active(r)' => Active(r)
  BY OthersStay DEF IInv
<1>6. \A r \in Session : r # s => Active(r)' = Active(r)
  BY OthersStay DEF IInv
<1>7. \A r \in Session : Active(r) /\ r # s =>
        /\ allowance'[SlotOf[r]] = allowance[SlotOf[r]]
        /\ standing'[SlotOf[r]] = standing[SlotOf[r]]
  <2> SUFFICES ASSUME NEW r \in Session, Active(r), r # s
               PROVE  SlotOf[r] \in Slot \ {tx.slot}
    OBVIOUS
  <2>1. SlotOf[r] # SlotOf[s]
    BY <1>2 DEF Turns, OneAtATime
  <2> QED
    BY <1>2, <2>1, ExecutionAssumption
<1>8. ASSUME NEW r \in Session, Active(r), LeavesBehind(r, found[r])
      PROVE  LeavesBehind(r, found[r])'
  <2>1. PICK l, m : l = Len(mempool) + 1 /\ m = found[r]
    OBVIOUS
  <2>2. l \in 2..(Len(mempool) + 1) /\ Finds(r, l, m)
    BY <1>1, <1>8, <2>1 DEF LeavesBehind
  <2>3. mempool[1].from # r => allowance'[SlotOf[r]] = allowance[SlotOf[r]]
    BY <1>7, <1>8
  <2>4. (mempool[1].from = r /\ mempool[1].kind = "approve")
          => allowance'[SlotOf[r]] = mempool[1].amount
    BY <1>2
  <2>5. Finds(r, l - 1, m)'
    BY <2>2, <2>3, <2>4, FindsOnward DEF IInv
  <2>6. l - 1 = Len(mempool') + 1
    BY <1>1, <2>1
  <2>7. LeavesBehind(r, m)'
    BY <2>5, <2>6 DEF LeavesBehind
  <2>8. m = (found[r])'
    BY <1>4, <2>1
  <2> QED
    BY <2>7, <2>8
<1>9. ASSUME NEW r \in Session
      PROVE  GoesBack(r)'
  <2>1. GoesBack(r) /\ ToCome(r)' = ToCome(r) /\ Raised(r)' = Raised(r)
    BY <1>4 DEF Lent, ToCome, Current, Raised
  <2>2. status[r] = "undoing" => Active(r)
    BY ActiveOnes
  <2> QED
    BY <1>5, <1>8, <2>1, <2>2 DEF GoesBack, Ended
<1>10. ASSUME NEW r \in Session
       PROVE  Borrowed(r)'
  <2>1. Borrowed(r) /\ Raised(r)' = Raised(r)
    BY <1>4 DEF Lent, Raised
  <2>2. CASE r # s
    <3>1. status[r] = "priced" => Active(r)
      BY ActiveOnes
    <3> QED
      BY <1>4, <1>5, <1>7, <2>1, <2>2, <3>1 DEF Borrowed
  <2>3. CASE r = s
    <3>1. status[s] # "priced"
      BY <1>2 DEF Turns, Fine, Unsent, Drained
    <3>2. Raised(s) => /\ standing'[tx.slot] = found[s]
                       /\ allowance'[tx.slot] <= amount[s]
      BY <1>2, <1>3, <2>1, <2>3, <3>1 DEF Borrowed
    <3>3. ~Raised(s) => allowance'[tx.slot] = standing'[tx.slot]
      BY <1>2 DEF SentFor
    <3> QED
      BY <1>2, <1>4, <2>1, <2>3, <3>1, <3>2, <3>3 DEF Borrowed
  <2> QED
    BY <2>2, <2>3
<1>11. StandingAllowanceKept'
  <2> SUFFICES ASSUME NEW k \in Slot, AtRest(k)'
               PROVE  allowance'[k] = standing'[k]
    BY DEF StandingAllowanceKept
  <2>1. CASE k # tx.slot
    <3>1. AtRest(k)
      BY <1>2, <1>6, <2>1 DEF AtRest
    <3> QED
      BY <2>1, <3>1 DEF Lent, StandingAllowanceKept
  <2>2. CASE k = tx.slot
    <3>1. ~Active(s)'
      BY <1>2, <2>2 DEF AtRest
    <3>2. Ended(s) /\ Drained(s)' /\ status[s] # "idle"
      BY <1>2, <3>1 DEF Active, Ended
    <3>3. tx.undoes
      BY <1>2, <3>2 DEF SentFor, Ended
    <3>4. tx.kind = "approve" /\ Raised(s)
      BY <1>2, <1>3, <3>3 DEF FineAt, SentFor
    <3>5. LeavesBehind(s, found[s])
      BY <1>2, <3>2, <3>4 DEF Lent, GoesBack
    <3>6. PICK m : m = found[s]
      OBVIOUS
    <3>7. (LeavesBehind(s, m) /\ Drained(s))'
      BY <1>2, <1>4, <1>8, <3>2, <3>5, <3>6
    <3>8. allowance'[SlotOf[s]] = m
      BY <3>7 DEF Drained, LeavesBehind, Finds
    <3>9. standing'[tx.slot] = m
      BY <1>2, <3>2, <3>4, <3>6 DEF Lent, Borrowed, Ended
    <3> QED
      BY <1>2, <2>2, <3>8, <3>9
  <2> QED
    BY <2>1, <2>2
<1>12. ASSUME NEW i \in 1..Len(mempool')
       PROVE  SentFor(i)'
  <2>1. PICK old : old = mempool[i + 1]
    OBVIOUS
  <2>2. i + 1 \in 1..Len(mempool) /\ mempool'[i] = old
    BY <1>1, <2>1
  <2>3. SentFor(i + 1)
    BY <2>2 DEF Lent
  <2> QED
    BY <1>4, <2>1, <2>2, <2>3 DEF SentFor, Raised
<1> QED
  BY <1>9, <1>10, <1>11, <1>12 DEF Lent

LEMMA MineLent ==
  ASSUME IInv, Turns, Lent, Mine
  PROVE  Lent'
<1>1. PICK tx : tx = Head(mempool)
  OBVIOUS
<1>2. mempool # <<>> /\ mempool \in Seq(Tx)
  BY PendingIs DEF Mine, MineApprove, MineBouncedApprove, MineCall, MineRevertedCall, IInv
<1>3. /\ tx = mempool[1] /\ 1 \in 1..Len(mempool)
      /\ \A s : Pending(s) \subseteq 1..Len(mempool)
  BY <1>1, <1>2, HeadTailProperties, LenProperties, EmptySeq DEF Pending
<1>4. /\ tx.from \in Session /\ 1 \in Pending(tx.from) /\ Active(tx.from)
      /\ tx.slot = SlotOf[tx.from] /\ tx.slot \in Slot /\ FineAt(1) /\ SentFor(1)
  BY <1>3, ActiveOnes, ExecutionAssumption DEF Turns, PendingFine, Lent
<1>5. allowance \in [Slot -> Nat] /\ standing \in [Slot -> Nat] /\ Borrowed(tx.from)
  BY <1>4 DEF IInv, TypeOK, Lent
<1>6. CASE MineApprove
  <2>1. /\ tx.kind = "approve" /\ allowance' = [allowance EXCEPT ![tx.slot] = tx.amount]
        /\ mempool' = Tail(mempool)
        /\ UNCHANGED <<standing, status, pc, undo, planVars>>
    BY <1>1, <1>6 DEF MineApprove, Report
  <2>2. /\ \A k \in Slot \ {tx.slot} : allowance'[k] = allowance[k]
        /\ allowance'[tx.slot] = tx.amount
    BY <1>4, <1>5, <2>1
  <2> QED
    BY <1>2, <1>3, <2>1, <2>2, MinedLent
<1>7. CASE MineBouncedApprove
  <2>1. TokenRefuses(tx) /\ tx.kind = "approve"
    BY <1>1, <1>7 DEF MineBouncedApprove
  <2>2. Finds(tx.from, 1, 0) => allowance[tx.slot] = 0
    BY <1>3, <1>4 DEF Finds
  <2> QED
    BY <1>3, <1>4, <2>1, <2>2 DEF FineAt, TokenRefuses
<1>8. CASE MineCall
  <2>1. PICK n : n = Pull(tx.from)
    OBVIOUS
  <2>2. /\ tx.kind = "call" /\ n <= allowance[tx.slot]
        /\ allowance' = [allowance EXCEPT ![tx.slot] = @ - n]
        /\ standing' = IF Raised(tx.from) THEN standing
                       ELSE [standing EXCEPT ![tx.slot] = IF n < @ THEN @ - n ELSE 0]
        /\ mempool' = Tail(mempool)
        /\ UNCHANGED <<status, pc, undo, planVars>>
    BY <1>1, <1>8, <2>1 DEF MineCall, Report
  <2>3. n \in Nat /\ amount[tx.from] \in Nat
    BY <1>4, <2>1 DEF IInv, TypeOK, Pull
  <2>4. /\ \A k \in Slot \ {tx.slot} : allowance'[k] = allowance[k]
        /\ allowance'[tx.slot] = allowance[tx.slot] - n
        /\ \A k \in Slot \ {tx.slot} : standing'[k] = standing[k]
    BY <1>4, <1>5, <2>2
  <2>5. CASE Raised(tx.from)
    <3>1. standing' = standing /\ allowance[tx.slot] \in Nat
      BY <1>4, <1>5, <2>2, <2>5
    <3>2. allowance[tx.slot] <= amount[tx.from] => allowance'[tx.slot] <= amount[tx.from]
      BY <2>3, <2>4, <3>1
    <3> QED
      BY <1>2, <1>3, <2>2, <2>4, <2>5, <3>1, <3>2, MinedLent
  <2>6. CASE ~Raised(tx.from)
    <3>1. standing'[tx.slot] = IF n < standing[tx.slot] THEN standing[tx.slot] - n ELSE 0
      BY <1>4, <1>5, <2>2, <2>6
    <3>2. status[tx.from] # "priced"
      BY <1>4 DEF Turns, Fine, Unsent, Drained
    <3>3. allowance[tx.slot] = standing[tx.slot] /\ allowance[tx.slot] \in Nat
      BY <1>4, <1>5, <2>6, <3>2 DEF Borrowed
    <3>4. allowance'[tx.slot] = standing'[tx.slot]
      BY <2>2, <2>3, <2>4, <3>1, <3>3
    <3> QED
      BY <1>2, <1>3, <2>2, <2>4, <2>6, <3>4, MinedLent
  <2> QED
    BY <2>5, <2>6
<1>9. CASE MineRevertedCall
  <2>1. /\ tx.kind = "call" /\ mempool' = Tail(mempool)
        /\ UNCHANGED <<allowance, standing, status, pc, undo, planVars>>
    BY <1>1, <1>9 DEF MineRevertedCall, Report
  <2>2. status[tx.from] # "priced"
    BY <1>4 DEF Turns, Fine, Unsent, Drained
  <2>3. ~Raised(tx.from) => allowance[tx.slot] = standing[tx.slot]
    BY <1>4, <1>5, <2>2 DEF Borrowed
  <2> QED
    BY <1>2, <1>3, <2>1, <2>3, MinedLent
<1> QED
  BY <1>6, <1>7, <1>8, <1>9 DEF Mine

(* Nothing moves that the promise speaks of.                               *)
LEMMA StillLent ==
  ASSUME Lent,
         UNCHANGED <<allowance, standing, mempool, status, pc, undo, amount, plan, found>>
  PROVE  Lent'
<1>1. /\ \A r : Pending(r)' = Pending(r)
      /\ \A r : Active(r)' = Active(r)
  BY DEF Pending, Active, Ended, Drained
<1>2. \A r, i, n : Finds(r, i, n)' <=> Finds(r, i, n)
  BY <1>1 DEF Finds
<1>3. StandingAllowanceKept'
  BY <1>1 DEF Lent, StandingAllowanceKept, AtRest
<1>4. \A i \in 1..Len(mempool) : SentFor(i)'
  BY DEF Lent, SentFor, Raised
<1>5. ASSUME NEW s \in Session
      PROVE  Borrowed(s)' /\ GoesBack(s)'
  <2>1. Borrowed(s) /\ GoesBack(s)
    BY DEF Lent
  <2> QED
    BY <1>1, <1>2, <2>1 DEF Borrowed, GoesBack, Raised, Ended, LeavesBehind, ToCome, Current
<1> QED
  BY <1>3, <1>4, <1>5 DEF Lent

LEMMA NextLent ==
  ASSUME Prudent
  PROVE  LentInv /\ [Next]_vars => LentInv'
<1> SUFFICES ASSUME LentInv, [Next]_vars
             PROVE  Lent'
  BY NextTurns DEF LentInv
<1>1. /\ IInv /\ TakesTurns /\ Turns /\ Lent
      /\ \A s \in Session : Reclaims(job[s])
      /\ UndoesOnError /\ {"timeout", "crash", "undoThrows"} \cap Fault = {}
  BY PrudentTurns DEF LentInv, Prudent
<1>2. ASSUME NEW s \in Session, Price(s) \/ Build(s)
      PROVE  Lent'
  BY <1>1, <1>2, PriceLent, BuildLent
<1>3. ASSUME NEW s \in Session, Execute(s)
      PROVE  Lent'
  BY <1>1, <1>3, SendLent, ConfirmLent, CatchLent, SendUndoLent, NextUndoneLent,
     RethrowLent DEF Execute
<1>4. ASSUME NEW s \in Session, Fail(s)
      PROVE  Lent'
  BY <1>1, <1>4, CatchLent DEF Fail, WaitTimesOut, Crash
<1>5. ASSUME NEW s \in Session, Accrue(s)
      PROVE  Lent'
  BY <1>1, <1>5, StillLent DEF Accrue, loopVars, planVars
<1>6. CASE Finished \/ UNCHANGED vars
  BY <1>1, <1>6, StillLent DEF Finished, vars, chainVars, loopVars, planVars
<1> QED
  BY <1>1, <1>2, <1>3, <1>4, <1>5, <1>6, MineLent DEF Next

LEMMA InitLent == Init => LentInv
<1> SUFFICES ASSUME Init
             PROVE  Lent
  BY InitTurns DEF LentInv
<1>1. Len(mempool) = 0 /\ 1..Len(mempool) = {}
  BY EmptySeq DEF Init
<1>2. StandingAllowanceKept
  BY DEF Init, StandingAllowanceKept
<1>3. \A s \in Session : Borrowed(s) /\ GoesBack(s)
  BY DEF Init, Borrowed, GoesBack, Active, Ended
<1> QED
  BY <1>1, <1>2, <1>3 DEF Lent
-----------------------------------------------------------------------------
(* The theorems about allowances.                                          *)

(* What the holder of an allowance owes, and that it pays: the inductive   *)
(* invariant of the loop that undoes what it did when it throws.           *)
THEOREM LentInvariance ==
  ASSUME Prudent
  PROVE  Spec => []LentInv
<1>1. LentInv /\ [Next]_vars => LentInv'
  BY NextLent
<1> QED
  BY <1>1, InitLent, PTL DEF Spec

(* Between sequences an allowance is what the owner granted for keeps,     *)
(* less what calls that needed no raise took: the clear step or the        *)
(* reversals of a catch block have put every raise back.                   *)
THEOREM AllowanceGivenBack ==
  ASSUME Prudent
  PROVE  Spec => []StandingAllowanceKept
<1>1. LentInv => StandingAllowanceKept
  BY DEF LentInv, Lent
<1> QED
  BY <1>1, LentInvariance, PTL

(* A spender can take no more than the owner's own allowance or the        *)
(* ceiling of the one sequence that is in progress.                        *)
THEOREM ExposureHolds ==
  ASSUME Prudent
  PROVE  Spec => []ExposureBounded
<1>1. LentInv => ExposureBounded
  <2> SUFFICES ASSUME LentInv, NEW k \in Slot, ~(allowance[k] <= standing[k])
               PROVE  \E s \in Session : /\ SlotOf[s] = k /\ Active(s)
                                         /\ allowance[k] <= amount[s]
    BY DEF ExposureBounded
  <2>1. allowance[k] \in Nat /\ standing[k] \in Nat
    BY DEF LentInv, TurnsInv, IInv, TypeOK
  <2>2. ~AtRest(k)
    BY <2>1 DEF LentInv, Lent, StandingAllowanceKept
  <2>3. PICK s \in Session : SlotOf[s] = k /\ Active(s)
    BY <2>2 DEF AtRest
  <2>4. Borrowed(s)
    BY DEF LentInv, Lent
  <2> QED
    BY <2>1, <2>3, <2>4 DEF Borrowed
<1> QED
  BY <1>1, LentInvariance, PTL

(* No headroom survives the last sequence on an allowance.                 *)
THEOREM HeadroomGone ==
  ASSUME Prudent
  PROVE  Spec => []NoStandingHeadroom
<1>1. LentInv => NoStandingHeadroom
  <2> SUFFICES ASSUME LentInv, NEW k \in Slot, AtRest(k)
               PROVE  allowance[k] <= standing[k]
    BY DEF NoStandingHeadroom
  <2>1. allowance[k] = standing[k] /\ allowance[k] \in Nat
    BY DEF LentInv, Lent, StandingAllowanceKept, TurnsInv, IInv, TypeOK
  <2> QED
    BY <2>1
<1> QED
  BY <1>1, LentInvariance, PTL
-----------------------------------------------------------------------------
(* The refinement: executed sequences borrow their allowances.             *)

LEMMA HolderIs ==
  ASSUME OneAtATime, NEW k \in Slot
  PROVE  /\ AtRest(k) => Holder[k] = NoSession
         /\ \A s \in Session : SlotOf[s] = k /\ Active(s) => Holder[k] = s
<1>1. AtRest(k) => Holder[k] = NoSession
  BY DEF Holder
<1>2. ASSUME NEW s \in Session, SlotOf[s] = k, Active(s)
      PROVE  Holder[k] = s
  <2>1. ~AtRest(k)
    BY <1>2 DEF AtRest
  <2>2. PICK c : c = CHOOSE r \in Session : SlotOf[r] = k /\ Active(r)
    OBVIOUS
  <2>3. c \in Session /\ SlotOf[c] = k /\ Active(c)
    BY <1>2, <2>2
  <2>4. c = s
    BY <1>2, <2>3 DEF OneAtATime
  <2> QED
    BY <2>1, <2>2, <2>4 DEF Holder
<1> QED
  BY <1>1, <1>2

LEMMA HolderIsNext ==
  ASSUME OneAtATime', NEW k \in Slot
  PROVE  /\ AtRest(k)' => Holder'[k] = NoSession
         /\ \A s \in Session : SlotOf[s] = k /\ Active(s)' => Holder'[k] = s
<1>1. AtRest(k)' => Holder'[k] = NoSession
  BY DEF Holder
<1>2. ASSUME NEW s \in Session, SlotOf[s] = k, Active(s)'
      PROVE  Holder'[k] = s
  <2>1. ~AtRest(k)'
    BY <1>2 DEF AtRest
  <2>2. PICK c : c = CHOOSE r \in Session : SlotOf[r] = k /\ Active(r)'
    OBVIOUS
  <2>3. c \in Session /\ SlotOf[c] = k /\ Active(c)'
    BY <1>2, <2>2
  <2>4. c = s
    BY <1>2, <2>3 DEF OneAtATime
  <2> QED
    BY <2>1, <2>2, <2>4 DEF Holder
<1> QED
  BY <1>1, <1>2

(* A step of one session moves the hold on its own slot and no other.      *)
LEMMA HolderMoves ==
  ASSUME OneAtATime, OneAtATime', NEW s \in Session,
         \A r \in Session \ {s} : Active(r)' = Active(r),
         Active(s) \/ AtRest(SlotOf[s])
  PROVE  /\ Holder' = [Holder EXCEPT ![SlotOf[s]] = IF Active(s)' THEN s ELSE NoSession]
         /\ Holder[SlotOf[s]] = IF Active(s) THEN s ELSE NoSession
         /\ ~Active(s)' => AtRest(SlotOf[s])'
<1>1. SlotOf[s] \in Slot
  BY ExecutionAssumption
<1>2. Holder[SlotOf[s]] = IF Active(s) THEN s ELSE NoSession
  BY <1>1, HolderIs
<1>3. \A r \in Session : SlotOf[r] = SlotOf[s] /\ r # s => ~Active(r)
  BY DEF OneAtATime, AtRest
<1>4. ~Active(s)' => AtRest(SlotOf[s])'
  BY <1>3 DEF AtRest
<1>5. Holder'[SlotOf[s]] = IF Active(s)' THEN s ELSE NoSession
  BY <1>1, <1>4, HolderIsNext
<1>6. ASSUME NEW k \in Slot, k # SlotOf[s]
      PROVE  Holder'[k] = Holder[k]
  <2>1. CASE AtRest(k)
    <3>1. AtRest(k)'
      BY <1>6, <2>1 DEF AtRest
    <3> QED
      BY <2>1, <3>1, HolderIs, HolderIsNext
  <2>2. CASE ~AtRest(k)
    <3>1. PICK r \in Session : SlotOf[r] = k /\ Active(r)
      BY <2>2 DEF AtRest
    <3>2. Active(r)'
      BY <1>6, <3>1
    <3> QED
      BY <3>1, <3>2, HolderIs, HolderIsNext
  <2> QED
    BY <2>1, <2>2
<1>7. Holder = [k \in Slot |-> Holder[k]] /\ Holder' = [k \in Slot |-> Holder'[k]]
  BY DEF Holder
<1> QED
  BY <1>1, <1>2, <1>4, <1>5, <1>6, <1>7

(* What a step has to show.                                                *)
Keeps == [Scope!ScopeNext]_(Scope!scopeVars)

(* A step that leaves the chain's allowances alone takes a slot, lets it   *)
(* go with the allowance back at the owner's figure, or changes nothing    *)
(* the promise speaks of.                                                  *)
LEMMA QuietKeepsPromise ==
  ASSUME LentInv, LentInv', TakesTurns, TakesTurns', NEW s \in Session,
         UNCHANGED <<allowance, standing>>,
         \A r \in Session \ {s} : Active(r)' = Active(r),
         Active(s) \/ AtRest(SlotOf[s])
  PROVE  Keeps
<1>1. OneAtATime /\ OneAtATime' /\ StandingAllowanceKept'
  BY DEF LentInv, TurnsInv, Turns, Lent
<1>2. /\ Holder' = [Holder EXCEPT ![SlotOf[s]] = IF Active(s)' THEN s ELSE NoSession]
      /\ Holder[SlotOf[s]] = IF Active(s) THEN s ELSE NoSession
      /\ ~Active(s)' => AtRest(SlotOf[s])'
  BY <1>1, HolderMoves
<1>3. /\ SlotOf[s] \in Slot /\ allowance \in [Slot -> Nat]
      /\ Holder = [k \in Slot |-> Holder[k]]
  BY ExecutionAssumption DEF LentInv, TurnsInv, IInv, TypeOK, Holder
<1>4. CASE Active(s) /\ ~Active(s)'
  <2>1. allowance[SlotOf[s]] = standing[SlotOf[s]]
    BY <1>1, <1>2, <1>3, <1>4 DEF StandingAllowanceKept
  <2>2. allowance' = [allowance EXCEPT ![SlotOf[s]] = standing[SlotOf[s]]]
    BY <1>3, <2>1
  <2>3. Scope!Release(s)
    BY <1>2, <1>4, <2>2 DEF Scope!Release
  <2> QED
    BY <2>3 DEF Keeps, Scope!ScopeNext
<1>5. CASE ~Active(s) /\ Active(s)'
  <2>1. Scope!Take(s)
    BY <1>2, <1>5 DEF Scope!Take
  <2> QED
    BY <2>1 DEF Keeps, Scope!ScopeNext
<1>6. CASE Active(s)' = Active(s)
  <2>1. Holder' = Holder
    BY <1>2, <1>3, <1>6
  <2> QED
    BY <2>1 DEF Keeps, Scope!scopeVars
<1> QED
  BY <1>4, <1>5, <1>6 DEF Active, Ended, Drained

(* An approve moves the allowance its sender holds, or gives it back.      *)
LEMMA MoveKeepsPromise ==
  ASSUME LentInv, LentInv', TakesTurns, TakesTurns', NEW s \in Session, Active(s),
         NEW n \in Nat, allowance' = [allowance EXCEPT ![SlotOf[s]] = n],
         UNCHANGED standing,
         \A r \in Session \ {s} : Active(r)' = Active(r)
  PROVE  Keeps
<1>1. OneAtATime /\ OneAtATime' /\ StandingAllowanceKept'
  BY DEF LentInv, TurnsInv, Turns, Lent
<1>2. /\ Holder' = [Holder EXCEPT ![SlotOf[s]] = IF Active(s)' THEN s ELSE NoSession]
      /\ Holder[SlotOf[s]] = s
      /\ ~Active(s)' => AtRest(SlotOf[s])'
  BY <1>1, HolderMoves
<1>3. /\ SlotOf[s] \in Slot /\ allowance \in [Slot -> Nat]
      /\ Holder = [k \in Slot |-> Holder[k]]
  BY ExecutionAssumption DEF LentInv, TurnsInv, IInv, TypeOK, Holder
<1>4. allowance'[SlotOf[s]] = n
  BY <1>3
<1>5. CASE ~Active(s)'
  <2>1. n = standing[SlotOf[s]]
    BY <1>1, <1>2, <1>3, <1>4, <1>5 DEF StandingAllowanceKept
  <2>2. Scope!Release(s)
    BY <1>2, <1>5, <2>1 DEF Scope!Release
  <2> QED
    BY <2>2 DEF Keeps, Scope!ScopeNext
<1>6. CASE Active(s)'
  <2>1. Holder' = Holder
    BY <1>2, <1>3, <1>6
  <2>2. Scope!Move(s)
    BY <1>2, <1>4, <2>1 DEF Scope!Move
  <2> QED
    BY <2>2 DEF Keeps, Scope!ScopeNext
<1> QED
  BY <1>5, <1>6

(* A call that needed no raise spends the owner's own allowance.           *)
LEMMA SpendKeepsPromise ==
  ASSUME LentInv, LentInv', TakesTurns, TakesTurns', NEW s \in Session,
         Active(s), Active(s)',
         allowance[SlotOf[s]] = standing[SlotOf[s]],
         NEW n \in Nat, n <= allowance[SlotOf[s]],
         allowance' = [allowance EXCEPT ![SlotOf[s]] = @ - n],
         standing' = [standing EXCEPT ![SlotOf[s]] = @ - n],
         \A r \in Session \ {s} : Active(r)' = Active(r)
  PROVE  Keeps
<1>1. OneAtATime /\ OneAtATime'
  BY DEF LentInv, TurnsInv, Turns
<1>2. /\ Holder' = [Holder EXCEPT ![SlotOf[s]] = s]
      /\ Holder[SlotOf[s]] = s
  BY <1>1, HolderMoves
<1>3. /\ SlotOf[s] \in Slot /\ allowance \in [Slot -> Nat]
      /\ Holder = [k \in Slot |-> Holder[k]]
  BY ExecutionAssumption DEF LentInv, TurnsInv, IInv, TypeOK, Holder
<1>4. Holder' = Holder
  BY <1>2, <1>3
<1>5. allowance[SlotOf[s]] - allowance'[SlotOf[s]] = n
  BY <1>3
<1>6. Scope!SpendGrant(s)
  BY <1>2, <1>4, <1>5 DEF Scope!SpendGrant
<1> QED
  BY <1>6 DEF Keeps, Scope!ScopeNext

(* A builder and a loop leave chain and other sessions alone.              *)
LEMMA OwnBusiness ==
  ASSUME IInv, TakesTurns, NEW s \in Session, Price(s) \/ Build(s) \/ Execute(s) \/ Fail(s)
  PROVE  /\ UNCHANGED <<allowance, standing>>
         /\ \A r \in Session \ {s} : Active(r)' = Active(r)
         /\ Active(s) \/ AtRest(SlotOf[s])
<1>1. CASE Send(s) \/ SendUndo(s)
  <2>1. PICK tx : mempool' = Append(mempool, tx) /\ tx.from = s
    BY <1>1 DEF Send, SendUndo, Submit
  <2>2. /\ mempool \in Seq(Tx) /\ Len(mempool) \in Nat
    BY PendingIs DEF IInv
  <2>3. \A r \in Session \ {s} : Pending(r)' = Pending(r)
    <3>1. /\ Len(mempool') = Len(mempool) + 1
          /\ \A i \in 1..Len(mempool) : mempool'[i] = mempool[i]
          /\ mempool'[Len(mempool) + 1] = tx
      BY <2>1, <2>2
    <3>2. \A i : i \in 1..(Len(mempool) + 1)
                  <=> i \in 1..Len(mempool) \/ i = Len(mempool) + 1
      BY <2>2
    <3> QED
      BY <2>1, <3>1, <3>2 DEF Pending
  <2>4. \A r \in Session \ {s} : status'[r] = status[r]
    BY <1>1 DEF Send, SendUndo, IInv, TypeOK
  <2>5. Active(s) /\ UNCHANGED <<allowance, standing>>
    BY <1>1, ActiveOnes DEF Send, SendUndo
  <2> QED
    BY <2>3, <2>4, <2>5 DEF Active, Ended, Drained
<1>2. CASE ~(Send(s) \/ SendUndo(s))
  <2>1. /\ UNCHANGED chainVars
        /\ UNCHANGED status \/ \E to : status' = [status EXCEPT ![s] = to]
        /\ Price(s) \/ status[s] \in {"priced", "running", "waiting", "undoing"}
    BY <1>2 DEF Price, Build, Execute, Confirm, RevertedThrows, NextUndone, Rethrow,
                Fail, SendThrows, WaitTimesOut, Crash, Catch
  <2>2. \A r \in Session \ {s} : status'[r] = status[r]
    BY <2>1 DEF IInv, TypeOK
  <2>3. \A r : Pending(r)' = Pending(r)
    BY <2>1 DEF Pending, chainVars
  <2>4. Active(s) \/ AtRest(SlotOf[s])
    BY <2>1, ActiveOnes DEF Price, TakesTurns
  <2> QED
    BY <2>1, <2>2, <2>3, <2>4 DEF Active, Ended, Drained, chainVars
<1> QED
  BY <1>1, <1>2

(* What is mined moves the allowance that its sender holds.                *)
LEMMA MineKeepsPromise ==
  ASSUME LentInv, LentInv', TakesTurns, TakesTurns', Mine
  PROVE  Keeps
<1>1. PICK tx : tx = Head(mempool)
  OBVIOUS
<1>2. /\ IInv /\ Turns /\ Lent
      /\ mempool # <<>> /\ mempool' = Tail(mempool) /\ UNCHANGED <<status, planVars>>
  BY DEF Mine, MineApprove, MineBouncedApprove, MineCall, MineRevertedCall, Report,
         LentInv, TurnsInv
<1>3. tx = mempool[1] /\ 1 \in 1..Len(mempool)
  BY <1>1, <1>2, PendingIs, HeadTailProperties, LenProperties, EmptySeq DEF IInv
<1>4. PICK s \in Session : s = tx.from
  BY <1>3, <1>2, ActiveOnes
<1>5. /\ 1 \in Pending(s) /\ Active(s) /\ tx.slot = SlotOf[s] /\ tx.slot \in Slot
      /\ FineAt(1) /\ SentFor(1) /\ Borrowed(s) /\ tx.amount \in Nat
  BY <1>1, <1>2, <1>3, <1>4, ActiveOnes, HeadBounded, ExecutionAssumption
     DEF Turns, PendingFine, Lent, IInv
<1>6. \A r \in Session \ {s} : Active(r)' = Active(r)
  BY <1>2, <1>3, <1>4, OthersStay DEF IInv
<1>7. allowance \in [Slot -> Nat] /\ standing \in [Slot -> Nat]
  BY <1>2 DEF IInv, TypeOK
<1>8. CASE MineApprove
  <2>1. /\ allowance' = [allowance EXCEPT ![SlotOf[s]] = tx.amount]
        /\ UNCHANGED standing
    BY <1>1, <1>5, <1>8 DEF MineApprove
  <2> QED
    BY <1>5, <1>6, <2>1, MoveKeepsPromise
<1>9. CASE MineBouncedApprove \/ MineRevertedCall
  <2>1. UNCHANGED <<allowance, standing>>
    BY <1>9 DEF MineBouncedApprove, MineRevertedCall
  <2> QED
    BY <1>5, <1>6, <2>1, QuietKeepsPromise
<1>10. CASE MineCall
  <2>1. PICK n : n = Pull(s)
    OBVIOUS
  <2>2. /\ tx.kind = "call" /\ n <= allowance[SlotOf[s]]
        /\ allowance' = [allowance EXCEPT ![SlotOf[s]] = @ - n]
        /\ standing' = IF Raised(s) THEN standing
                       ELSE [standing EXCEPT ![SlotOf[s]] = IF n < @ THEN @ - n ELSE 0]
    BY <1>1, <1>4, <1>5, <1>10, <2>1 DEF MineCall
  <2>3. n \in Nat
    BY <1>2, <2>1 DEF IInv, TypeOK, Pull
  <2>4. status[s] = "waiting" /\ status' = status
    BY <1>2, <1>3, <1>4, <1>5, <2>2 DEF FineAt, SentFor
  <2>5. Active(s)'
    BY <2>4 DEF Active, Ended
  <2>6. CASE Raised(s)
    <3>1. PICK m \in Nat : m = allowance[SlotOf[s]] - n
      BY <1>5, <1>7, <2>2, <2>3
    <3>2. allowance' = [allowance EXCEPT ![SlotOf[s]] = m] /\ UNCHANGED standing
      BY <2>2, <2>6, <3>1
    <3> QED
      BY <1>5, <1>6, <3>2, MoveKeepsPromise
  <2>7. CASE ~Raised(s)
    <3>1. allowance[SlotOf[s]] = standing[SlotOf[s]] /\ allowance[SlotOf[s]] \in Nat
      BY <1>5, <1>7, <2>4, <2>7 DEF Borrowed
    <3>2. (IF n < standing[SlotOf[s]] THEN standing[SlotOf[s]] - n ELSE 0)
            = standing[SlotOf[s]] - n
      BY <2>2, <2>3, <3>1
    <3>3. standing' = [standing EXCEPT ![SlotOf[s]] = @ - n]
      BY <2>2, <2>7, <3>2
    <3> QED
      BY <1>5, <1>6, <2>2, <2>3, <2>5, <3>1, <3>3, SpendKeepsPromise
  <2> QED
    BY <2>6, <2>7
<1> QED
  BY <1>8, <1>9, <1>10 DEF Mine

(* Every step of builders, loops and chain is one the promise allows.      *)
LEMMA NextKeepsPromise ==
  ASSUME Prudent
  PROVE  LentInv /\ LentInv' /\ [Next]_vars => Keeps
<1> SUFFICES ASSUME LentInv, LentInv', [Next]_vars
             PROVE  Keeps
  OBVIOUS
<1>1. IInv /\ TakesTurns
  BY PrudentTurns DEF LentInv
<1>2. TakesTurns'
  BY <1>1, JobKept DEF TakesTurns
<1>3. ASSUME NEW s \in Session, Price(s) \/ Build(s) \/ Execute(s) \/ Fail(s)
      PROVE  Keeps
  BY <1>1, <1>2, <1>3, OwnBusiness, QuietKeepsPromise
<1>4. CASE Mine
  BY <1>1, <1>2, <1>4, MineKeepsPromise
<1>5. CASE (\E s \in Session : Accrue(s)) \/ Finished \/ UNCHANGED vars
  <2>1. UNCHANGED <<allowance, standing, mempool, status>>
    BY <1>5 DEF Accrue, Finished, vars, chainVars, loopVars
  <2>2. Holder' = Holder
    BY <2>1 DEF Holder, AtRest, Active, Ended, Drained, Pending
  <2> QED
    BY <2>1, <2>2 DEF Keeps, Scope!scopeVars
<1> QED
  BY <1>3, <1>4, <1>5 DEF Next

(* With the loop of README.md, requests that wait for their turn and       *)
(* reclaim, and no loss of the loop itself, the whole execution machinery  *)
(* implements the promise: a sequence borrows an allowance, nobody else    *)
(* moves it meanwhile, and it is let go only when it is back at the        *)
(* owner's figure.                                                         *)
THEOREM BorrowsAsPromised ==
  ASSUME Prudent
  PROVE  Spec => KeepsThePromise
<1>1. Init => Scope!ScopeInit
  <2> SUFFICES ASSUME Init
               PROVE  Scope!ScopeInit
    OBVIOUS
  <2>1. allowance \in [Slot -> Nat] /\ standing = allowance
    BY ExecutionAssumption DEF Init
  <2>2. \A k \in Slot : AtRest(k)
    BY DEF Init, AtRest, Active
  <2>3. Holder = [k \in Slot |-> NoSession]
    BY <2>2 DEF Holder
  <2> QED
    BY <2>1, <2>3 DEF Scope!ScopeInit
<1>2. LentInv /\ LentInv' /\ [Next]_vars => [Scope!ScopeNext]_(Scope!scopeVars)
  BY NextKeepsPromise DEF Keeps
<1> QED
  BY <1>1, <1>2, LentInvariance, PTL DEF Spec, KeepsThePromise, Scope!ScopeSpec
=============================================================================
