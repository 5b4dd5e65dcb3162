----------------------------- MODULE TurnsProofs -----------------------------
(***************************************************************************)
(* Sequences that take turns on an allowance: none of their approves is    *)
(* refused, no call lacks what its builder asked for, and a sequence that  *)
(* is executed to the end leaves what it found.  For every loop, and       *)
(* whatever is lost, refused, or abandoned half-way.                       *)
(***************************************************************************)
EXTENDS ExecutionProofs

(* The allowance that a transaction of s at place i of the mempool, or one *)
(* about to be sent there, will find.                                      *)
Finds(s, i, n) ==
  \/ /\ \A j \in Pending(s) : i <= j
     /\ allowance[SlotOf[s]] = n
  \/ \E j \in Pending(s) :
       /\ j < i
       /\ mempool[j].kind = "approve" /\ mempool[j].amount = n
       /\ \A k \in Pending(s) : k <= j \/ i <= k

LeavesBehind(s, n) == Finds(s, Len(mempool) + 1, n)

OneAtATime ==
  \A r, s \in Session : Active(r) /\ Active(s) /\ SlotOf[r] = SlotOf[s] => r = s

FineAt(i) ==
  LET tx == mempool[i] IN
  /\ (tx.kind = "approve" /\ tx.amount > 0 /\ tx.slot \in UsdtLike) => Finds(tx.from, i, 0)
  /\ ~tx.undoes => \A j \in Pending(tx.from) : i <= j
  /\ tx.kind = "call" => ~tx.undoes /\ amount[tx.from] <= allowance[tx.slot]

PendingFine == \A i \in 1..Len(mempool) : FineAt(i)

Unsent(s) ==
  /\ status[s] \in {"idle", "priced", "running"} => Drained(s)
  /\ status[s] \in {"idle", "priced", "running", "waiting"}
       => undo[s] = [step |-> 1, at |-> 1]
  /\ status[s] = "idle" => call[s] = "none"

Before(s) == plan[s][pc[s] - 1]

Ready(s) == status[s] = "running" =>
  /\ pc[s] = 1 => allowance[SlotOf[s]] = found[s]
  /\ (pc[s] > 1 /\ Before(s).kind = "approve")
       => allowance[SlotOf[s]] = Before(s).amount

Awaits(s) == status[s] = "waiting" =>
  /\ receipt[s] = "none" =>
       \E i \in 1..Len(mempool) :
         /\ Pending(s) = {i} /\ ~mempool[i].undoes
         /\ mempool[i].kind = Current(s).kind
         /\ mempool[i].amount = Current(s).amount
  /\ receipt[s] # "none" => Drained(s)
  /\ (receipt[s] # "none" /\ Current(s).kind = "approve")
       => receipt[s] = "success" /\ allowance[SlotOf[s]] = Current(s).amount

Undoes(s) == (status[s] = "undoing" /\ undo[s].at > 1) =>
  LeavesBehind(s, Undone(s).reversal[undo[s].at - 1])

Starved == \A s \in Session : call[s] = "starved" => owed[s] > amount[s]

Fine(s) == Unsent(s) /\ Ready(s) /\ Awaits(s) /\ Undoes(s)

Turns ==
  /\ OneAtATime /\ PendingFine /\ bounced = {} /\ Starved
  /\ \A s \in Session : Fine(s)

TurnsInv == IInv /\ (TakesTurns => Turns)
-----------------------------------------------------------------------------
(* The mempool, one transaction longer or shorter.                         *)

LEMMA PendingIs ==
  ASSUME TypeOK
  PROVE  /\ mempool \in Seq(Tx) /\ Len(mempool) \in Nat
         /\ \A i \in 1..Len(mempool) :
              /\ mempool[i] \in Tx /\ mempool[i].from \in Session
              /\ mempool[i].kind \in {"approve", "call"} /\ mempool[i].undoes \in BOOLEAN
         /\ \A s : Pending(s) \subseteq 1..Len(mempool)
<1>1. mempool \in Seq(Tx) /\ Len(mempool) \in Nat
  BY LenProperties DEF TypeOK
<1>2. \A i \in 1..Len(mempool) : mempool[i] \in Tx
  BY <1>1, ElementOfSeq
<1> QED
  BY <1>1, <1>2 DEF Tx, Pending

LEMMA Shifted ==
  ASSUME TypeOK, mempool # <<>>, mempool' = Tail(mempool)
  PROVE  /\ Len(mempool) \in Nat \ {0} /\ Len(mempool') = Len(mempool) - 1
         /\ Head(mempool) = mempool[1]
         /\ \A i \in 1..Len(mempool') : mempool'[i] = mempool[i + 1]
         /\ \A s : Pending(s)' = {i \in 1..(Len(mempool) - 1) : i + 1 \in Pending(s)}
<1>1. mempool \in Seq(Tx) /\ Len(mempool) \in Nat
  BY PendingIs
<1>2. /\ mempool' \in Seq(Tx) /\ Len(mempool') = Len(mempool) - 1
      /\ Head(mempool) = mempool[1]
      /\ \A i \in 1..Len(mempool') : mempool'[i] = mempool[i + 1]
  BY <1>1, HeadTailProperties
<1>3. Len(mempool) # 0
  BY <1>1, EmptySeq
<1>4. \A i \in 1..(Len(mempool) - 1) : i + 1 \in 1..Len(mempool)
  BY <1>1
<1> QED
  BY <1>1, <1>2, <1>3, <1>4 DEF Pending

LEMMA Appended ==
  ASSUME TypeOK, NEW tx \in Tx, mempool' = Append(mempool, tx)
  PROVE  /\ Len(mempool) \in Nat /\ Len(mempool') = Len(mempool) + 1
         /\ \A i \in 1..Len(mempool) : mempool'[i] = mempool[i]
         /\ mempool'[Len(mempool) + 1] = tx
         /\ \A s : Pending(s)' = IF tx.from = s THEN Pending(s) \cup {Len(mempool) + 1}
                                 ELSE Pending(s)
<1>1. mempool \in Seq(Tx) /\ Len(mempool) \in Nat
  BY PendingIs
<1>2. /\ mempool' \in Seq(Tx) /\ Len(mempool') = Len(mempool) + 1
      /\ \A i \in 1..Len(mempool) : mempool'[i] = mempool[i]
      /\ mempool'[Len(mempool) + 1] = tx
  BY <1>1, AppendProperties
<1>3. \A i : i \in 1..(Len(mempool) + 1)
               <=> i \in 1..Len(mempool) \/ i = Len(mempool) + 1
  BY <1>1
<1> QED
  BY <1>1, <1>2, <1>3 DEF Pending

(* What a transaction will find is still so when the one at the head of    *)
(* the mempool is mined.                                                   *)
LEMMA FindsOnward ==
  ASSUME TypeOK, mempool # <<>>, mempool' = Tail(mempool),
         NEW s \in Session, NEW n, NEW i \in 2..(Len(mempool) + 1), Finds(s, i, n),
         (mempool[1].from = s /\ mempool[1].kind = "approve")
           => allowance'[SlotOf[s]] = mempool[1].amount,
         mempool[1].from # s => allowance'[SlotOf[s]] = allowance[SlotOf[s]]
  PROVE  Finds(s, i - 1, n)'
<1>1. /\ Len(mempool) \in Nat \ {0} /\ Len(mempool') = Len(mempool) - 1
      /\ \A j \in 1..Len(mempool') : mempool'[j] = mempool[j + 1]
      /\ Pending(s)' = {j \in 1..(Len(mempool) - 1) : j + 1 \in Pending(s)}
  BY Shifted
<1>2. Pending(s) \subseteq 1..Len(mempool)
  BY PendingIs
<1>3. 1 \in Pending(s) <=> mempool[1].from = s
  BY <1>1 DEF Pending
<1>4. CASE (\A j \in Pending(s) : i <= j) /\ allowance[SlotOf[s]] = n
  <2>1. 1 \notin Pending(s)
    BY <1>1, <1>4
  <2>2. allowance'[SlotOf[s]] = n
    BY <1>3, <1>4, <2>1
  <2>3. \A j \in Pending(s)' : i - 1 <= j
    BY <1>1, <1>2, <1>4
  <2> QED
    BY <2>2, <2>3 DEF Finds
<1>5. ASSUME NEW j \in Pending(s), j < i,
             mempool[j].kind = "approve", mempool[j].amount = n,
             \A k \in Pending(s) : k <= j \/ i <= k
      PROVE  Finds(s, i - 1, n)'
  <2>0. j \in 1..Len(mempool)
    BY <1>2
  <2>1. CASE j = 1
    <3>1. allowance'[SlotOf[s]] = n
      BY <1>3, <1>5, <2>1
    <3>2. \A k \in Pending(s)' : i - 1 <= k
      BY <1>1, <1>2, <1>5, <2>1
    <3> QED
      BY <3>1, <3>2 DEF Finds
  <2>2. CASE j > 1
    <3>1. j - 1 \in 1..(Len(mempool) - 1) /\ (j - 1) + 1 = j
      BY <1>1, <2>0, <2>2
    <3>2. j - 1 \in Pending(s)' /\ mempool'[j - 1] = mempool[j]
      BY <1>1, <3>1
    <3>3. j - 1 < i - 1
      BY <1>1, <1>5, <2>0
    <3>4. \A k \in Pending(s)' : k <= j - 1 \/ i - 1 <= k
      <4> SUFFICES ASSUME NEW k \in Pending(s)'
                   PROVE  k <= j - 1 \/ i - 1 <= k
        OBVIOUS
      <4>1. k \in 1..(Len(mempool) - 1) /\ k + 1 \in Pending(s)
        BY <1>1
      <4>2. k + 1 <= j \/ i <= k + 1
        BY <1>5, <4>1
      <4> QED
        BY <1>1, <2>0, <4>1, <4>2
    <3> QED
      BY <1>5, <3>2, <3>3, <3>4 DEF Finds
  <2> QED
    BY <1>1, <2>0, <2>1, <2>2
<1> QED
  BY <1>4, <1>5 DEF Finds

(* Nor does a transaction sent later change it.                            *)
LEMMA FindsStill ==
  ASSUME TypeOK, NEW tx \in Tx, mempool' = Append(mempool, tx),
         NEW s \in Session, allowance'[SlotOf[s]] = allowance[SlotOf[s]],
         NEW n, NEW i \in 1..(Len(mempool) + 1), Finds(s, i, n)
  PROVE  /\ Finds(s, i, n)'
         /\ (tx.from # s /\ i = Len(mempool) + 1) => Finds(s, i + 1, n)'
<1>1. /\ Len(mempool) \in Nat
      /\ \A j \in 1..Len(mempool) : mempool'[j] = mempool[j]
      /\ Pending(s)' = IF tx.from = s THEN Pending(s) \cup {Len(mempool) + 1}
                       ELSE Pending(s)
  BY Appended
<1>2. Pending(s) \subseteq 1..Len(mempool)
  BY PendingIs
<1>3. CASE (\A j \in Pending(s) : i <= j) /\ allowance[SlotOf[s]] = n
  <2>1. \A j \in Pending(s)' : i <= j
    BY <1>1, <1>2, <1>3
  <2>2. (tx.from # s /\ i = Len(mempool) + 1) => \A j \in Pending(s)' : i + 1 <= j
    BY <1>1, <1>2, <1>3
  <2> QED
    BY <1>3, <2>1, <2>2 DEF Finds
<1>4. ASSUME NEW j \in Pending(s), j < i,
             mempool[j].kind = "approve", mempool[j].amount = n,
             \A k \in Pending(s) : k <= j \/ i <= k
      PROVE  /\ Finds(s, i, n)'
             /\ (tx.from # s /\ i = Len(mempool) + 1) => Finds(s, i + 1, n)'
  <2>1. /\ j \in 1..Len(mempool) /\ j \in Pending(s)' /\ j < i + 1
        /\ mempool'[j].kind = "approve" /\ mempool'[j].amount = n
    BY <1>1, <1>2, <1>4
  <2>2. \A k \in Pending(s)' : k <= j \/ i <= k
    BY <1>1, <1>2, <1>4
  <2>3. Finds(s, i, n)'
    BY <1>4, <2>1, <2>2 DEF Finds
  <2>4. (tx.from # s /\ i = Len(mempool) + 1) => Finds(s, i + 1, n)'
    <3> SUFFICES ASSUME tx.from # s, i = Len(mempool) + 1
                 PROVE  Finds(s, i + 1, n)'
      OBVIOUS
    <3>1. \A k \in Pending(s)' : k <= j \/ i + 1 <= k
      BY <1>1, <1>2, <1>4
    <3> QED
      BY <2>1, <3>1 DEF Finds
  <2> QED
    BY <2>3, <2>4
<1> QED
  BY <1>3, <1>4 DEF Finds

(* After an approve comes what it sets.                                    *)
LEMMA FindsTheLast ==
  ASSUME TypeOK, NEW tx \in Tx, mempool' = Append(mempool, tx),
         tx.kind = "approve"
  PROVE  LeavesBehind(tx.from, tx.amount)'
<1> DEFINE s == tx.from
<1>1. PICK last : last = Len(mempool) + 1
  OBVIOUS
<1>2. /\ Len(mempool) \in Nat /\ mempool'[last] = tx /\ Len(mempool') = last
      /\ Pending(s)' = Pending(s) \cup {last}
  BY <1>1, Appended
<1>3. Pending(s) \subseteq 1..Len(mempool)
  BY PendingIs
<1>4. last \in Pending(s)' /\ last < Len(mempool') + 1
  BY <1>1, <1>2
<1>5. \A k \in Pending(s)' : k <= last \/ Len(mempool') + 1 <= k
  BY <1>1, <1>2, <1>3
<1> QED
  BY <1>2, <1>4, <1>5 DEF Finds, LeavesBehind
-----------------------------------------------------------------------------
(* What sessions have to do with one another.                              *)

(* A session with a transaction pending is active, and so is one whose     *)
(* builder or loop has started and not ended.                              *)
LEMMA ActiveOnes ==
  ASSUME IInv
  PROVE  /\ \A i \in 1..Len(mempool) : /\ mempool[i].from \in Session
                                       /\ i \in Pending(mempool[i].from)
                                       /\ Active(mempool[i].from)
                                       /\ mempool[i].slot = SlotOf[mempool[i].from]
         /\ \A s \in Session : status[s] \in {"priced", "running", "waiting", "undoing"}
                                => Active(s)
<1>1. ASSUME NEW i \in 1..Len(mempool)
      PROVE  /\ mempool[i].from \in Session /\ i \in Pending(mempool[i].from)
             /\ Active(mempool[i].from) /\ mempool[i].slot = SlotOf[mempool[i].from]
  <2>1. mempool[i].from \in Session /\ i \in Pending(mempool[i].from)
    BY PendingIs DEF IInv, Pending
  <2>2. status[mempool[i].from] # "idle" /\ mempool[i].slot = SlotOf[mempool[i].from]
    BY DEF IInv, PendingBounded
  <2> QED
    BY <2>1, <2>2 DEF Active, Drained
<1>2. ASSUME NEW s \in Session, status[s] \in {"priced", "running", "waiting", "undoing"}
      PROVE  Active(s)
  BY <1>2 DEF Active, Ended
<1> QED
  BY <1>1, <1>2

(* A step that touches neither chain nor mempool: the other sessions stand *)
(* as they stood, and so does the mempool.                                 *)
LEMMA QuietKeeps ==
  ASSUME IInv, Turns, NEW s \in Session,
         UNCHANGED <<allowance, mempool, owed, call, bounced>>,
         \A r \in Session \ {s} :
           /\ status'[r] = status[r] /\ pc'[r] = pc[r] /\ receipt'[r] = receipt[r]
           /\ undo'[r] = undo[r] /\ plan'[r] = plan[r] /\ found'[r] = found[r]
           /\ amount'[r] = amount[r],
         amount'[s] = amount[s] \/ (Drained(s) /\ call[s] = "none"),
         Active(s) \/ AtRest(SlotOf[s]),
         Fine(s)'
  PROVE  Turns'
<1>1. \A r : Pending(r)' = Pending(r)
  BY DEF Pending
<1>2. \A r \in Session : r # s => Active(r)' = Active(r)
  BY <1>1 DEF Active, Ended, Drained
<1>3. OneAtATime'
  <2> SUFFICES ASSUME NEW r \in Session, NEW q \in Session,
                      Active(r)', Active(q)', SlotOf[r] = SlotOf[q]
               PROVE  r = q
    BY DEF OneAtATime
  <2>1. CASE Active(s)
    <3>1. Active(r) /\ Active(q)
      BY <1>2, <2>1
    <3> QED
      BY <3>1 DEF Turns, OneAtATime
  <2>2. CASE AtRest(SlotOf[s])
    <3>1. \A x \in Session : SlotOf[x] = SlotOf[s] => ~Active(x)
      BY <2>2 DEF AtRest
    <3>2. CASE r = s \/ q = s
      BY <1>2, <3>1, <3>2
    <3>3. CASE r # s /\ q # s
      <4>1. Active(r) /\ Active(q)
        BY <1>2, <3>3
      <4> QED
        BY <4>1 DEF Turns, OneAtATime
    <3> QED
      BY <3>2, <3>3
  <2> QED
    BY <2>1, <2>2
<1>4. \A r, i, n : Finds(r, i, n)' <=> Finds(r, i, n)
  BY <1>1 DEF Finds
<1>5. PendingFine'
  <2> SUFFICES ASSUME NEW i \in 1..Len(mempool)
               PROVE  FineAt(i)'
    BY DEF PendingFine
  <2>1. FineAt(i) /\ mempool[i].from \in Session /\ i \in Pending(mempool[i].from)
    BY ActiveOnes DEF Turns, PendingFine
  <2>2. amount'[mempool[i].from] = amount[mempool[i].from]
    BY <2>1 DEF Drained
  <2> QED
    BY <1>1, <1>4, <2>1, <2>2 DEF FineAt
<1>6. Starved'
  <2> SUFFICES ASSUME NEW r \in Session, call[r] = "starved"
               PROVE  owed[r] > amount'[r]
    BY DEF Starved
  <2>1. amount'[r] = amount[r]
    OBVIOUS
  <2> QED
    BY <2>1 DEF Turns, Starved
<1>7. ASSUME NEW r \in Session, r # s
      PROVE  Fine(r)'
  <2>1. Unsent(r) /\ Ready(r) /\ Awaits(r) /\ Undoes(r)
    BY DEF Turns, Fine
  <2>2. Unsent(r)' /\ Ready(r)'
    BY <1>1, <1>7, <2>1 DEF Unsent, Ready, Drained, Before
  <2>3. Awaits(r)'
    BY <1>1, <1>7, <2>1 DEF Awaits, Drained, Current
  <2>4. Undoes(r)'
    BY <1>1, <1>4, <1>7, <2>1 DEF Undoes, LeavesBehind, Undone
  <2> QED
    BY <2>2, <2>3, <2>4 DEF Fine
<1> QED
  BY <1>3, <1>5, <1>6, <1>7 DEF Turns

(* What a session sends.                                                   *)
LEMMA Submitted ==
  ASSUME NEW s \in Session, NEW kind \in {"approve", "call"}, NEW n \in Nat,
         NEW undoes \in BOOLEAN, Submit(s, kind, SlotOf[s], n, undoes)
  PROVE  \E tx \in Tx : /\ mempool' = Append(mempool, tx)
                        /\ tx.from = s /\ tx.kind = kind /\ tx.slot = SlotOf[s]
                        /\ tx.amount = n /\ tx.undoes = undoes
<1> DEFINE tx == [from |-> s, kind |-> kind, slot |-> SlotOf[s], amount |-> n, undoes |-> undoes]
<1>1. tx \in Tx
  BY ExecutionAssumption DEF Tx
<1>2. mempool' = Append(mempool, tx)
  BY DEF Submit
<1>3. /\ tx.from = s /\ tx.kind = kind /\ tx.slot = SlotOf[s]
      /\ tx.amount = n /\ tx.undoes = undoes
  OBVIOUS
<1> HIDE DEF tx
<1> QED
  BY <1>1, <1>2, <1>3

(* One session sends one transaction more: it is fine if it will find what *)
(* it needs, and the others stand as they stood.                           *)
LEMMA SubmitFine ==
  ASSUME IInv, Turns, NEW s \in Session,
         NEW kind \in {"approve", "call"}, NEW n \in Nat, NEW undoes \in BOOLEAN,
         Submit(s, kind, SlotOf[s], n, undoes),
         UNCHANGED <<allowance, owed, call, bounced, standing, pc, planVars>>,
         \A r \in Session \ {s} :
           status'[r] = status[r] /\ receipt'[r] = receipt[r] /\ undo'[r] = undo[r],
         Active(s),
         (kind = "approve" /\ n > 0 /\ SlotOf[s] \in UsdtLike) => LeavesBehind(s, 0),
         ~undoes => Drained(s),
         kind = "call" => ~undoes /\ amount[s] <= allowance[SlotOf[s]],
         Fine(s)'
  PROVE  Turns'
<1> DEFINE Last == Len(mempool) + 1
<1>0. PICK tx \in Tx : /\ tx = [from |-> s, kind |-> kind, slot |-> SlotOf[s],
                                amount |-> n, undoes |-> undoes]
                       /\ mempool' = Append(mempool, tx)
  BY ExecutionAssumption DEF Tx, Submit
<1>1. /\ Len(mempool) \in Nat /\ Len(mempool') = Last
      /\ \A i \in 1..Len(mempool) : mempool'[i] = mempool[i]
      /\ mempool'[Last] = tx
      /\ \A r : Pending(r)' = IF tx.from = r THEN Pending(r) \cup {Last} ELSE Pending(r)
  BY <1>0, Appended DEF IInv
<1>2. /\ tx.from = s /\ tx.kind = kind /\ tx.slot = SlotOf[s] /\ tx.amount = n
      /\ tx.undoes = undoes
  BY <1>0
<1>3. \A r : Pending(r) \subseteq 1..Len(mempool)
  BY PendingIs DEF IInv
<1>4. \A r \in Session : r # s => Pending(r)' = Pending(r) /\ Active(r)' = Active(r)
  BY <1>1, <1>2 DEF Active, Ended, Drained
<1>5. OneAtATime'
  <2>1. \A r \in Session : Active(r)' => Active(r)
    BY <1>4
  <2> QED
    BY <2>1 DEF Turns, OneAtATime
<1>6. PendingFine'
  <2> SUFFICES ASSUME NEW i \in 1..Last
               PROVE  FineAt(i)'
    BY <1>1 DEF PendingFine
  <2>1. CASE i \in 1..Len(mempool)
    <3>1. PICK old : old = mempool[i]
      OBVIOUS
    <3>2. PICK r : r = old.from
      OBVIOUS
    <3>3. /\ FineAt(i) /\ r \in Session /\ i \in Pending(r)
      BY <2>1, <3>1, <3>2, ActiveOnes DEF Turns, PendingFine
    <3>4. mempool'[i] = old /\ i \in 1..(Len(mempool) + 1) /\ i <= Last
      BY <1>1, <2>1, <3>1
    <3>5. Finds(r, i, 0) => Finds(r, i, 0)'
      BY <1>0, <3>3, <3>4, FindsStill DEF IInv
    <3>6. (\A j \in Pending(r) : i <= j) => \A j \in Pending(r)' : i <= j
      BY <1>1, <3>4
    <3>7. amount' = amount
      BY DEF planVars
    <3> QED
      BY <3>1, <3>2, <3>3, <3>4, <3>5, <3>6, <3>7 DEF FineAt
  <2>2. CASE i = Last
    <3>1. mempool'[i] = tx
      BY <1>1, <2>2
    <3>2. (kind = "approve" /\ n > 0 /\ SlotOf[s] \in UsdtLike) => Finds(s, i, 0)'
      BY <1>0, <1>1, <2>2, FindsStill DEF IInv, LeavesBehind
    <3>3. ~undoes => \A j \in Pending(s)' : i <= j
      BY <1>1, <1>2, <2>2 DEF Drained
    <3>4. amount' = amount
      BY DEF planVars
    <3> QED
      BY <1>2, <3>1, <3>2, <3>3, <3>4 DEF FineAt
  <2> QED
    BY <1>1, <2>1, <2>2
<1>7. bounced' = {} /\ Starved'
  BY DEF Turns, Starved, planVars
<1>8. ASSUME NEW r \in Session, r # s
      PROVE  Fine(r)'
  <2>1. Unsent(r) /\ Ready(r) /\ Awaits(r) /\ Undoes(r)
    BY DEF Turns, Fine
  <2>2. /\ Pending(r)' = Pending(r)
        /\ status'[r] = status[r] /\ receipt'[r] = receipt[r] /\ undo'[r] = undo[r]
        /\ UNCHANGED <<allowance, call, pc, plan, found>>
    BY <1>4, <1>8 DEF planVars
  <2>3. Unsent(r)' /\ Ready(r)'
    BY <2>1, <2>2 DEF Unsent, Ready, Drained, Before
  <2>4. Awaits(r)'
    <3> SUFFICES ASSUME status[r] = "waiting"
                 PROVE  Awaits(r)'
      BY <2>2 DEF Awaits
    <3>1. CASE receipt[r] = "none"
      <4>1. PICK i \in 1..Len(mempool) :
              /\ Pending(r) = {i} /\ ~mempool[i].undoes
              /\ mempool[i].kind = Current(r).kind
              /\ mempool[i].amount = Current(r).amount
        BY <2>1, <3>1 DEF Awaits
      <4>2. i \in 1..Len(mempool') /\ mempool'[i] = mempool[i]
        BY <1>1
      <4> QED
        BY <2>2, <3>1, <4>1, <4>2 DEF Awaits, Current
    <3>2. CASE receipt[r] # "none"
      BY <2>1, <2>2, <3>2 DEF Awaits, Current, Drained
    <3> QED
      BY <3>1, <3>2
  <2>5. Undoes(r)'
    <3> SUFFICES ASSUME status[r] = "undoing", undo[r].at > 1
                 PROVE  LeavesBehind(r, plan[r][undo[r].step].reversal[undo[r].at - 1])'
      BY <2>2 DEF Undoes, Undone
    <3>1. PICK m : m = plan[r][undo[r].step].reversal[undo[r].at - 1]
      OBVIOUS
    <3>2. Finds(r, Last, m)
      BY <2>1, <3>1 DEF Undoes, Undone, LeavesBehind
    <3>3. PICK l : l = Last
      OBVIOUS
    <3>4. l \in 1..(Len(mempool) + 1) /\ Finds(r, l, m)
      BY <1>1, <3>2, <3>3
    <3>5. Finds(r, l + 1, m)'
      BY <1>0, <1>2, <1>8, <3>3, <3>4, FindsStill DEF IInv
    <3>6. LeavesBehind(r, m)'
      BY <1>1, <3>3, <3>5 DEF LeavesBehind
    <3>7. m = (plan[r][undo[r].step].reversal[undo[r].at - 1])'
      BY <2>2, <3>1
    <3> QED
      BY <3>6, <3>7
  <2> QED
    BY <2>3, <2>4, <2>5 DEF Fine
<1> QED
  BY <1>5, <1>6, <1>7, <1>8 DEF Turns

(* The head of the mempool is mined: an approve sets the allowance, a call *)
(* may take from it, and nobody else's slot moves.                         *)
LEMMA MinedFine ==
  ASSUME IInv, Turns, mempool # <<>>, mempool' = Tail(mempool),
         UNCHANGED <<status, pc, undo, planVars, bounced>>,
         NEW tx, tx = mempool[1],
         \A k \in Slot \ {tx.slot} : allowance'[k] = allowance[k],
         tx.kind = "approve" => allowance'[tx.slot] = tx.amount,
         NEW outcome \in {"success", "reverted"},
         tx.kind = "approve" => outcome = "success",
         Report(tx, outcome),
         \A r \in Session : status[r] = "idle" => call'[r] = "none",
         Starved'
  PROVE  Turns'
<1>1. /\ Len(mempool) \in Nat \ {0} /\ Len(mempool') = Len(mempool) - 1
      /\ \A i \in 1..Len(mempool') : mempool'[i] = mempool[i + 1]
      /\ \A r : Pending(r)' = {i \in 1..(Len(mempool) - 1) : i + 1 \in Pending(r)}
  BY Shifted DEF IInv
<1> DEFINE s == tx.from
<1>2. /\ 1 \in 1..Len(mempool) /\ s \in Session /\ 1 \in Pending(s) /\ Active(s)
      /\ tx.slot = SlotOf[s]
  BY <1>1, ActiveOnes
<1>3. \A r \in Session : Active(r) /\ r # s => allowance'[SlotOf[r]] = allowance[SlotOf[r]]
  <2> SUFFICES ASSUME NEW r \in Session, Active(r), r # s
               PROVE  SlotOf[r] \in Slot \ {tx.slot}
    OBVIOUS
  <2>1. SlotOf[r] # SlotOf[s]
    BY <1>2 DEF Turns, OneAtATime
  <2> QED
    BY <1>2, <2>1, ExecutionAssumption
<1>4. /\ receipt' = IF tx.undoes THEN receipt ELSE [receipt EXCEPT ![s] = outcome]
      /\ \A r \in Session : r # s => receipt'[r] = receipt[r]
  BY DEF Report, IInv, TypeOK
<1>5. \A r \in Session : Drained(r) => Drained(r)'
  BY <1>1 DEF Drained
<1>6. \A r \in Session : Active(r)' => Active(r)
  BY <1>5 DEF Active, Ended
<1>7. \A r : \A i \in Pending(r)' : i + 1 \in Pending(r) /\ i \in 1..(Len(mempool) - 1)
  BY <1>1
<1>8. ASSUME NEW r \in Session, Active(r), NEW n, NEW i \in 2..(Len(mempool) + 1),
             Finds(r, i, n)
      PROVE  Finds(r, i - 1, n)'
  <2>1. mempool[1].from # r => allowance'[SlotOf[r]] = allowance[SlotOf[r]]
    BY <1>3, <1>8
  <2>2. (mempool[1].from = r /\ mempool[1].kind = "approve")
          => allowance'[SlotOf[r]] = mempool[1].amount
    BY <1>2
  <2> QED
    BY <1>8, <2>1, <2>2, FindsOnward DEF IInv
<1>9. OneAtATime'
  BY <1>6 DEF Turns, OneAtATime
<1>10. PendingFine'
  <2> SUFFICES ASSUME NEW i \in 1..Len(mempool')
               PROVE  FineAt(i)'
    BY DEF PendingFine
  <2>1. PICK old : old = mempool[i + 1]
    OBVIOUS
  <2>2. PICK r : r = old.from
    OBVIOUS
  <2>3. /\ i + 1 \in 1..Len(mempool) /\ i + 1 \in 2..(Len(mempool) + 1)
        /\ (i + 1) - 1 = i /\ mempool'[i] = old
    BY <1>1, <2>1
  <2>4. /\ FineAt(i + 1) /\ r \in Session /\ i + 1 \in Pending(r) /\ Active(r)
        /\ old.slot = SlotOf[r]
    BY <2>1, <2>2, <2>3, ActiveOnes DEF Turns, PendingFine
  <2>5. Finds(r, i + 1, 0) => Finds(r, i, 0)'
    <3>1. PICK l : l = i + 1
      OBVIOUS
    <3>2. l \in 2..(Len(mempool) + 1) /\ l - 1 = i
      BY <2>3, <3>1
    <3>3. Finds(r, l, 0) => Finds(r, l - 1, 0)'
      BY <1>8, <2>4, <3>2
    <3> QED
      BY <3>1, <3>2, <3>3
  <2>6. (\A j \in Pending(r) : i + 1 <= j) => \A j \in Pending(r)' : i <= j
    <3> SUFFICES ASSUME \A j \in Pending(r) : i + 1 <= j, NEW j \in Pending(r)'
                 PROVE  i <= j
      OBVIOUS
    <3>1. i + 1 <= j + 1 /\ j \in 1..(Len(mempool) - 1)
      BY <1>7
    <3> QED
      BY <1>1, <3>1
  <2>7. old.kind = "call" => allowance'[old.slot] = allowance[old.slot]
    <3> SUFFICES ASSUME old.kind = "call"
                 PROVE  allowance'[old.slot] = allowance[old.slot]
      OBVIOUS
    <3>1. \A j \in Pending(r) : i + 1 <= j
      BY <2>1, <2>2, <2>4 DEF FineAt
    <3>2. ~(i + 1 <= 1)
      BY <2>3
    <3>3. r # s
      BY <1>2, <3>1, <3>2
    <3> QED
      BY <1>3, <2>4, <3>3
  <2>8. amount' = amount
    BY DEF planVars
  <2> QED
    BY <2>1, <2>2, <2>3, <2>4, <2>5, <2>6, <2>7, <2>8 DEF FineAt
<1>11. ASSUME NEW r \in Session
       PROVE  Fine(r)'
  <2>1. Unsent(r) /\ Ready(r) /\ Awaits(r) /\ Undoes(r)
    BY DEF Turns, Fine
  <2>2. UNCHANGED <<status, pc, undo, plan, found, amount>>
    BY DEF planVars
  <2>3. Unsent(r)'
    BY <1>5, <2>1, <2>2 DEF Unsent
  <2>4. Drained(r) => r # s
    BY <1>2 DEF Drained
  <2>5. Ready(r)'
    <3> SUFFICES ASSUME status[r] = "running"
                 PROVE  Ready(r)'
      BY <2>2 DEF Ready
    <3>1. Active(r) /\ r # s
      BY <2>1, <2>4, ActiveOnes DEF Unsent
    <3>2. allowance'[SlotOf[r]] = allowance[SlotOf[r]]
      BY <1>3, <3>1
    <3> QED
      BY <2>1, <2>2, <3>2 DEF Ready, Before
  <2>6. Awaits(r)'
    <3> SUFFICES ASSUME status[r] = "waiting"
                 PROVE  Awaits(r)'
      BY <2>2 DEF Awaits
    <3>1. Active(r)
      BY ActiveOnes
    <3>2. CASE receipt[r] # "none"
      <4>1. Drained(r) /\ r # s
        BY <2>1, <2>4, <3>2 DEF Awaits
      <4>2. allowance'[SlotOf[r]] = allowance[SlotOf[r]] /\ receipt'[r] = receipt[r]
        BY <1>3, <1>4, <3>1, <4>1
      <4> QED
        BY <1>5, <2>1, <2>2, <3>2, <4>1, <4>2 DEF Awaits, Current
    <3>3. CASE receipt[r] = "none"
      <4>1. PICK i \in 1..Len(mempool) :
              /\ Pending(r) = {i} /\ ~mempool[i].undoes
              /\ mempool[i].kind = Current(r).kind
              /\ mempool[i].amount = Current(r).amount
        BY <2>1, <3>3 DEF Awaits
      <4>2. CASE r = s
        <5>1. i = 1
          BY <1>2, <4>1, <4>2
        <5>2. Drained(r)'
          <6>1. \A j : j \in 1..(Len(mempool) - 1) => j + 1 # 1
            BY <1>1
          <6> QED
            BY <1>1, <4>1, <5>1, <6>1 DEF Drained
        <5>3. receipt'[r] = outcome /\ outcome # "none"
          BY <1>4, <4>1, <4>2, <5>1 DEF IInv, TypeOK
        <5>4. Current(r).kind = "approve"
                => outcome = "success" /\ allowance'[SlotOf[r]] = Current(r).amount
          BY <1>2, <4>1, <4>2, <5>1
        <5>5. Current(r)' = Current(r)
          BY <2>2 DEF Current
        <5> QED
          BY <5>2, <5>3, <5>4, <5>5 DEF Awaits
      <4>3. CASE r # s
        <5>1. i # 1
          BY <4>1, <4>3, <1>1 DEF Pending
        <5>2. /\ i - 1 \in 1..(Len(mempool) - 1) /\ (i - 1) + 1 = i
              /\ i - 1 \in 1..Len(mempool')
          BY <1>1, <5>1
        <5>3. Pending(r)' = {i - 1} /\ mempool'[i - 1] = mempool[i]
          BY <1>1, <4>1, <5>2
        <5>4. receipt'[r] = receipt[r]
          BY <1>4, <4>3
        <5> QED
          BY <2>2, <3>3, <4>1, <5>2, <5>3, <5>4 DEF Awaits, Current
      <4> QED
        BY <4>2, <4>3
    <3> QED
      BY <3>2, <3>3
  <2>7. Undoes(r)'
    <3> SUFFICES ASSUME status[r] = "undoing", undo[r].at > 1
                 PROVE  LeavesBehind(r, plan[r][undo[r].step].reversal[undo[r].at - 1])'
      BY <2>2 DEF Undoes, Undone
    <3>1. PICK m : m = plan[r][undo[r].step].reversal[undo[r].at - 1]
      OBVIOUS
    <3>2. PICK l : l = Len(mempool) + 1
      OBVIOUS
    <3>3. Finds(r, l, m) /\ l \in 2..(Len(mempool) + 1) /\ l - 1 = Len(mempool') + 1
      BY <1>1, <2>1, <3>1, <3>2 DEF Undoes, Undone, LeavesBehind
    <3>4. Active(r)
      BY ActiveOnes
    <3>5. Finds(r, l - 1, m)'
      BY <1>8, <3>3, <3>4
    <3>6. LeavesBehind(r, m)'
      BY <3>3, <3>5 DEF LeavesBehind
    <3>7. m = (plan[r][undo[r].step].reversal[undo[r].at - 1])'
      BY <2>2, <3>1
    <3> QED
      BY <3>6, <3>7
  <2> QED
    BY <2>3, <2>5, <2>6, <2>7 DEF Fine
<1>12. bounced' = {}
  BY DEF Turns
<1> QED
  BY <1>9, <1>10, <1>11, <1>12 DEF Turns
-----------------------------------------------------------------------------
(* The builder's steps and the loop's.                                     *)

(* A step of somebody else's, or of nobody's, changes no request.          *)
LEMMA JobKept ==
  ASSUME [Next]_vars
  PROVE  job' = job
<1>1. ASSUME NEW s \in Session, Execute(s) \/ Fail(s)
      PROVE  job' = job
  BY <1>1 DEF Execute, Fail, Send, Confirm, RevertedThrows, SendUndo, NextUndone, Rethrow,
              SendThrows, WaitTimesOut, Crash, Catch, planVars
<1>2. ASSUME NEW s \in Session, Price(s) \/ Build(s) \/ Accrue(s)
      PROVE  job' = job
  BY <1>2 DEF Price, Build, Accrue, planVars
<1>3. Mine \/ Finished \/ UNCHANGED vars => job' = job
  BY DEF Mine, MineApprove, MineBouncedApprove, MineCall, MineRevertedCall, Finished,
         vars, planVars
<1> QED
  BY <1>1, <1>2, <1>3 DEF Next

(* Only a loop that has confirmed its last step is done.                   *)
LEMMA OnlyConfirmEnds ==
  ASSUME IInv, [Next]_vars, NEW s \in Session, status[s] # "done", status'[s] = "done"
  PROVE  Confirm(s) /\ pc[s] = Len(plan[s])
<1>1. status \in [Session -> Statuses]
  BY DEF IInv, TypeOK, Statuses
<1>2. status' # status
  OBVIOUS
<1>3. ASSUME NEW r \in Session, NEW to, to # "done", status' = [status EXCEPT ![r] = to]
      PROVE  FALSE
  BY <1>1, <1>3
<1>4. ASSUME NEW r \in Session, Price(r) \/ Build(r) \/ Accrue(r)
      PROVE  FALSE
  BY <1>2, <1>3, <1>4 DEF Price, Build, Accrue, loopVars
<1>5. ASSUME NEW r \in Session, Fail(r)
      PROVE  FALSE
  BY <1>3, <1>5 DEF Fail, SendThrows, WaitTimesOut, Crash, Catch
<1>6. ASSUME NEW r \in Session, Execute(r), ~Confirm(r)
      PROVE  FALSE
  <2>1. CASE Send(r) \/ SendUndo(r) \/ NextUndone(r)
    BY <1>2, <1>3, <2>1 DEF Send, SendUndo, NextUndone
  <2>2. CASE RevertedThrows(r) \/ Rethrow(r)
    BY <1>3, <2>2 DEF RevertedThrows, Catch, Rethrow
  <2> QED
    BY <1>6, <2>1, <2>2 DEF Execute
<1>7. ASSUME NEW r \in Session, Confirm(r)
      PROVE  r = s /\ pc[s] = Len(plan[s])
  BY <1>1, <1>7 DEF Confirm
<1>8. ~(Mine \/ Finished \/ UNCHANGED vars)
  BY <1>2 DEF Mine, MineApprove, MineBouncedApprove, MineCall, MineRevertedCall, Finished,
         vars, loopVars
<1> QED
  BY <1>4, <1>5, <1>6, <1>7, <1>8 DEF Next

(* Nothing moves that a session's standing depends on.                     *)
LEMMA AsBefore ==
  ASSUME Turns, Starved',
         UNCHANGED <<allowance, mempool, bounced, call, status, pc, receipt, undo,
                     amount, plan, found>>
  PROVE  Turns'
<1>1. /\ \A r : Pending(r)' = Pending(r)
      /\ \A r : Active(r)' = Active(r)
  BY DEF Pending, Active, Ended, Drained
<1>2. \A r, i, n : Finds(r, i, n)' <=> Finds(r, i, n)
  BY <1>1 DEF Finds
<1>3. OneAtATime' /\ PendingFine' /\ bounced' = {}
  BY <1>1, <1>2 DEF Turns, OneAtATime, PendingFine, FineAt
<1>4. ASSUME NEW s \in Session
      PROVE  Fine(s)'
  <2>1. Fine(s)
    BY DEF Turns
  <2> QED
    BY <1>1, <1>2, <2>1 DEF Fine, Unsent, Ready, Awaits, Undoes, Drained, Before, Current,
                            LeavesBehind, Undone
<1> QED
  BY <1>3, <1>4 DEF Turns

(* The reversal a catch block is about to send.                            *)
LEMMA ReversalHere ==
  ASSUME IInv, NEW s \in Session, status[s] = "undoing", HasReversal(s),
         NEW u, u = undo[s].step, NEW k, k = undo[s].at
  PROVE  /\ u \in 1..Len(plan[s]) /\ u <= Current(s).index
         /\ Current(s).index \in Nat
         /\ plan[s][u].kind = "approve"
         /\ k \in 1..Len(plan[s][u].reversal)
         /\ IsUndo(plan[s][u].reversal, SlotOf[s], found[s])
         /\ Undone(s).slot = SlotOf[s] /\ plan[s][u].reversal[k] \in Nat
<1>1. InLoop(s)
  BY DEF InLoop
<1>2. /\ pc[s] \in 1..Len(plan[s]) /\ Len(plan[s]) \in Nat
      /\ Current(s).index = pc[s] - 1
  BY <1>1, CurrentStep DEF Current
<1>3. u \in Nat \ {0} /\ k \in Nat \ {0}
  BY DEF IInv, TypeOK
<1>4. u <= Current(s).index /\ k <= Len(plan[s][u].reversal)
  BY DEF HasReversal, InSlice, Undone
<1>5. u \in 1..Len(plan[s]) /\ Current(s).index \in Nat
  BY <1>2, <1>3, <1>4
<1>6. plan[s][u] \in Step /\ PlanStep(plan[s], u, SlotOf[s], amount[s], found[s])
  BY <1>1, <1>5, CurrentStep
<1>7. PICK rev : rev = plan[s][u].reversal
  OBVIOUS
<1>8. rev \in Seq(Nat) /\ Len(rev) \in Nat
  BY <1>6, <1>7, LenProperties DEF Step
<1>9. k \in 1..Len(rev)
  BY <1>3, <1>4, <1>7, <1>8
<1>10. rev # <<>>
  BY <1>8, <1>9
<1>11. plan[s][u].kind = "approve" /\ IsUndo(rev, SlotOf[s], found[s])
  BY <1>6, <1>7, <1>10 DEF PlanStep
<1>12. rev[k] \in Nat
  BY <1>8, <1>9, ElementOfSeq
<1>13. Undone(s).slot = SlotOf[s]
  BY <1>6 DEF Undone, PlanStep
<1> QED
  BY <1>4, <1>5, <1>7, <1>9, <1>11, <1>12, <1>13

LEMMA PriceTurns ==
  ASSUME IInv, TakesTurns, Turns, NEW s \in Session, Price(s)
  PROVE  Turns'
<1>1. /\ status[s] = "idle" /\ status' = [status EXCEPT ![s] = "priced"]
      /\ AtRest(SlotOf[s])
      /\ \E a : amount' = [amount EXCEPT ![s] = a]
      /\ UNCHANGED <<chainVars, pc, receipt, undo, job, plan, found>>
  BY DEF Price, TakesTurns
<1>2. Drained(s) /\ call[s] = "none" /\ undo[s] = [step |-> 1, at |-> 1]
  BY <1>1 DEF Turns, Fine, Unsent
<1>3. /\ status'[s] = "priced"
      /\ \A r \in Session \ {s} : status'[r] = status[r] /\ amount'[r] = amount[r]
  BY <1>1 DEF IInv, TypeOK
<1>4. Drained(s)'
  BY <1>1, <1>2 DEF Drained, Pending, chainVars
<1>5. Fine(s)'
  BY <1>1, <1>2, <1>3, <1>4 DEF Fine, Unsent, Ready, Awaits, Undoes
<1>6. UNCHANGED <<allowance, mempool, owed, call, bounced>>
  BY <1>1 DEF chainVars
<1> QED
  BY <1>1, <1>2, <1>3, <1>5, <1>6, QuietKeeps

LEMMA BuildTurns ==
  ASSUME IInv, Turns, NEW s \in Session, Build(s)
  PROVE  Turns'
<1>1. /\ status[s] = "priced" /\ status' = [status EXCEPT ![s] = "running"]
      /\ found' = [found EXCEPT ![s] = allowance[SlotOf[s]]]
      /\ \E p : plan' = [plan EXCEPT ![s] = p]
      /\ UNCHANGED <<chainVars, pc, receipt, undo, job, amount>>
  BY DEF Build
<1>2. Drained(s) /\ undo[s] = [step |-> 1, at |-> 1] /\ pc[s] = 1 /\ Active(s)
  BY <1>1, ActiveOnes DEF Turns, Fine, Unsent, IInv, Opening
<1>3. /\ status'[s] = "running" /\ found'[s] = allowance[SlotOf[s]]
      /\ \A r \in Session \ {s} :
           status'[r] = status[r] /\ found'[r] = found[r] /\ plan'[r] = plan[r]
  BY <1>1 DEF IInv, TypeOK
<1>4. UNCHANGED <<allowance, mempool, owed, call, bounced>>
  BY <1>1 DEF chainVars
<1>5. Drained(s)'
  BY <1>2, <1>4 DEF Drained, Pending
<1>6. Fine(s)'
  <2>1. Unsent(s)' /\ Awaits(s)' /\ Undoes(s)'
    BY <1>1, <1>2, <1>3, <1>5 DEF Unsent, Awaits, Undoes
  <2>2. Ready(s)'
    BY <1>1, <1>2, <1>3, <1>4 DEF Ready
  <2> QED
    BY <2>1, <2>2 DEF Fine
<1> QED
  BY <1>1, <1>2, <1>3, <1>4, <1>6, QuietKeeps

(* The step that is sent next finds the allowance the step before it set,  *)
(* or the one its builder read.                                            *)
LEMMA SendTurns ==
  ASSUME IInv, Turns, NEW s \in Session, Send(s)
  PROVE  Turns'
<1> DEFINE p == plan[s]
           i == pc[s]
<1>1. /\ status[s] = "running" /\ status' = [status EXCEPT ![s] = "waiting"]
      /\ receipt' = [receipt EXCEPT ![s] = "none"]
      /\ Submit(s, Current(s).kind, Current(s).slot, Current(s).amount, FALSE)
      /\ UNCHANGED <<allowance, owed, call, bounced, standing, pc, undo, planVars>>
  BY DEF Send
<1>2. InLoop(s) /\ Active(s)
  BY <1>1, ActiveOnes DEF InLoop
<1>3. /\ i \in 1..Len(p) /\ Len(p) \in Nat /\ Current(s) = p[i]
      /\ PlanStep(p, i, SlotOf[s], amount[s], found[s])
  BY <1>2, CurrentStep DEF Current
<1>4. /\ Current(s).kind \in {"approve", "call"} /\ Current(s).slot = SlotOf[s]
      /\ Current(s).amount \in Nat
  BY <1>2, <1>3, PlanStepBound
<1>5. PICK kind \in {"approve", "call"}, n \in Nat :
        kind = Current(s).kind /\ n = Current(s).amount
  BY <1>4
<1>6. Submit(s, kind, SlotOf[s], n, FALSE)
  BY <1>1, <1>4, <1>5
<1>7. Drained(s) /\ undo[s] = [step |-> 1, at |-> 1] /\ Ready(s)
  BY <1>1 DEF Turns, Fine, Unsent
<1>8. /\ i = 1 => allowance[SlotOf[s]] = found[s]
      /\ (i > 1 /\ p[i-1].kind = "approve") => allowance[SlotOf[s]] = p[i-1].amount
  BY <1>1, <1>7 DEF Ready, Before
<1>9. (kind = "approve" /\ n > 0 /\ SlotOf[s] \in UsdtLike) => LeavesBehind(s, 0)
  <2> SUFFICES ASSUME kind = "approve", n > 0, SlotOf[s] \in UsdtLike
               PROVE  LeavesBehind(s, 0)
    OBVIOUS
  <2>1. FromZero(p, i, found[s])
    BY <1>3, <1>5 DEF PlanStep
  <2>2. allowance[SlotOf[s]] = 0
    BY <1>8, <2>1 DEF FromZero
  <2> QED
    BY <1>7, <2>2 DEF LeavesBehind, Finds, Drained
<1>10. kind = "call" => amount[s] <= allowance[SlotOf[s]]
  <2> SUFFICES ASSUME kind = "call"
               PROVE  amount[s] <= allowance[SlotOf[s]]
    OBVIOUS
  <2>1. Covered(p, i, amount[s], found[s])
    BY <1>3, <1>5 DEF PlanStep
  <2>2. amount[s] \in Nat /\ found[s] \in Nat
    BY DEF IInv, TypeOK
  <2> QED
    BY <1>8, <2>1, <2>2 DEF Covered
<1>11. /\ status'[s] = "waiting" /\ receipt'[s] = "none" /\ Current(s)' = Current(s)
       /\ \A r \in Session \ {s} : status'[r] = status[r] /\ receipt'[r] = receipt[r]
                                   /\ undo'[r] = undo[r]
  BY <1>1 DEF IInv, TypeOK, Current, planVars
<1>12. Awaits(s)'
  <2>1. PICK tx \in Tx : /\ mempool' = Append(mempool, tx)
                         /\ tx.from = s /\ ~tx.undoes /\ tx.kind = kind /\ tx.amount = n
    <3>1. PICK no \in BOOLEAN : no = FALSE
      OBVIOUS
    <3>2. Submit(s, kind, SlotOf[s], n, no)
      BY <1>6, <3>1
    <3> QED
      BY <3>1, <3>2, Submitted
  <2>2. PICK l : l = Len(mempool) + 1
    OBVIOUS
  <2>3. /\ l \in 1..Len(mempool') /\ mempool'[l] = tx /\ Pending(s)' = Pending(s) \cup {l}
    BY <2>1, <2>2, Appended DEF IInv
  <2>4. Pending(s)' = {l}
    BY <1>7, <2>3 DEF Drained
  <2> QED
    BY <1>5, <1>11, <2>1, <2>3, <2>4 DEF Awaits
<1>13. Fine(s)'
  BY <1>1, <1>7, <1>11, <1>12 DEF Fine, Unsent, Ready, Undoes
<1> QED
  BY <1>1, <1>2, <1>6, <1>7, <1>9, <1>10, <1>11, <1>13, SubmitFine

LEMMA ConfirmTurns ==
  ASSUME IInv, Turns, NEW s \in Session, Confirm(s)
  PROVE  Turns'
<1>1. /\ status[s] = "waiting" /\ receipt[s] # "none"
      /\ UNCHANGED <<chainVars, receipt, undo, planVars>>
  BY DEF Confirm
<1>2. /\ Active(s) /\ Drained(s) /\ undo[s] = [step |-> 1, at |-> 1]
      /\ Current(s).kind = "approve" => allowance[SlotOf[s]] = Current(s).amount
  BY <1>1, ActiveOnes DEF Turns, Fine, Unsent, Awaits
<1>3. UNCHANGED <<allowance, mempool, owed, call, bounced, plan, found, amount>>
  BY <1>1 DEF chainVars, planVars
<1>4. Drained(s)'
  BY <1>2, <1>3 DEF Drained, Pending
<1>5. CASE status' = [status EXCEPT ![s] = "done"] /\ UNCHANGED pc
  <2>1. status'[s] = "done" /\ \A r \in Session \ {s} : status'[r] = status[r]
    BY <1>5 DEF IInv, TypeOK
  <2>2. Fine(s)'
    BY <2>1 DEF Fine, Unsent, Ready, Awaits, Undoes
  <2> QED
    BY <1>1, <1>2, <1>3, <1>5, <2>1, <2>2, QuietKeeps
<1>6. CASE /\ status' = [status EXCEPT ![s] = "running"]
           /\ pc' = [pc EXCEPT ![s] = @ + 1]
  <2>1. /\ status'[s] = "running" /\ pc'[s] = pc[s] + 1 /\ pc[s] \in Nat \ {0}
        /\ \A r \in Session \ {s} : status'[r] = status[r] /\ pc'[r] = pc[r]
    BY <1>6 DEF IInv, TypeOK
  <2>2. Before(s)' = Current(s) /\ pc'[s] # 1
    <3>1. pc'[s] - 1 = pc[s] /\ pc'[s] # 1
      BY <2>1
    <3> QED
      BY <1>3, <3>1 DEF Before, Current
  <2>3. Ready(s)'
    BY <1>2, <1>3, <2>2 DEF Ready
  <2>4. Fine(s)'
    BY <1>1, <1>2, <1>4, <2>1, <2>3 DEF Fine, Unsent, Awaits, Undoes
  <2> QED
    BY <1>1, <1>2, <1>3, <2>1, <2>4, QuietKeeps
<1> QED
  BY <1>5, <1>6 DEF Confirm

(* A session that gives up, before or after its reversals.                 *)
LEMMA GiveUpTurns ==
  ASSUME IInv, Turns, NEW s \in Session,
         status[s] \in {"priced", "running", "waiting", "undoing"},
         NEW to \in {"undoing", "failed", "crashed"},
         to = "undoing" => status[s] \in {"running", "waiting"},
         status' = [status EXCEPT ![s] = to],
         UNCHANGED <<chainVars, pc, receipt, undo, planVars>>
  PROVE  Turns'
<1>1. Active(s)
  BY ActiveOnes
<1>2. UNCHANGED <<allowance, mempool, owed, call, bounced, plan, found, amount>>
  BY DEF chainVars, planVars
<1>3. status'[s] = to /\ \A r \in Session \ {s} : status'[r] = status[r]
  BY DEF IInv, TypeOK
<1>4. to = "undoing" => undo'[s].at = 1
  BY DEF Turns, Fine, Unsent
<1>5. Fine(s)'
  BY <1>3, <1>4 DEF Fine, Unsent, Ready, Awaits, Undoes
<1> QED
  BY <1>1, <1>2, <1>3, <1>5, QuietKeeps

(* On the way back through zero the zero has been sent before.             *)
LEMMA SendUndoTurns ==
  ASSUME IInv, Turns, NEW s \in Session, SendUndo(s)
  PROVE  Turns'
<1> DEFINE u == undo[s].step
           k == undo[s].at
           rev == plan[s][u].reversal
<1>1. /\ status[s] = "undoing" /\ HasReversal(s)
      /\ Submit(s, "approve", Undone(s).slot, Undone(s).reversal[undo[s].at], TRUE)
      /\ undo' = [undo EXCEPT ![s].at = @ + 1]
      /\ UNCHANGED <<allowance, owed, call, bounced, standing, status, pc, receipt, planVars>>
  BY DEF SendUndo
<1>2. /\ u \in 1..Len(plan[s]) /\ k \in 1..Len(rev)
      /\ IsUndo(rev, SlotOf[s], found[s])
      /\ Undone(s).slot = SlotOf[s] /\ rev[k] \in Nat
  BY <1>1, ReversalHere
<1>3. PICK n \in Nat : n = rev[k]
  BY <1>2
<1>4. Submit(s, "approve", SlotOf[s], n, TRUE)
  BY <1>1, <1>2, <1>3 DEF Undone
<1>5. Active(s)
  BY <1>1, ActiveOnes
<1>6. (n > 0 /\ SlotOf[s] \in UsdtLike) => LeavesBehind(s, 0)
  <2> SUFFICES ASSUME n > 0, SlotOf[s] \in UsdtLike
               PROVE  LeavesBehind(s, 0)
    OBVIOUS
  <2>1. found[s] \in Nat
    BY DEF IInv, TypeOK
  <2>2. k > 1 /\ rev[k-1] = 0
    <3>1. PICK r : r = rev
      OBVIOUS
    <3>2. PICK at : at = k
      OBVIOUS
    <3>3. at \in 1..Len(r) /\ IsUndo(r, SlotOf[s], found[s]) /\ r[at] = n
      BY <1>2, <1>3, <3>1, <3>2
    <3>4. at > 1 /\ r[at-1] = 0
      BY <2>1, <3>3, UndoElements
    <3> QED
      BY <3>1, <3>2, <3>4
  <2>3. LeavesBehind(s, rev[k-1])
    BY <1>1, <2>2 DEF Turns, Fine, Undoes, Undone
  <2> QED
    BY <2>2, <2>3
<1>7. /\ undo'[s].step = u /\ undo'[s].at = k + 1
      /\ \A r \in Session \ {s} : undo'[r] = undo[r]
  <2>1. undo \in [Session -> [step : Nat \ {0}, at : Nat \ {0}]]
    BY DEF IInv, TypeOK
  <2> QED
    BY <1>1, <2>1
<1>8. LeavesBehind(s, n)'
  <2>1. PICK tx \in Tx : /\ mempool' = Append(mempool, tx)
                         /\ tx.from = s /\ tx.kind = "approve" /\ tx.amount = n
    <3>1. PICK yes \in BOOLEAN : yes = TRUE
      OBVIOUS
    <3>2. Submit(s, "approve", SlotOf[s], n, yes)
      BY <1>4, <3>1
    <3> QED
      BY <3>2, Submitted
  <2> QED
    BY <2>1, FindsTheLast DEF IInv
<1>9. Undoes(s)'
  <2>1. (k + 1) - 1 = k
    BY <1>2
  <2>2. n = (plan[s][undo[s].step].reversal[undo[s].at - 1])'
    BY <1>1, <1>3, <1>7, <2>1 DEF planVars
  <2> QED
    BY <1>8, <2>2 DEF Undoes, Undone
<1>10. Fine(s)'
  BY <1>1, <1>9 DEF Fine, Unsent, Ready, Awaits
<1> QED
  BY <1>1, <1>4, <1>5, <1>6, <1>7, <1>10, SubmitFine

LEMMA NextUndoneTurns ==
  ASSUME IInv, Turns, NEW s \in Session, NextUndone(s)
  PROVE  Turns'
<1>1. /\ status[s] = "undoing"
      /\ undo' = [undo EXCEPT ![s] = [step |-> @.step + 1, at |-> 1]]
      /\ UNCHANGED <<chainVars, status, pc, receipt, planVars>>
  BY DEF NextUndone
<1>2. undo'[s].at = 1 /\ \A r \in Session \ {s} : undo'[r] = undo[r]
  BY <1>1 DEF IInv, TypeOK
<1>3. UNCHANGED <<allowance, mempool, owed, call, bounced, plan, found, amount>>
  BY <1>1 DEF chainVars, planVars
<1>4. Fine(s)'
  BY <1>1, <1>2 DEF Fine, Unsent, Ready, Awaits, Undoes
<1> QED
  BY <1>1, <1>2, <1>3, <1>4, ActiveOnes, QuietKeeps
-----------------------------------------------------------------------------
(* The chain's steps.                                                      *)

LEMMA MineTurns ==
  ASSUME IInv, Turns, Mine
  PROVE  Turns'
<1>1. PICK tx : tx = Head(mempool)
  OBVIOUS
<1>2. mempool # <<>> /\ mempool \in Seq(Tx)
  BY PendingIs DEF Mine, MineApprove, MineBouncedApprove, MineCall, MineRevertedCall, IInv
<1>3. /\ tx = mempool[1] /\ Len(mempool) \in Nat \ {0} /\ 1 \in 1..Len(mempool)
      /\ \A s : Pending(s) \subseteq 1..Len(mempool)
  BY <1>1, <1>2, HeadTailProperties, LenProperties, EmptySeq DEF Pending
<1>4. /\ tx.from \in Session /\ 1 \in Pending(tx.from) /\ Active(tx.from)
      /\ tx.slot = SlotOf[tx.from] /\ tx.slot \in Slot /\ FineAt(1)
  BY <1>3, ActiveOnes, ExecutionAssumption DEF Turns, PendingFine
<1>5. /\ tx.kind = "approve" => ~TokenRefuses(tx)
      /\ tx.kind = "call" => amount[tx.from] <= allowance[tx.slot]
  <2>1. Finds(tx.from, 1, 0) => allowance[tx.slot] = 0
    BY <1>3, <1>4 DEF Finds
  <2> QED
    BY <1>3, <1>4, <2>1 DEF FineAt, TokenRefuses
<1>6. /\ \A r \in Session : status[r] = "idle" => call[r] = "none"
      /\ \A r \in Session : status[r] = "idle" => r # tx.from
  BY <1>4 DEF Turns, Fine, Unsent, Active
<1>7. allowance \in [Slot -> Nat]
  BY DEF IInv, TypeOK
<1>8. CASE MineApprove
  <2>1. /\ tx.kind = "approve" /\ allowance' = [allowance EXCEPT ![tx.slot] = tx.amount]
        /\ Report(tx, "success") /\ mempool' = Tail(mempool)
        /\ UNCHANGED <<owed, call, bounced, status, pc, undo, planVars>>
    BY <1>1, <1>8 DEF MineApprove, Report
  <2>2. Starved'
    BY <2>1 DEF Turns, Starved, planVars
  <2>3. /\ \A k \in Slot \ {tx.slot} : allowance'[k] = allowance[k]
        /\ allowance'[tx.slot] = tx.amount
    BY <1>4, <1>7, <2>1
  <2> QED
    BY <1>2, <1>3, <1>6, <2>1, <2>2, <2>3, MinedFine
<1>9. CASE MineBouncedApprove
  BY <1>1, <1>5, <1>9 DEF MineBouncedApprove
<1>10. CASE MineCall
  <2>1. /\ tx.kind = "call" /\ \E n : allowance' = [allowance EXCEPT ![tx.slot] = n]
        /\ Report(tx, "success") /\ mempool' = Tail(mempool)
        /\ call' = [call EXCEPT ![tx.from] = "settled"]
        /\ UNCHANGED <<owed, bounced, status, pc, undo, planVars>>
    BY <1>1, <1>10 DEF MineCall, Report
  <2>2. \A r \in Session : call'[r] = IF r = tx.from THEN "settled" ELSE call[r]
    BY <2>1 DEF IInv, TypeOK
  <2>3. Starved'
    BY <2>1, <2>2 DEF Turns, Starved, planVars
  <2>4. \A k \in Slot \ {tx.slot} : allowance'[k] = allowance[k]
    BY <1>4, <1>7, <2>1
  <2> QED
    BY <1>2, <1>3, <1>6, <2>1, <2>2, <2>3, <2>4, MinedFine
<1>11. CASE MineRevertedCall
  <2>1. /\ tx.kind = "call" /\ allowance' = allowance
        /\ Report(tx, "reverted") /\ mempool' = Tail(mempool)
        /\ UNCHANGED <<owed, bounced, status, pc, undo, planVars>>
        /\ \/ /\ Pull(tx.from) > allowance[tx.slot]
              /\ call' = [call EXCEPT ![tx.from] = "starved"]
           \/ call' = [call EXCEPT ![tx.from] = "refused"]
    BY <1>1, <1>11 DEF MineRevertedCall, Report
  <2>2. \A r \in Session : r # tx.from => call'[r] = call[r]
    BY <2>1 DEF IInv, TypeOK
  <2>3. call'[tx.from] = "starved" => owed[tx.from] > amount[tx.from]
    <3> SUFFICES ASSUME call'[tx.from] = "starved"
                 PROVE  owed[tx.from] > amount[tx.from]
      OBVIOUS
    <3>1. Pull(tx.from) > allowance[tx.slot]
      BY <1>4, <2>1 DEF IInv, TypeOK
    <3>2. amount[tx.from] \in Nat /\ owed[tx.from] \in Nat /\ allowance[tx.slot] \in Nat
      BY <1>4, <1>7 DEF IInv, TypeOK
    <3> QED
      BY <1>5, <2>1, <3>1, <3>2 DEF Pull
  <2>4. Starved'
    BY <2>1, <2>2, <2>3 DEF Turns, Starved, planVars
  <2> QED
    BY <1>2, <1>3, <1>6, <2>1, <2>2, <2>4, MinedFine
<1> QED
  BY <1>8, <1>9, <1>10, <1>11 DEF Mine

LEMMA AccrueTurns ==
  ASSUME IInv, Turns, NEW s \in Session, Accrue(s)
  PROVE  Turns'
<1>1. /\ call[s] = "none" /\ owed' = [owed EXCEPT ![s] = @ + 1]
      /\ UNCHANGED <<allowance, mempool, call, bounced, standing, loopVars, planVars>>
  BY DEF Accrue
<1>2. \A r \in Session : r # s => owed'[r] = owed[r]
  BY <1>1 DEF IInv, TypeOK
<1>3. Starved'
  BY <1>1, <1>2 DEF Turns, Starved, planVars
<1>4. UNCHANGED <<allowance, mempool, bounced, call, status, pc, receipt, undo,
                  amount, plan, found>>
  BY <1>1 DEF loopVars, planVars
<1> QED
  BY <1>3, <1>4, AsBefore

LEMMA NextTurns == TurnsInv /\ [Next]_vars => TurnsInv'
<1> SUFFICES ASSUME TurnsInv, [Next]_vars, TakesTurns'
             PROVE  Turns'
  BY NextIInv DEF TurnsInv
<1>1. IInv /\ job' = job
  BY JobKept DEF TurnsInv
<1>2. TakesTurns /\ Turns
  BY <1>1 DEF TurnsInv, TakesTurns
<1>3. ASSUME NEW s \in Session, Price(s) \/ Build(s)
      PROVE  Turns'
  BY <1>1, <1>2, <1>3, PriceTurns, BuildTurns
<1>4. ASSUME NEW s \in Session, Execute(s)
      PROVE  Turns'
  <2>1. CASE RevertedThrows(s)
    <3>1. PICK to \in {"undoing", "failed", "crashed"} :
            to = IF UndoesOnError THEN "undoing" ELSE "failed"
      OBVIOUS
    <3> QED
      BY <1>1, <1>2, <2>1, <3>1, GiveUpTurns DEF RevertedThrows, Catch
  <2>2. CASE Rethrow(s)
    BY <1>1, <1>2, <2>2, GiveUpTurns DEF Rethrow
  <2> QED
    BY <1>1, <1>2, <1>4, <2>1, <2>2, SendTurns, ConfirmTurns, SendUndoTurns,
       NextUndoneTurns DEF Execute
<1>5. ASSUME NEW s \in Session, Fail(s)
      PROVE  Turns'
  <2>1. CASE SendThrows(s) \/ WaitTimesOut(s)
    <3>1. PICK to \in {"undoing", "failed", "crashed"} :
            to = IF UndoesOnError THEN "undoing" ELSE "failed"
      OBVIOUS
    <3> QED
      BY <1>1, <1>2, <2>1, <3>1, GiveUpTurns DEF SendThrows, WaitTimesOut, Catch
  <2>2. CASE Crash(s)
    BY <1>1, <1>2, <2>2, GiveUpTurns DEF Crash
  <2> QED
    BY <1>5, <2>1, <2>2 DEF Fail
<1>6. CASE Finished \/ UNCHANGED vars
  <2>1. UNCHANGED <<allowance, mempool, bounced, call, status, pc, receipt, undo,
                    amount, plan, found, owed>>
    BY <1>6 DEF Finished, vars, chainVars, loopVars, planVars
  <2>2. Starved'
    BY <1>2, <2>1 DEF Turns, Starved
  <2> QED
    BY <1>2, <2>1, <2>2, AsBefore
<1> QED
  BY <1>1, <1>2, <1>3, <1>4, <1>5, <1>6, MineTurns, AccrueTurns DEF Next

LEMMA InitTurns == Init => TurnsInv
<1> SUFFICES ASSUME Init
             PROVE  TurnsInv
  OBVIOUS
<1>1. IInv
  BY InitIInv
<1>2. Len(mempool) = 0 /\ 1..Len(mempool) = {}
  BY EmptySeq DEF Init
<1>3. PendingFine /\ OneAtATime /\ Starved
  BY <1>2 DEF Init, PendingFine, OneAtATime, Active, Starved
<1>4. \A s \in Session : Fine(s)
  BY <1>2 DEF Init, Fine, Unsent, Ready, Awaits, Undoes, Drained, Pending
<1>5. bounced = {}
  BY DEF Init
<1> QED
  BY <1>1, <1>3, <1>4, <1>5 DEF TurnsInv, Turns
-----------------------------------------------------------------------------
(* The theorems.                                                           *)

(* While sequences take turns, every pending transaction finds the         *)
(* allowance its builder made it for: the inductive invariant.             *)
THEOREM TurnsInvariance == Spec => []TurnsInv
BY InitTurns, NextTurns, PTL DEF Spec

(* No approve of a sequence or of its reversals is refused by a token that *)
(* takes no change from non-zero to non-zero: whatever the steps, the      *)
(* faults and the loop, as long as sequences take turns.                   *)
THEOREM UsdtRuleHolds == Spec => []UsdtRuleKept
<1>1. TurnsInv => UsdtRuleKept
  BY DEF TurnsInv, Turns, UsdtRuleKept
<1> QED
  BY <1>1, TurnsInvariance, PTL

(* A call that lacks allowance cost more, by the time it was mined, than   *)
(* the ceiling its builder asked for.                                      *)
THEOREM OnlyAccrualStarves == Spec => []StarvedOnlyByAccrual
<1>1. TurnsInv => StarvedOnlyByAccrual
  BY DEF TurnsInv, Turns, StarvedOnlyByAccrual, Starved
<1> QED
  BY <1>1, TurnsInvariance, PTL

(* A sequence that raised, reclaims and is executed to the end has put     *)
(* back what its builder found.                                            *)
THEOREM RestoresItsAllowance == Spec => RestoresWhatItFound
<1>1. TurnsInv /\ [Next]_vars
        => [\A s \in Session :
              (/\ TakesTurns
               /\ status[s] # "done" /\ status'[s] = "done"
               /\ Raised(s) /\ Reclaims(job[s]))
              => allowance'[SlotOf[s]] = found[s]]_vars
  <2> SUFFICES ASSUME TurnsInv, [Next]_vars, NEW s \in Session, TakesTurns,
                      status[s] # "done", status'[s] = "done",
                      Raised(s), Reclaims(job[s])
               PROVE  allowance'[SlotOf[s]] = found[s]
    OBVIOUS
  <2>1. IInv /\ Turns
    BY DEF TurnsInv
  <2>2. Confirm(s) /\ pc[s] = Len(plan[s])
    BY <2>1, OnlyConfirmEnds
  <2>3. status[s] = "waiting" /\ receipt[s] # "none" /\ allowance' = allowance
    BY <2>2 DEF Confirm, chainVars
  <2>4. IsPlan(plan[s], SlotOf[s], amount[s], found[s], Reclaims(job[s]))
    BY <2>1, <2>3 DEF IInv, Planned, InLoop
  <2>5. found[s] < amount[s]
    BY <2>1 DEF Raised, IInv, TypeOK
  <2>6. Current(s).kind = "approve" /\ Current(s).amount = found[s]
    BY <2>2, <2>4, <2>5 DEF IsPlan, Current
  <2> QED
    BY <2>1, <2>3, <2>6 DEF Turns, Fine, Awaits
<1> QED
  BY <1>1, TurnsInvariance, PTL DEF Spec, RestoresWhatItFound
=============================================================================
