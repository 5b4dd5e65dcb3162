--------------------------- MODULE ExecutionProofs ---------------------------
(* What the approval steps are, for every slot, amount and allowance; type *)
(* correctness of Execution, and the bound on what a spender can ever      *)
(* take, for every set of sessions, slots, requests and faults.            *)
EXTENDS Execution, SequenceTheorems, TLAPS

-----------------------------------------------------------------------------
(* The approval steps.                                                     *)

(* Stamping positions keeps a list of steps a list of steps, and changes   *)
(* nothing but the positions.                                              *)
LEMMA FinalizeStepsType ==
  ASSUME NEW steps \in Seq(Step)
  PROVE  /\ FinalizeSteps(steps) \in Seq(Step)
         /\ Len(FinalizeSteps(steps)) = Len(steps)
         /\ \A i \in 1..Len(steps) :
              FinalizeSteps(steps)[i] = [steps[i] EXCEPT !.index = i - 1]
<1> DEFINE n == Len(steps)
           g == [i \in 1..n |-> [steps[i] EXCEPT !.index = i - 1]]
<1>1. n \in Nat
  BY LenProperties
<1>2. ASSUME NEW i \in 1..n
      PROVE  [steps[i] EXCEPT !.index = i - 1] \in Step
  <2>1. steps[i] \in Step
    BY ElementOfSeq
  <2>2. i - 1 \in Nat
    BY <1>1
  <2> QED
    BY <2>1, <2>2 DEF Step
<1>3. g \in [1..n -> Step]
  BY <1>2
<1>4. g \in Seq(Step)
  BY <1>1, <1>3, SeqDef
<1>5. Len(g) = n
  BY <1>1, <1>3, <1>4, LenProperties
<1> QED
  BY <1>4, <1>5 DEF FinalizeSteps

(* An approve call, the protocol call and a raising step are steps.        *)
LEMMA StepTypes ==
  ASSUME NEW slot \in Slot, NEW n \in Nat
  PROVE  ApproveStep(slot, n) \in Step /\ CallStep(slot) \in Step
<1>1. <<>> \in Seq(Nat)
  BY EmptySeq
<1> QED
  BY <1>1 DEF ApproveStep, CallStep, Step, NotRead

LEMMA AmountsType ==
  ASSUME NEW steps \in Seq(Step)
  PROVE  /\ Amounts(steps) \in Seq(Nat)
         /\ Len(Amounts(steps)) = Len(steps)
         /\ \A i \in 1..Len(steps) : Amounts(steps)[i] = steps[i].amount
<1> DEFINE n == Len(steps)
           g == [i \in 1..n |-> steps[i].amount]
<1>1. n \in Nat
  BY LenProperties
<1>2. ASSUME NEW i \in 1..n
      PROVE  steps[i].amount \in Nat
  <2>1. steps[i] \in Step
    BY ElementOfSeq
  <2> QED
    BY <2>1 DEF Step
<1>3. g \in [1..n -> Nat]
  BY <1>2
<1>4. g \in Seq(Nat)
  BY <1>1, <1>3, SeqDef
<1>5. Len(g) = n
  BY <1>1, <1>3, <1>4, LenProperties
<1> QED
  BY <1>4, <1>5 DEF Amounts

(* The steps that put an allowance back: its value, or zero and then its   *)
(* value where the token needs that.                                       *)
LEMMA ClearAllowanceShape ==
  ASSUME NEW slot \in Slot, NEW restoreTo \in Nat,
         NEW c, c = ClearAllowanceSteps(slot, restoreTo)
  PROVE  /\ c \in Seq(Step) /\ Len(c) \in {1, 2}
         /\ \A i \in 1..Len(c) :
              /\ c[i].kind = "approve" /\ c[i].slot = slot
              /\ c[i].amount \in {0, restoreTo}
              /\ c[i].reversal = <<>>
         /\ c[Len(c)].amount = restoreTo
         /\ Len(c) = 2 => c[1].amount = 0
         /\ Len(c) = 1 => (restoreTo = 0 \/ slot \notin UsdtLike)
<1> DEFINE a0 == ApproveStep(slot, 0)
           a1 == ApproveStep(slot, restoreTo)
<1>1. a0 \in Step /\ a1 \in Step
  BY StepTypes
<1>2. /\ a0.kind = "approve" /\ a0.slot = slot /\ a0.amount = 0 /\ a0.reversal = <<>>
      /\ a1.kind = "approve" /\ a1.slot = slot /\ a1.amount = restoreTo /\ a1.reversal = <<>>
  BY DEF ApproveStep
<1> HIDE DEF a0, a1
<1>3. c = IF restoreTo > 0 /\ slot \in UsdtLike THEN <<a0, a1>> ELSE <<a1>>
  BY DEF ClearAllowanceSteps, a0, a1
<1>4. CASE restoreTo > 0 /\ slot \in UsdtLike
  BY <1>1, <1>2, <1>3, <1>4
<1>5. CASE ~(restoreTo > 0 /\ slot \in UsdtLike)
  BY <1>1, <1>2, <1>3, <1>5
<1> QED
  BY <1>4, <1>5

(* What undoes a raise: back to what was found, through zero where the     *)
(* token needs that.                                                       *)
IsUndo(r, slot, prior) ==
  /\ r \in Seq(Nat) /\ Len(r) \in {1, 2} /\ r[Len(r)] = prior
  /\ Len(r) = 2 => r[1] = 0
  /\ Len(r) = 1 => (prior = 0 \/ slot \notin UsdtLike)

LEMMA UndoElements ==
  ASSUME NEW slot, NEW prior \in Nat, NEW r, IsUndo(r, slot, prior),
         NEW k \in 1..Len(r)
  PROVE  /\ r[k] \in {0, prior}
         /\ (r[k] > 0 /\ slot \in UsdtLike) => k > 1 /\ r[k-1] = 0
<1>1. CASE Len(r) = 1
  BY <1>1 DEF IsUndo
<1>2. CASE Len(r) = 2
  <2>1. k = 1 \/ k = 2
    BY <1>2
  <2> QED
    BY <1>2, <2>1 DEF IsUndo
<1> QED
  BY <1>1, <1>2 DEF IsUndo

(* An approve step that raises, and what undoes it.                        *)
LEMMA RaisingStepType ==
  ASSUME NEW slot \in Slot, NEW wanted \in Nat, NEW stands \in Nat
  PROVE  /\ RaisingStep(slot, wanted, stands) \in Step
         /\ RaisingStep(slot, wanted, stands).kind = "approve"
         /\ RaisingStep(slot, wanted, stands).slot = slot
         /\ RaisingStep(slot, wanted, stands).amount = wanted
         /\ RaisingStep(slot, wanted, stands).observed = stands
         /\ IsUndo(RaisingStep(slot, wanted, stands).reversal, slot, stands)
<1> DEFINE clear == ClearAllowanceSteps(slot, stands)
           back  == Amounts(clear)
<1>1. back \in Seq(Nat) /\ IsUndo(back, slot, stands)
  <2>1. PICK c : c = clear
    OBVIOUS
  <2>2. /\ c \in Seq(Step) /\ Len(c) \in {1, 2} /\ c[Len(c)].amount = stands
        /\ Len(c) = 2 => c[1].amount = 0
        /\ Len(c) = 1 => (stands = 0 \/ slot \notin UsdtLike)
    BY <2>1, ClearAllowanceShape
  <2>3. PICK r : r = Amounts(c)
    OBVIOUS
  <2>4. /\ r \in Seq(Nat) /\ Len(r) = Len(c)
        /\ \A i \in 1..Len(c) : r[i] = c[i].amount
    BY <2>2, <2>3, AmountsType
  <2>5. r[Len(r)] = stands /\ (Len(r) = 2 => r[1] = 0)
    BY <2>2, <2>4
  <2> QED
    BY <2>1, <2>2, <2>3, <2>4, <2>5 DEF IsUndo
<1> HIDE DEF back
<1>2. RaisingStep(slot, wanted, stands)
        = [kind |-> "approve", slot |-> slot, amount |-> wanted,
           observed |-> stands, reversal |-> back, index |-> 0]
  BY DEF RaisingStep, back
<1> QED
  BY <1>1, <1>2 DEF Step

(* What ApproveSteps returns: nothing when the amount is covered, else a   *)
(* raise to it, after a reset if the token needs one, each step with a     *)
(* reversal to the allowance that was read.                                *)
IsApproval(a, slot, wanted, stands) ==
  /\ a \in Seq(Step)
  /\ wanted <= stands => a = <<>>
  /\ wanted > stands => Len(a) \in {1, 2} /\ a[Len(a)].amount = wanted
  /\ Len(a) = 2 => a[1].amount = 0
  /\ Len(a) = 1 => (stands = 0 \/ slot \notin UsdtLike)
  /\ \A i \in 1..Len(a) :
       /\ a[i].kind = "approve" /\ a[i].slot = slot
       /\ a[i].amount \in {0, wanted} /\ a[i].observed = stands
       /\ IsUndo(a[i].reversal, slot, stands)

(* The raise: no step if the allowance suffices; otherwise one step, or a  *)
(* reset and one step, of which the last asks for the whole amount.        *)
LEMMA ApproveStepsShape ==
  ASSUME NEW slot \in Slot, NEW wanted \in Nat, NEW stands \in Nat,
         NEW a, a = ApproveSteps(slot, wanted, stands)
  PROVE  IsApproval(a, slot, wanted, stands)
<1> SUFFICES /\ a \in Seq(Step)
             /\ wanted <= stands => a = <<>>
             /\ wanted > stands => Len(a) \in {1, 2} /\ a[Len(a)].amount = wanted
             /\ Len(a) = 2 => a[1].amount = 0
             /\ Len(a) = 1 => (stands = 0 \/ slot \notin UsdtLike)
             /\ \A i \in 1..Len(a) :
                  /\ a[i].kind = "approve" /\ a[i].slot = slot
                  /\ a[i].amount \in {0, wanted} /\ a[i].observed = stands
                  /\ IsUndo(a[i].reversal, slot, stands)
  BY DEF IsApproval
<1>1. CASE wanted <= stands
  BY <1>1 DEF ApproveSteps
<1>2. CASE wanted > stands
  <2> DEFINE reset == RaisingStep(slot, 0, stands)
             raise == RaisingStep(slot, wanted, stands)
             pair  == slot \in UsdtLike /\ stands > 0
             draft == IF pair THEN <<reset, raise>> ELSE <<raise>>
  <2>1. reset \in Step /\ raise \in Step
    BY RaisingStepType
  <2>2. /\ reset.kind = "approve" /\ reset.slot = slot /\ reset.amount = 0
        /\ reset.observed = stands
        /\ IsUndo(reset.reversal, slot, stands)
    BY RaisingStepType
  <2>3. /\ raise.kind = "approve" /\ raise.slot = slot /\ raise.amount = wanted
        /\ raise.observed = stands
        /\ IsUndo(raise.reversal, slot, stands)
    BY RaisingStepType
  <2>4. a = FinalizeSteps(draft)
    BY <1>2 DEF ApproveSteps
  <2> HIDE DEF reset, raise
  <2>5. draft \in Seq(Step) /\ Len(draft) = (IF pair THEN 2 ELSE 1)
    BY <2>1
  <2>6. \A i \in 1..Len(draft) :
          /\ draft[i].kind = "approve" /\ draft[i].slot = slot
          /\ draft[i].amount \in {0, wanted} /\ draft[i].observed = stands
          /\ IsUndo(draft[i].reversal, slot, stands)
    BY <2>2, <2>3
  <2>7. /\ draft[Len(draft)].amount = wanted
        /\ Len(draft) = 2 => draft[1].amount = 0
        /\ Len(draft) = 1 => (stands = 0 \/ slot \notin UsdtLike)
    BY <2>2, <2>3
  <2> HIDE DEF draft
  <2>8. /\ a \in Seq(Step) /\ Len(a) = Len(draft)
        /\ \A i \in 1..Len(draft) : a[i] = [draft[i] EXCEPT !.index = i - 1]
    BY <2>4, <2>5, FinalizeStepsType
  <2>9. \A i \in 1..Len(draft) :
          /\ a[i].kind = draft[i].kind /\ a[i].slot = draft[i].slot
          /\ a[i].amount = draft[i].amount /\ a[i].observed = draft[i].observed
          /\ a[i].reversal = draft[i].reversal
    <3> SUFFICES ASSUME NEW i \in 1..Len(draft)
                 PROVE  /\ a[i].kind = draft[i].kind /\ a[i].slot = draft[i].slot
                        /\ a[i].amount = draft[i].amount /\ a[i].observed = draft[i].observed
                        /\ a[i].reversal = draft[i].reversal
      OBVIOUS
    <3>1. draft[i] \in Step
      BY <2>5, ElementOfSeq
    <3> QED
      BY <2>8, <3>1 DEF Step
  <2> HIDE DEF pair
  <2>10. Len(draft) \in {1, 2}
    BY <2>5
  <2> QED
    BY <1>2, <2>6, <2>7, <2>8, <2>9, <2>10
<1> QED
  BY <1>1, <1>2

(* Any two lists around a step: the order is kept.                         *)
LEMMA Splice ==
  ASSUME NEW S, NEW a \in Seq(S), NEW b \in S, NEW c \in Seq(S),
         NEW d, d = a \o <<b>> \o c
  PROVE  /\ d \in Seq(S) /\ Len(d) = Len(a) + 1 + Len(c)
         /\ \A i \in 1..Len(a) : d[i] = a[i]
         /\ d[Len(a) + 1] = b
         /\ \A j \in 1..Len(c) : d[Len(a) + 1 + j] = c[j]
<1>0. Len(a) \in Nat /\ Len(c) \in Nat
  BY LenProperties
<1>1. PICK bb : bb = <<b>>
  OBVIOUS
<1>2. bb \in Seq(S) /\ Len(bb) = 1 /\ bb[1] = b
  BY <1>1
<1>3. PICK ab : ab = a \o bb
  OBVIOUS
<1>4. /\ ab \in Seq(S) /\ Len(ab) = Len(a) + Len(bb)
      /\ \A i \in 1..(Len(a) + Len(bb)) : ab[i] = IF i <= Len(a) THEN a[i] ELSE bb[i - Len(a)]
  BY <1>2, <1>3, ConcatProperties
<1>5. /\ ab \in Seq(S) /\ Len(ab) = Len(a) + 1
      /\ \A i \in 1..Len(a) : ab[i] = a[i]
      /\ ab[Len(a) + 1] = b
  <2>1. Len(ab) = Len(a) + 1 /\ 1..(Len(a) + Len(bb)) = 1..(Len(a) + 1)
    BY <1>2, <1>4
  <2>2. \A i \in 1..(Len(a) + 1) : ab[i] = IF i <= Len(a) THEN a[i] ELSE bb[i - Len(a)]
    BY <1>4, <2>1
  <2>3. \A i \in 1..Len(a) : i \in 1..(Len(a) + 1) /\ i <= Len(a)
    BY <1>0
  <2>4. /\ Len(a) + 1 \in 1..(Len(a) + 1) /\ ~(Len(a) + 1 <= Len(a))
        /\ (Len(a) + 1) - Len(a) = 1
    BY <1>0
  <2>5. \A i \in 1..Len(a) : ab[i] = a[i]
    BY <2>2, <2>3
  <2>6. ab[Len(a) + 1] = b
    BY <1>2, <2>2, <2>4
  <2> QED
    BY <1>4, <2>1, <2>5, <2>6
<1>6. d = ab \o c
  BY <1>1, <1>3
<1>7. /\ d \in Seq(S) /\ Len(d) = Len(ab) + Len(c)
      /\ \A i \in 1..(Len(ab) + Len(c)) : d[i] = IF i <= Len(ab) THEN ab[i] ELSE c[i - Len(ab)]
  BY <1>5, <1>6, ConcatProperties
<1>8. /\ \A i \in 1..Len(ab) : d[i] = ab[i]
      /\ \A j \in 1..Len(c) : d[Len(ab) + j] = c[j]
  BY <1>0, <1>5, <1>7
<1> QED
  BY <1>0, <1>5, <1>7, <1>8

(* Two steps that differ at most in position and in what was read.         *)
Alike(x, y) ==
  x.kind = y.kind /\ x.slot = y.slot /\ x.amount = y.amount /\ x.reversal = y.reversal

(* A raise, a call and a way back, put together and stamped.               *)
LEMMA SpliceSteps ==
  ASSUME NEW a \in Seq(Step), NEW b \in Step, NEW c \in Seq(Step),
         NEW p, p = FinalizeSteps(a \o <<b>> \o c)
  PROVE  /\ p \in Seq(Step) /\ Len(p) = Len(a) + 1 + Len(c)
         /\ \A i \in 1..Len(p) : p[i].index = i - 1
         /\ \A i \in 1..Len(a) : Alike(p[i], a[i])
         /\ Alike(p[Len(a) + 1], b)
         /\ \A j \in 1..Len(c) : Alike(p[Len(a) + 1 + j], c[j])
<1>0. Len(a) \in Nat /\ Len(c) \in Nat
  BY LenProperties
<1>1. PICK d : d = a \o <<b>> \o c
  OBVIOUS
<1>2. /\ d \in Seq(Step) /\ Len(d) = Len(a) + 1 + Len(c)
      /\ \A i \in 1..Len(a) : d[i] = a[i]
      /\ d[Len(a) + 1] = b
      /\ \A j \in 1..Len(c) : d[Len(a) + 1 + j] = c[j]
  BY <1>1, Splice
<1>3. p = FinalizeSteps(d)
  BY <1>1
<1>4. /\ p \in Seq(Step) /\ Len(p) = Len(d)
      /\ \A i \in 1..Len(d) : p[i] = [d[i] EXCEPT !.index = i - 1]
  <2>1. d \in Seq(Step)
    BY <1>2
  <2>2. /\ FinalizeSteps(d) \in Seq(Step)
        /\ Len(FinalizeSteps(d)) = Len(d)
        /\ \A i \in 1..Len(d) : FinalizeSteps(d)[i] = [d[i] EXCEPT !.index = i - 1]
    BY <2>1, FinalizeStepsType, Zenon
  <2> QED
    BY <1>3, <2>2, Zenon
<1>5. \A i \in 1..Len(d) : Alike(p[i], d[i]) /\ p[i].index = i - 1
  <2> SUFFICES ASSUME NEW i \in 1..Len(d)
               PROVE  Alike(p[i], d[i]) /\ p[i].index = i - 1
    OBVIOUS
  <2>1. d[i] \in Step
    BY <1>2, ElementOfSeq
  <2>2. p[i] = [d[i] EXCEPT !.index = i - 1]
    BY <1>4
  <2> QED
    BY <2>1, <2>2 DEF Step, Alike
<1>6. /\ \A i \in 1..Len(a) : i \in 1..Len(d)
      /\ Len(a) + 1 \in 1..Len(d)
      /\ \A j \in 1..Len(c) : Len(a) + 1 + j \in 1..Len(d)
  BY <1>0, <1>2
<1>7. \A i \in 1..Len(a) : Alike(p[i], a[i])
  BY <1>2, <1>5, <1>6
<1>8. Alike(p[Len(a) + 1], b)
  BY <1>2, <1>5, <1>6
<1>9. \A j \in 1..Len(c) : Alike(p[Len(a) + 1 + j], c[j])
  BY <1>2, <1>5, <1>6
<1> QED
  BY <1>2, <1>4, <1>5, <1>7, <1>8, <1>9

(* What a sequence is.  Every step is of one slot and stands at its        *)
(* position; approves appear only where the allowance found fell short,    *)
(* and ask for nothing, for the amount or for what was found; an undo goes *)
(* to nothing or to what was found; and an approve of a USDT-like token    *)
(* that asks for anything starts from zero: found there, set by the step   *)
(* before it.  The call finds enough, or the step before it saw to that.   *)
FromZero(p, i, prior) ==
  \/ i = 1 /\ prior = 0
  \/ i > 1 /\ p[i-1].kind = "approve" /\ p[i-1].amount = 0

Covered(p, i, wanted, prior) ==
  \/ i = 1 /\ prior >= wanted
  \/ i > 1 /\ p[i-1].kind = "approve" /\ p[i-1].amount = wanted

PlanStep(p, i, slot, wanted, prior) ==
  /\ p[i].slot = slot
  /\ p[i].kind = "approve" =>
       /\ prior < wanted
       /\ p[i].amount \in {0, wanted, prior}
       /\ (p[i].amount > 0 /\ slot \in UsdtLike) => FromZero(p, i, prior)
  /\ p[i].kind = "call" => Covered(p, i, wanted, prior)
  /\ p[i].reversal # <<>> => p[i].kind = "approve" /\ IsUndo(p[i].reversal, slot, prior)

IsPlan(p, slot, wanted, prior, reclaims) ==
  /\ p \in Seq(Step) /\ Len(p) \in Nat \ {0}
  /\ \A i \in 1..Len(p) : p[i].index = i - 1 /\ PlanStep(p, i, slot, wanted, prior)
  /\ (prior < wanted /\ reclaims)
       => p[Len(p)].kind = "approve" /\ p[Len(p)].amount = prior
  /\ prior < wanted => p[1].kind = "approve" /\ p[1].reversal # <<>>

(* The two parts a sequence is spliced from.                               *)
IsRaise(a, slot, wanted, prior) ==
  /\ a \in Seq(Step) /\ Len(a) \in {0, 1, 2}
  /\ Len(a) # 0 <=> prior < wanted
  /\ Len(a) # 0 => a[Len(a)].amount = wanted
  /\ Len(a) = 2 => a[1].amount = 0
  /\ Len(a) = 1 => (prior = 0 \/ slot \notin UsdtLike)
  /\ \A i \in 1..Len(a) :
       /\ a[i].kind = "approve" /\ a[i].slot = slot /\ a[i].amount \in {0, wanted}
       /\ IsUndo(a[i].reversal, slot, prior)

IsWayBack(c, slot, prior) ==
  /\ c \in Seq(Step) /\ Len(c) \in {0, 1, 2}
  /\ Len(c) # 0 => c[Len(c)].amount = prior
  /\ Len(c) = 2 => c[1].amount = 0
  /\ Len(c) = 1 => (prior = 0 \/ slot \notin UsdtLike)
  /\ \A i \in 1..Len(c) :
       /\ c[i].kind = "approve" /\ c[i].slot = slot
       /\ c[i].amount \in {0, prior} /\ c[i].reversal = <<>>

(* A position in a list of at most two.                                    *)
LEMMA UpToTwo ==
  ASSUME NEW n \in {0, 1, 2}, NEW i \in 1..n
  PROVE  n = 1 \/ (n = 2 /\ i = 1) \/ (n = 2 /\ i = 2)
OBVIOUS

(* A raise, a call and the way back, where there is one, are a plan.       *)
LEMMA SpliceIsPlan ==
  ASSUME NEW slot \in Slot, NEW wanted \in Nat, NEW prior \in Nat,
         NEW reclaims \in BOOLEAN,
         NEW a, IsRaise(a, slot, wanted, prior),
         NEW c, IsWayBack(c, slot, prior),
         NEW p, p = FinalizeSteps(a \o <<CallStep(slot)>> \o c),
         Len(c) # 0 <=> (reclaims /\ prior < wanted)
  PROVE  IsPlan(p, slot, wanted, prior, reclaims)
<1> DEFINE b  == CallStep(slot)
           la == Len(a)
           lc == Len(c)
<1>1. a \in Seq(Step) /\ c \in Seq(Step) /\ b \in Step
  BY StepTypes DEF IsRaise, IsWayBack
<1>2. b.kind = "call" /\ b.slot = slot /\ b.reversal = <<>>
  BY DEF CallStep
<1>3. p = FinalizeSteps(a \o <<b>> \o c)
  OBVIOUS
<1>4. la \in {0, 1, 2} /\ lc \in {0, 1, 2} /\ la \in Nat /\ lc \in Nat
  BY DEF IsRaise, IsWayBack
<1> HIDE DEF b
<1>5. /\ p \in Seq(Step) /\ Len(p) = la + 1 + lc
      /\ \A i \in 1..Len(p) : p[i].index = i - 1
      /\ \A i \in 1..la : Alike(p[i], a[i])
      /\ Alike(p[la + 1], b)
      /\ \A j \in 1..lc : Alike(p[la + 1 + j], c[j])
  BY <1>1, <1>3, SpliceSteps
<1>6. ASSUME NEW i \in 1..la
      PROVE  PlanStep(p, i, slot, wanted, prior)
  <2>1. Alike(p[i], a[i]) /\ la # 0 /\ prior < wanted
    <3>1. Alike(p[i], a[i])
      BY <1>5
    <3>2. la # 0
      BY <1>4
    <3> QED
      BY <3>1, <3>2 DEF IsRaise
  <2>2. /\ p[i].kind = "approve" /\ p[i].slot = slot /\ p[i].amount \in {0, wanted}
        /\ IsUndo(p[i].reversal, slot, prior)
    <3>1. /\ a[i].kind = "approve" /\ a[i].slot = slot /\ a[i].amount \in {0, wanted}
          /\ IsUndo(a[i].reversal, slot, prior)
      BY DEF IsRaise
    <3>2. /\ p[i].kind = a[i].kind /\ p[i].slot = a[i].slot
          /\ p[i].amount = a[i].amount /\ p[i].reversal = a[i].reversal
      BY <2>1 DEF Alike
    <3> QED
      BY <3>1, <3>2
  <2>3. (p[i].amount > 0 /\ slot \in UsdtLike) => FromZero(p, i, prior)
    <3>1. CASE la = 1
      BY <3>1 DEF IsRaise, FromZero
    <3>2. CASE la = 2 /\ i = 1
      BY <1>5, <3>2 DEF IsRaise, Alike
    <3>3. CASE la = 2 /\ i = 2
      <4>1. Alike(p[1], a[1]) /\ a[1].kind = "approve" /\ a[1].amount = 0
        BY <1>5, <3>3 DEF IsRaise
      <4> QED
        BY <3>3, <4>1 DEF FromZero, Alike
    <3>4. la = 1 \/ (la = 2 /\ i = 1) \/ (la = 2 /\ i = 2)
      BY <1>4, UpToTwo
    <3> QED
      BY <3>1, <3>2, <3>3, <3>4
  <2> QED
    BY <2>1, <2>2, <2>3 DEF PlanStep
<1>7. PlanStep(p, la + 1, slot, wanted, prior)
  <2>1. /\ p[la + 1].slot = slot /\ p[la + 1].kind = "call"
        /\ p[la + 1].reversal = <<>>
    BY <1>2, <1>5 DEF Alike
  <2>2. Covered(p, la + 1, wanted, prior)
    <3>1. CASE la = 0
      BY <3>1 DEF IsRaise, Covered
    <3>2. CASE la # 0
      <4>1. la \in 1..la /\ la + 1 > 1 /\ (la + 1) - 1 = la
        BY <1>4, <3>2
      <4>2. a[la].kind = "approve" /\ a[la].amount = wanted
        BY <3>2, <4>1 DEF IsRaise
      <4>3. p[la].kind = "approve" /\ p[la].amount = wanted
        BY <1>5, <4>1, <4>2 DEF Alike
      <4> QED
        BY <4>1, <4>3 DEF Covered
    <3> QED
      BY <3>1, <3>2
  <2> QED
    BY <2>1, <2>2 DEF PlanStep
<1>8. ASSUME NEW j \in 1..lc
      PROVE  PlanStep(p, la + 1 + j, slot, wanted, prior)
  <2> DEFINE i == la + 1 + j
  <2>1. Alike(p[i], c[j]) /\ lc # 0 /\ prior < wanted
    <3>1. Alike(p[i], c[j])
      BY <1>5
    <3>2. lc # 0
      BY <1>4
    <3> QED
      BY <3>1, <3>2
  <2>2. /\ p[i].kind = "approve" /\ p[i].slot = slot /\ p[i].amount \in {0, prior}
        /\ p[i].reversal = <<>>
    BY <2>1 DEF IsWayBack, Alike
  <2>3. (p[i].amount > 0 /\ slot \in UsdtLike) => FromZero(p, i, prior)
    <3>1. CASE lc = 1
      <4>1. prior = 0 \/ slot \notin UsdtLike
        BY <3>1 DEF IsWayBack
      <4> QED
        BY <2>2, <4>1
    <3>2. CASE lc = 2 /\ j = 1
      BY <2>1, <3>2 DEF IsWayBack, Alike
    <3>3. CASE lc = 2 /\ j = 2
      <4>1. Alike(p[la + 1 + 1], c[1]) /\ c[1].kind = "approve" /\ c[1].amount = 0
        BY <1>5, <3>3 DEF IsWayBack
      <4>2. i > 1 /\ i - 1 = la + 1 + 1
        BY <1>4, <3>3
      <4> QED
        BY <4>1, <4>2 DEF FromZero, Alike
    <3>4. lc = 1 \/ (lc = 2 /\ j = 1) \/ (lc = 2 /\ j = 2)
      BY <1>4, UpToTwo
    <3> QED
      BY <3>1, <3>2, <3>3, <3>4
  <2> QED
    BY <2>1, <2>2, <2>3 DEF PlanStep
<1>9. ASSUME NEW i \in 1..Len(p)
      PROVE  PlanStep(p, i, slot, wanted, prior)
  <2>1. CASE i \in 1..la
    BY <1>6, <2>1
  <2>2. CASE i = la + 1
    BY <1>7, <2>2
  <2>3. CASE i > la + 1
    <3>1. i - (la + 1) \in 1..lc /\ i = la + 1 + (i - (la + 1))
      BY <1>4, <1>5, <2>3
    <3> QED
      BY <1>8, <3>1
  <2> QED
    BY <1>4, <1>5, <2>1, <2>2, <2>3
<1>10. (prior < wanted /\ reclaims)
         => p[Len(p)].kind = "approve" /\ p[Len(p)].amount = prior
  <2> SUFFICES ASSUME prior < wanted, reclaims
               PROVE  p[Len(p)].kind = "approve" /\ p[Len(p)].amount = prior
    OBVIOUS
  <2>1. lc \in 1..lc /\ lc # 0
    BY <1>4
  <2>2. Alike(p[Len(p)], c[lc])
    BY <1>5, <2>1
  <2> QED
    BY <2>1, <2>2 DEF IsWayBack, Alike
<1>11. Len(p) \in Nat \ {0}
  BY <1>4, <1>5
<1>12. prior < wanted => p[1].kind = "approve" /\ p[1].reversal # <<>>
  <2> SUFFICES ASSUME prior < wanted
               PROVE  p[1].kind = "approve" /\ p[1].reversal # <<>>
    OBVIOUS
  <2>1. la # 0
    BY DEF IsRaise
  <2>2. 1 \in 1..la
    BY <1>4, <2>1
  <2>3. Alike(p[1], a[1])
    BY <1>5, <2>2
  <2>4. a[1].kind = "approve" /\ IsUndo(a[1].reversal, slot, prior)
    BY <2>2 DEF IsRaise
  <2>5. a[1].reversal # <<>>
    <3>1. PICK r : r = a[1].reversal
      OBVIOUS
    <3>2. Len(r) \in {1, 2}
      BY <2>4, <3>1 DEF IsUndo
    <3>3. ASSUME r = <<>> PROVE FALSE
      <4>1. Len(<<>>) = 0
        OBVIOUS
      <4> QED
        BY <3>2, <3>3, <4>1
    <3> QED
      BY <3>1, <3>3
  <2> QED
    BY <2>3, <2>4, <2>5 DEF Alike
<1> QED
  BY <1>5, <1>9, <1>10, <1>11, <1>12 DEF IsPlan

(* The steps a builder returns are such a sequence, whatever the slot, the *)
(* amount and the allowance it read.                                       *)
THEOREM BuildSequenceIsPlan ==
  ASSUME NEW slot \in Slot, NEW wanted \in Nat, NEW prior \in Nat,
         NEW reclaims \in BOOLEAN
  PROVE  IsPlan(BuildSequence(slot, wanted, prior, reclaims),
                slot, wanted, prior, reclaims)
<1>1. PICK a : a = ApproveSteps(slot, wanted, prior)
  OBVIOUS
<1>2. PICK c : c = IF reclaims /\ a # <<>>
                   THEN ClearAllowanceSteps(slot, PriorAllowanceOf(a)) ELSE <<>>
  OBVIOUS
<1>3. /\ a \in Seq(Step)
      /\ wanted <= prior => a = <<>>
      /\ wanted > prior => Len(a) \in {1, 2} /\ a[Len(a)].amount = wanted
      /\ Len(a) = 2 => a[1].amount = 0
      /\ Len(a) = 1 => (prior = 0 \/ slot \notin UsdtLike)
      /\ \A i \in 1..Len(a) :
           /\ a[i].kind = "approve" /\ a[i].slot = slot
           /\ a[i].amount \in {0, wanted} /\ a[i].observed = prior
           /\ IsUndo(a[i].reversal, slot, prior)
  <2>1. IsApproval(a, slot, wanted, prior)
    BY <1>1, ApproveStepsShape
  <2> QED
    BY <2>1 DEF IsApproval
<1>4. Len(a) \in {0, 1, 2} /\ (Len(a) # 0 <=> prior < wanted) /\ (a # <<>> <=> prior < wanted)
  <2>0. Len(<<>>) = 0
    OBVIOUS
  <2>1. CASE wanted <= prior
    <3>1. a = <<>> /\ ~(prior < wanted)
      BY <1>3, <2>1
    <3> QED
      BY <2>0, <3>1
  <2>2. CASE wanted > prior
    <3>1. Len(a) \in {1, 2} /\ prior < wanted
      BY <1>3, <2>2
    <3>2. Len(a) # 0
      BY <3>1
    <3>3. a # <<>>
      BY <2>0, <3>2
    <3> QED
      BY <3>1, <3>2, <3>3
  <2> QED
    BY <2>1, <2>2
<1>5. IsRaise(a, slot, wanted, prior)
  BY <1>3, <1>4 DEF IsRaise
<1>6. a # <<>> => PriorAllowanceOf(a) = prior
  <2> SUFFICES ASSUME a # <<>>
               PROVE  PriorAllowanceOf(a) = prior
    OBVIOUS
  <2>1. 1 \in 1..Len(a)
    BY <1>4
  <2>2. prior # NotRead
    BY DEF NotRead
  <2> QED
    BY <1>3, <2>1, <2>2 DEF PriorAllowanceOf
<1>7. IsWayBack(c, slot, prior) /\ (Len(c) # 0 <=> (reclaims /\ prior < wanted))
  <2>1. CASE reclaims /\ a # <<>>
    <3>1. c = ClearAllowanceSteps(slot, prior)
      BY <1>2, <1>6, <2>1
    <3>2. /\ c \in Seq(Step) /\ Len(c) \in {1, 2}
          /\ \A i \in 1..Len(c) :
               /\ c[i].kind = "approve" /\ c[i].slot = slot
               /\ c[i].amount \in {0, prior}
               /\ c[i].reversal = <<>>
          /\ c[Len(c)].amount = prior
          /\ Len(c) = 2 => c[1].amount = 0
          /\ Len(c) = 1 => (prior = 0 \/ slot \notin UsdtLike)
      BY <3>1, ClearAllowanceShape
    <3>3. IsWayBack(c, slot, prior)
      BY <3>2 DEF IsWayBack
    <3>4. Len(c) # 0
      <4>1. Len(c) \in {1, 2}
        BY <3>2
      <4> QED
        BY <4>1
    <3>5. reclaims /\ prior < wanted
      <4>1. a # <<>> <=> prior < wanted
        BY <1>4
      <4> QED
        BY <2>1, <4>1, Zenon
    <3> QED
      BY <3>3, <3>4, <3>5
  <2>2. CASE ~(reclaims /\ a # <<>>)
    <3>1. c = <<>>
      BY <1>2, <2>2
    <3>2. Len(c) = 0 /\ c \in Seq(Step)
      BY <3>1, EmptySeq
    <3>3. IsWayBack(c, slot, prior)
      BY <3>2 DEF IsWayBack
    <3>4. ~(reclaims /\ prior < wanted)
      BY <1>4, <2>2
    <3> QED
      BY <3>2, <3>3, <3>4
  <2> QED
    BY <2>1, <2>2
<1>8. BuildSequence(slot, wanted, prior, reclaims) = FinalizeSteps(a \o <<CallStep(slot)>> \o c)
  BY <1>1, <1>2 DEF BuildSequence
<1> QED
  BY <1>5, <1>7, <1>8, SpliceIsPlan

-----------------------------------------------------------------------------
(* The types of what a session does.                                       *)

(* A builder asks for natural numbers.                                     *)
LEMMA WithHeadroomType ==
  ASSUME NEW cost \in Nat
  PROVE  WithHeadroom(cost) \in Nat
<1>1. cost \div HeadroomDivisor \in Nat
  BY PricingAssumption
<1> QED
  BY <1>1 DEF WithHeadroom

LEMMA WithMintBufferType ==
  ASSUME NEW cost \in Nat
  PROVE  WithMintBuffer(cost) \in Nat
<1> DEFINE n == cost * MintBufferBps + BpsDenominator - 1
<1>1. cost * MintBufferBps \in Nat
  BY PricingAssumption
<1>2. n \in Nat
  BY <1>1, PricingAssumption
<1> HIDE DEF n
<1>3. n \div BpsDenominator \in Nat
  BY <1>2, PricingAssumption
<1>4. CeilDiv(cost * MintBufferBps, BpsDenominator) = n \div BpsDenominator
  BY DEF CeilDiv, n
<1> QED
  BY <1>3, <1>4 DEF WithMintBuffer

LEMMA AskedType ==
  ASSUME NEW j \in Requests, NEW cost \in Nat
  PROVE  Asked(j, cost).amounts \subseteq Nat /\ Asked(j, cost).reclaims \in BOOLEAN
<1>1. WithHeadroom(cost) \in Nat /\ WithMintBuffer(cost) \in Nat
  BY WithHeadroomType, WithMintBufferType
<1>2. CallerFigures(cost) \subseteq Nat
  BY MarginAssumption DEF CallerFigures
<1>3. RepayAmounts(j.mode, cost) \subseteq Nat
  <2>1. j.mode \in Modes
    BY DEF Requests
  <2>2. RepayAllFigures(cost) \subseteq Nat
    BY MarginAssumption DEF RepayAllFigures
  <2> QED
    BY <1>1, <2>1, <2>2 DEF RepayAmounts, Modes
<1>4. j.builder \in BuilderNames /\ j.keep \in BOOLEAN
  BY DEF Requests
<1>5. CASE j.builder \in {"supply", "supplyDexLp", "depositVault"}
  BY <1>5 DEF Asked, Asks, BuildSupplySteps, BuildSmartSupplyDexLpSteps,
              BuildVaultDepositSteps
<1>6. CASE j.builder = "moolahSupply"
  BY <1>1, <1>4, <1>6 DEF Asked, Asks, BuildMoolahSupplySteps
<1>7. CASE j.builder \in {"repay", "smartRepay"}
  BY <1>3, <1>4, <1>7 DEF Asked, Asks, BuildRepaySteps, BuildSmartRepaySteps
<1>8. CASE j.builder \in {"brokerRepay", "brokerRepayAll", "liquidate", "vaultMint"}
  BY <1>1, <1>2, <1>4, <1>8 DEF Asked, Asks, BuildBrokerRepaySteps,
                               BuildBrokerRepayAllSteps, BuildLiquidateSteps, BuildVaultMintSteps
<1> QED
  BY <1>4, <1>5, <1>6, <1>7, <1>8 DEF BuilderNames
-----------------------------------------------------------------------------
(* The inductive invariant.                                                *)

(* A session whose loop has started holds a plan and stands in it.         *)
InLoop(s) == status[s] \in {"running", "waiting", "undoing"}

Planned ==
  \A s \in Session : InLoop(s) =>
    /\ IsPlan(plan[s], SlotOf[s], amount[s], found[s], Reclaims(job[s]))
    /\ pc[s] <= Len(plan[s])

(* A session whose loop has not started stands before its first step.      *)
Opening == \A s \in Session : status[s] \in {"idle", "priced"} => pc[s] = 1

(* A pending approve asks for no more than its session asked for, and the  *)
(* session's figure is settled.                                            *)
PendingBounded ==
  \A i \in 1..Len(mempool) :
    LET tx == mempool[i] IN
      /\ tx.slot = SlotOf[tx.from]
      /\ status[tx.from] # "idle"
      /\ tx.kind = "approve" => tx.amount <= amount[tx.from]

IInv == TypeOK /\ Opening /\ Planned /\ PendingBounded /\ NeverAboveAsked
-----------------------------------------------------------------------------
(* Facts several steps need.                                               *)

LEMMA InitIInv == Init => IInv
<1> SUFFICES ASSUME Init
             PROVE  IInv
  OBVIOUS
<1>1. <<>> \in Seq(Tx) /\ <<>> \in Seq(Step) /\ Len(mempool) = 0
  BY EmptySeq DEF Init
<1>2. TypeOK
  <2>1. allowance \in [Slot -> Nat] /\ standing \in [Slot -> Nat] /\ owed \in [Session -> Nat]
    BY ExecutionAssumption DEF Init
  <2>2. mempool \in Seq(Tx) /\ plan \in [Session -> Seq(Step)]
    BY <1>1 DEF Init
  <2>3. /\ job \in [Session -> Job]
        /\ amount \in [Session -> Nat] /\ found \in [Session -> Nat]
        /\ pc \in [Session -> Nat \ {0}]
        /\ undo \in [Session -> [step : Nat \ {0}, at : Nat \ {0}]]
        /\ bounced \subseteq Session
    BY DEF Init
  <2>4. /\ status \in [Session -> {"idle", "priced", "running", "waiting",
                                  "undoing", "done", "failed", "crashed"}]
        /\ receipt \in [Session -> {"none", "success", "reverted"}]
        /\ call \in [Session -> {"none", "settled", "starved", "refused"}]
    BY DEF Init
  <2> QED
    BY <2>1, <2>2, <2>3, <2>4 DEF TypeOK
<1>3. Opening /\ Planned
  BY DEF Init, Opening, Planned, InLoop
<1>4. PendingBounded
  BY <1>1 DEF PendingBounded
<1>5. NeverAboveAsked
  BY <1>2 DEF Init, NeverAboveAsked, TypeOK
<1> QED
  BY <1>2, <1>3, <1>4, <1>5 DEF IInv

(* The step a loop stands at.                                              *)
LEMMA CurrentStep ==
  ASSUME IInv, NEW s \in Session, InLoop(s)
  PROVE  /\ plan[s] \in Seq(Step) /\ pc[s] \in 1..Len(plan[s]) /\ Len(plan[s]) \in Nat
         /\ \A i \in 1..Len(plan[s]) :
              /\ plan[s][i] \in Step /\ plan[s][i].index = i - 1
              /\ PlanStep(plan[s], i, SlotOf[s], amount[s], found[s])
<1>1. IsPlan(plan[s], SlotOf[s], amount[s], found[s], Reclaims(job[s])) /\ pc[s] <= Len(plan[s])
  BY DEF IInv, Planned
<1>2. pc[s] \in Nat \ {0}
  BY DEF IInv, TypeOK
<1>3. plan[s] \in Seq(Step) /\ Len(plan[s]) \in Nat
  BY <1>1 DEF IsPlan
<1>4. pc[s] \in 1..Len(plan[s])
  BY <1>1, <1>2, <1>3
<1>5. \A i \in 1..Len(plan[s]) : plan[s][i] \in Step
  BY <1>3, ElementOfSeq
<1> QED
  BY <1>1, <1>3, <1>4, <1>5 DEF IsPlan

(* What a plan's approve step or an undo asks for is within the session's  *)
(* own figure.                                                             *)
LEMMA PlanStepBound ==
  ASSUME IInv, NEW s \in Session, InLoop(s), NEW i \in 1..Len(plan[s])
  PROVE  /\ plan[s][i].kind \in {"approve", "call"} /\ plan[s][i].slot = SlotOf[s]
         /\ plan[s][i].amount \in Nat
         /\ plan[s][i].kind = "approve" => plan[s][i].amount <= amount[s]
         /\ \A k \in 1..Len(plan[s][i].reversal) :
              /\ plan[s][i].reversal[k] \in Nat
              /\ plan[s][i].reversal[k] <= amount[s]
<1> DEFINE st == plan[s][i]
<1>1. st \in Step /\ PlanStep(plan[s], i, SlotOf[s], amount[s], found[s])
  BY CurrentStep
<1>2. amount[s] \in Nat /\ found[s] \in Nat
  BY DEF IInv, TypeOK
<1>3. /\ st.slot = SlotOf[s]
      /\ st.kind = "approve" => found[s] < amount[s] /\ st.amount \in {0, amount[s], found[s]}
      /\ \A k \in 1..Len(st.reversal) : st.kind = "approve" /\ st.reversal[k] \in {0, found[s]}
  <2>1. st.reversal # <<>> => \A k \in 1..Len(st.reversal) : st.reversal[k] \in {0, found[s]}
    BY <1>1, <1>2, UndoElements DEF PlanStep
  <2>2. st.reversal = <<>> => 1..Len(st.reversal) = {}
    <3>1. Len(<<>>) = 0
      OBVIOUS
    <3> QED
      BY <3>1
  <2> QED
    BY <1>1, <2>1, <2>2 DEF PlanStep
<1>4. st.kind \in {"approve", "call"} /\ st.amount \in Nat
  BY <1>1 DEF Step
<1>5. st.kind = "approve" => st.amount <= amount[s]
  BY <1>2, <1>3
<1>6. \A k \in 1..Len(st.reversal) : st.reversal[k] \in Nat /\ st.reversal[k] <= amount[s]
  BY <1>2, <1>3
<1> QED
  BY <1>3, <1>4, <1>5, <1>6

(* One more transaction in the mempool.                                    *)
LEMMA SubmitKeeps ==
  ASSUME TypeOK, PendingBounded,
         NEW s \in Session, NEW kind \in {"approve", "call"}, NEW n \in Nat,
         NEW undoes \in BOOLEAN,
         status[s] # "idle", kind = "approve" => n <= amount[s],
         Submit(s, kind, SlotOf[s], n, undoes),
         amount' = amount,
         \A r \in Session : status[r] # "idle" => status'[r] # "idle"
  PROVE  mempool' \in Seq(Tx) /\ PendingBounded'
<1> DEFINE tx == [from |-> s, kind |-> kind, slot |-> SlotOf[s], amount |-> n, undoes |-> undoes]
<1>1. tx \in Tx
  BY ExecutionAssumption DEF Tx
<1>2. /\ tx.from = s /\ tx.kind = kind /\ tx.slot = SlotOf[s] /\ tx.amount = n
  OBVIOUS
<1>3. mempool' = Append(mempool, tx)
  BY DEF Submit
<1> HIDE DEF tx
<1>4. mempool \in Seq(Tx) /\ Len(mempool) \in Nat
  BY LenProperties DEF TypeOK
<1>5. /\ mempool' \in Seq(Tx) /\ Len(mempool') = Len(mempool) + 1
      /\ \A i \in 1..Len(mempool) : mempool'[i] = mempool[i]
      /\ mempool'[Len(mempool) + 1] = tx
  BY <1>1, <1>3, <1>4, AppendProperties
<1>6. ASSUME NEW i \in 1..Len(mempool')
      PROVE  /\ mempool'[i].slot = SlotOf[mempool'[i].from]
             /\ status'[mempool'[i].from] # "idle"
             /\ mempool'[i].kind = "approve"
                  => mempool'[i].amount <= amount'[mempool'[i].from]
  <2>1. CASE i \in 1..Len(mempool)
    <3>1. mempool[i] \in Tx
      BY <1>4, <2>1, ElementOfSeq
    <3>2. mempool[i].from \in Session
      BY <3>1 DEF Tx
    <3>3. /\ mempool[i].slot = SlotOf[mempool[i].from]
          /\ status[mempool[i].from] # "idle"
          /\ mempool[i].kind = "approve" => mempool[i].amount <= amount[mempool[i].from]
      BY <2>1 DEF PendingBounded
    <3> QED
      BY <1>5, <2>1, <3>2, <3>3
  <2>2. CASE i = Len(mempool) + 1
    BY <1>2, <1>5, <2>2
  <2> QED
    BY <1>4, <1>5, <2>1, <2>2
<1> QED
  BY <1>5, <1>6 DEF PendingBounded

(* One transaction fewer.                                                  *)
LEMMA TailKeeps ==
  ASSUME TypeOK, PendingBounded, mempool # <<>>,
         mempool' = Tail(mempool), amount' = amount, status' = status
  PROVE  mempool' \in Seq(Tx) /\ PendingBounded'
<1>1. mempool \in Seq(Tx) /\ Len(mempool) \in Nat
  BY LenProperties DEF TypeOK
<1>2. /\ mempool' \in Seq(Tx) /\ Len(mempool') = Len(mempool) - 1
      /\ \A i \in 1..Len(mempool') : mempool'[i] = mempool[i + 1]
  BY <1>1, HeadTailProperties
<1>3. \A i \in 1..Len(mempool') : i + 1 \in 1..Len(mempool)
  BY <1>1, <1>2
<1> QED
  BY <1>2, <1>3 DEF PendingBounded

(* The transaction that is mined next.                                     *)
LEMMA HeadBounded ==
  ASSUME TypeOK, PendingBounded, mempool # <<>>,
         NEW tx, tx = Head(mempool)
  PROVE  /\ tx \in Tx /\ tx.from \in Session /\ tx.slot \in Slot /\ tx.amount \in Nat
         /\ tx.slot = SlotOf[tx.from] /\ status[tx.from] # "idle"
         /\ tx.kind = "approve" => tx.amount <= amount[tx.from]
<1>1. mempool \in Seq(Tx) /\ Len(mempool) \in Nat
  BY LenProperties DEF TypeOK
<1>2. tx \in Tx /\ tx = mempool[1] /\ 1 \in 1..Len(mempool)
  BY <1>1, EmptySeq, LenProperties, ElementOfSeq
<1> QED
  BY <1>2 DEF PendingBounded, Tx

(* The mempool and the amounts as they were, and nobody back to idle.      *)
LEMMA PendingUnchanged ==
  ASSUME TypeOK, PendingBounded, mempool' = mempool, amount' = amount,
         \A r \in Session : status[r] # "idle" => status'[r] # "idle"
  PROVE  PendingBounded'
<1>1. \A i \in 1..Len(mempool) : mempool[i].from \in Session
  <2>1. \A i \in 1..Len(mempool) : mempool[i] \in Tx
    BY ElementOfSeq DEF TypeOK
  <2> QED
    BY <2>1 DEF Tx
<1> QED
  BY <1>1 DEF PendingBounded

(* A step that leaves the allowance and the figures alone.                 *)
LEMMA NeverUnchanged ==
  ASSUME NeverAboveAsked, UNCHANGED <<allowance, standing, amount>>,
         \A r \in Session : status[r] # "idle" => status'[r] # "idle"
  PROVE  NeverAboveAsked'
BY DEF NeverAboveAsked

(* Plans as they were, and no loop that was not running before.            *)
LEMMA PlannedUnchanged ==
  ASSUME Planned, UNCHANGED planVars, pc' = pc,
         \A r \in Session : InLoop(r)' => InLoop(r)
  PROVE  Planned'
BY DEF Planned, planVars

Statuses == {"idle", "priced", "running", "waiting", "undoing", "done", "failed", "crashed"}

(* A step of one session that moves only its status or its place in the    *)
(* catch block, and starts nothing.                                        *)
LEMMA LoopStep ==
  ASSUME IInv, UNCHANGED <<chainVars, planVars, pc, receipt>>,
         status' \in [Session -> Statuses],
         undo' \in [Session -> [step : Nat \ {0}, at : Nat \ {0}]],
         \A r \in Session : status[r] # "idle" => status'[r] # "idle",
         \A r \in Session : InLoop(r)' => InLoop(r),
         \A r \in Session : status'[r] \in {"idle", "priced"} => status'[r] = status[r]
  PROVE  IInv'
<1>1. TypeOK'
  BY DEF IInv, TypeOK, chainVars, planVars, Statuses
<1>2. Planned'
  BY PlannedUnchanged DEF IInv
<1>3. PendingBounded'
  BY PendingUnchanged DEF IInv, chainVars, planVars
<1>4. NeverAboveAsked'
  BY NeverUnchanged DEF IInv, chainVars, planVars
<1>5. Opening'
  BY DEF IInv, Opening
<1> QED
  BY <1>1, <1>2, <1>3, <1>4, <1>5 DEF IInv
-----------------------------------------------------------------------------
(* The builder's steps.                                                    *)

LEMMA PriceKeeps ==
  ASSUME IInv, NEW s \in Session, Price(s)
  PROVE  IInv'
<1>1. PICK a \in Asked(job[s], owed[s]).amounts : amount' = [amount EXCEPT ![s] = a]
  BY DEF Price
<1>2. a \in Nat
  <2>1. job[s] \in Requests /\ owed[s] \in Nat
    BY ExecutionAssumption DEF IInv, TypeOK
  <2> QED
    BY <2>1, AskedType
<1>3. /\ status[s] = "idle" /\ status' = [status EXCEPT ![s] = "priced"]
      /\ UNCHANGED <<chainVars, pc, receipt, undo, job, plan, found>>
  BY DEF Price
<1>4. \A r \in Session : r # s => amount'[r] = amount[r] /\ status'[r] = status[r]
  BY <1>1, <1>3 DEF IInv, TypeOK
<1>5. TypeOK'
  BY <1>1, <1>2, <1>3 DEF IInv, TypeOK, chainVars
<1>6. Planned'
  <2>1. \A r \in Session : InLoop(r)' => r # s /\ InLoop(r)
    BY <1>3, <1>4 DEF InLoop, IInv, TypeOK
  <2> QED
    BY <1>3, <1>4, <2>1 DEF IInv, Planned
<1>7. PendingBounded'
  <2>1. \A i \in 1..Len(mempool) : mempool[i].from \in Session
    <3>1. \A i \in 1..Len(mempool) : mempool[i] \in Tx
      BY ElementOfSeq DEF IInv, TypeOK
    <3> QED
      BY <3>1 DEF Tx
  <2>2. \A i \in 1..Len(mempool) : mempool[i].from # s
    BY <1>3 DEF IInv, PendingBounded
  <2> QED
    BY <1>3, <1>4, <2>1, <2>2 DEF IInv, PendingBounded, chainVars
<1>8. NeverAboveAsked'
  <2>1. \A r \in Session : status[r] # "idle" => amount'[r] = amount[r] /\ status'[r] # "idle"
    BY <1>3, <1>4
  <2> QED
    BY <1>3, <2>1 DEF IInv, NeverAboveAsked, chainVars
<1>9. Opening'
  BY <1>3 DEF IInv, Opening, TypeOK
<1> QED
  BY <1>5, <1>6, <1>7, <1>8, <1>9 DEF IInv

LEMMA BuildKeeps ==
  ASSUME IInv, NEW s \in Session, Build(s)
  PROVE  IInv'
<1> DEFINE read == allowance[SlotOf[s]]
           list == BuildSequence(SlotOf[s], amount[s], read, Reclaims(job[s]))
<1>1. /\ status[s] = "priced" /\ status' = [status EXCEPT ![s] = "running"]
      /\ found' = [found EXCEPT ![s] = read]
      /\ plan' = [plan EXCEPT ![s] = list]
      /\ UNCHANGED <<chainVars, pc, receipt, undo, job, amount>>
  BY DEF Build
<1>2. SlotOf[s] \in Slot /\ read \in Nat /\ amount[s] \in Nat /\ Reclaims(job[s]) \in BOOLEAN
  <2>1. job[s] \in Requests
    BY ExecutionAssumption DEF IInv, TypeOK
  <2>2. Reclaims(job[s]) \in BOOLEAN
    BY <2>1, AskedType DEF Reclaims
  <2> QED
    BY <2>2, ExecutionAssumption DEF IInv, TypeOK
<1>3. IsPlan(list, SlotOf[s], amount[s], read, Reclaims(job[s]))
  BY <1>2, BuildSequenceIsPlan
<1> HIDE DEF read, list
<1>4. list \in Seq(Step) /\ Len(list) \in Nat \ {0}
  BY <1>3 DEF IsPlan
<1>5. /\ plan'[s] = list /\ found'[s] = read
      /\ \A r \in Session : r # s => /\ plan'[r] = plan[r] /\ found'[r] = found[r]
                                     /\ status'[r] = status[r]
  BY <1>1 DEF IInv, TypeOK
<1>6. TypeOK'
  BY <1>1, <1>2, <1>4 DEF IInv, TypeOK, chainVars
<1>7. Planned'
  <2> SUFFICES ASSUME NEW r \in Session, InLoop(r)'
               PROVE  (/\ IsPlan(plan[r], SlotOf[r], amount[r], found[r], Reclaims(job[r]))
                       /\ pc[r] <= Len(plan[r]))'
    BY DEF Planned
  <2>1. CASE r = s
    BY <1>1, <1>3, <1>4, <1>5, <2>1 DEF IInv, Opening
  <2>2. CASE r # s
    BY <1>1, <1>5, <2>2 DEF IInv, Planned, InLoop
  <2> QED
    BY <2>1, <2>2
<1>8. \A r \in Session : status[r] # "idle" => status'[r] # "idle"
  BY <1>1 DEF IInv, TypeOK
<1>9. PendingBounded'
  BY <1>1, <1>8, PendingUnchanged DEF IInv, chainVars
<1>10. NeverAboveAsked'
  BY <1>1, <1>8, NeverUnchanged DEF IInv, chainVars
<1>11. Opening'
  BY <1>1 DEF IInv, Opening, TypeOK
<1> QED
  BY <1>6, <1>7, <1>9, <1>10, <1>11 DEF IInv
-----------------------------------------------------------------------------
(* The executor's steps.                                                   *)

LEMMA SendKeeps ==
  ASSUME IInv, NEW s \in Session, Send(s)
  PROVE  IInv'
<1>1. /\ status[s] = "running" /\ status' = [status EXCEPT ![s] = "waiting"]
      /\ receipt' = [receipt EXCEPT ![s] = "none"]
      /\ Submit(s, Current(s).kind, Current(s).slot, Current(s).amount, FALSE)
      /\ UNCHANGED <<allowance, owed, call, bounced, standing, pc, undo, planVars>>
  BY DEF Send
<1>2. InLoop(s)
  BY <1>1 DEF InLoop
<1>3. /\ Current(s).kind \in {"approve", "call"} /\ Current(s).slot = SlotOf[s]
      /\ Current(s).amount \in Nat
      /\ Current(s).kind = "approve" => Current(s).amount <= amount[s]
  <2>1. pc[s] \in 1..Len(plan[s])
    BY <1>2, CurrentStep
  <2> QED
    BY <1>2, <2>1, PlanStepBound DEF Current
<1>4. \A r \in Session : status[r] # "idle" => status'[r] # "idle"
  BY <1>1 DEF IInv, TypeOK
<1>5. mempool' \in Seq(Tx) /\ PendingBounded'
  <2> DEFINE kind == Current(s).kind
             n    == Current(s).amount
  <2>1. kind \in {"approve", "call"} /\ n \in Nat /\ (kind = "approve" => n <= amount[s])
    BY <1>3
  <2>2. Submit(s, kind, SlotOf[s], n, FALSE)
    BY <1>1, <1>3
  <2>3. amount' = amount /\ status[s] # "idle" /\ TypeOK /\ PendingBounded
    BY <1>1 DEF planVars, IInv
  <2> HIDE DEF kind, n
  <2> QED
    BY <1>4, <2>1, <2>2, <2>3, SubmitKeeps
<1>6. TypeOK'
  BY <1>1, <1>5 DEF IInv, TypeOK, planVars
<1>7. Planned'
  <2>1. \A r \in Session : InLoop(r)' => InLoop(r)
    BY <1>1 DEF InLoop, IInv, TypeOK
  <2> QED
    BY <1>1, <2>1, PlannedUnchanged DEF IInv
<1>8. NeverAboveAsked'
  BY <1>1, <1>4, NeverUnchanged DEF IInv, planVars
<1>9. Opening'
  BY <1>1 DEF IInv, Opening, TypeOK
<1> QED
  BY <1>5, <1>6, <1>7, <1>8, <1>9 DEF IInv

LEMMA ConfirmKeeps ==
  ASSUME IInv, NEW s \in Session, Confirm(s)
  PROVE  IInv'
<1>1. /\ status[s] = "waiting"
      /\ \/ status' = [status EXCEPT ![s] = "done"] /\ pc' = pc
         \/ /\ pc[s] # Len(plan[s])
            /\ status' = [status EXCEPT ![s] = "running"]
            /\ pc' = [pc EXCEPT ![s] = @ + 1]
      /\ UNCHANGED <<chainVars, receipt, undo, planVars>>
  BY DEF Confirm
<1>2. pc[s] \in 1..Len(plan[s]) /\ Len(plan[s]) \in Nat
  BY <1>1, CurrentStep DEF InLoop
<1>3. \A r \in Session : status[r] # "idle" => status'[r] # "idle"
  BY <1>1 DEF IInv, TypeOK
<1>4. TypeOK'
  <2>1. pc \in [Session -> Nat \ {0}] /\ status \in [Session -> Statuses]
    BY DEF IInv, TypeOK, Statuses
  <2>2. status' \in [Session -> Statuses]
    BY <1>1, <2>1 DEF Statuses
  <2>3. pc' \in [Session -> Nat \ {0}]
    BY <1>1, <2>1
  <2> QED
    BY <1>1, <2>2, <2>3 DEF IInv, TypeOK, Statuses, chainVars, planVars
<1>5. Planned'
  <2> SUFFICES ASSUME NEW r \in Session, InLoop(r)'
               PROVE  (/\ IsPlan(plan[r], SlotOf[r], amount[r], found[r], Reclaims(job[r]))
                       /\ pc[r] <= Len(plan[r]))'
    BY DEF Planned
  <2>1. InLoop(r) /\ pc'[r] <= Len(plan[r])
    <3>1. CASE r # s
      BY <1>1, <3>1 DEF IInv, TypeOK, Planned, InLoop
    <3>2. CASE r = s
      BY <1>1, <1>2, <3>2 DEF IInv, TypeOK, InLoop
    <3> QED
      BY <3>1, <3>2
  <2> QED
    BY <1>1, <2>1 DEF IInv, Planned, planVars
<1>6. PendingBounded'
  BY <1>1, <1>3, PendingUnchanged DEF IInv, chainVars, planVars
<1>7. NeverAboveAsked'
  BY <1>1, <1>3, NeverUnchanged DEF IInv, chainVars, planVars
<1>8. Opening'
  BY <1>1 DEF IInv, Opening, TypeOK
<1> QED
  BY <1>4, <1>5, <1>6, <1>7, <1>8 DEF IInv

(* SendThrows, RevertedThrows, WaitTimesOut, Rethrow, Crash and NextUndone *)
(* move nothing but the session's own place.                               *)
LEMMA StatusKeeps ==
  ASSUME IInv, NEW s \in Session, NEW to \in {"undoing", "failed", "crashed"},
         status[s] # "idle", to = "undoing" => InLoop(s),
         status' = [status EXCEPT ![s] = to],
         UNCHANGED <<chainVars, pc, receipt, undo, planVars>>
  PROVE  IInv'
<1>1. /\ status' \in [Session -> Statuses]
      /\ undo' \in [Session -> [step : Nat \ {0}, at : Nat \ {0}]]
  BY DEF IInv, TypeOK, Statuses
<1>2. \A r \in Session : status[r] # "idle" => status'[r] # "idle"
  BY DEF IInv, TypeOK
<1>3. \A r \in Session : InLoop(r)' => InLoop(r)
  BY DEF InLoop, IInv, TypeOK
<1>4. \A r \in Session : status'[r] \in {"idle", "priced"} => status'[r] = status[r]
  BY DEF IInv, TypeOK
<1> QED
  BY <1>1, <1>2, <1>3, <1>4, LoopStep

LEMMA CatchKeeps ==
  ASSUME IInv, NEW s \in Session,
         SendThrows(s) \/ RevertedThrows(s) \/ WaitTimesOut(s)
  PROVE  IInv'
<1>1. status[s] \in {"running", "waiting"} /\ Catch(s)
  BY DEF SendThrows, RevertedThrows, WaitTimesOut
<1> DEFINE to == IF UndoesOnError THEN "undoing" ELSE "failed"
<1>2. /\ to \in {"undoing", "failed", "crashed"} /\ InLoop(s) /\ status[s] # "idle"
      /\ status' = [status EXCEPT ![s] = to]
      /\ UNCHANGED <<chainVars, pc, receipt, undo, planVars>>
  BY <1>1 DEF Catch, InLoop
<1> HIDE DEF to
<1> QED
  BY <1>2, StatusKeeps

LEMMA NextUndoneKeeps ==
  ASSUME IInv, NEW s \in Session, NextUndone(s)
  PROVE  IInv'
<1>1. /\ undo' = [undo EXCEPT ![s] = [step |-> @.step + 1, at |-> 1]]
      /\ UNCHANGED <<chainVars, status, pc, receipt, planVars>>
  BY DEF NextUndone
<1>2. /\ status' \in [Session -> Statuses]
      /\ undo' \in [Session -> [step : Nat \ {0}, at : Nat \ {0}]]
  BY <1>1 DEF IInv, TypeOK, Statuses
<1>3. \A r \in Session : InLoop(r)' => InLoop(r)
  BY <1>1 DEF InLoop
<1> QED
  BY <1>1, <1>2, <1>3, LoopStep

(* A reversal is one of a step the loop has passed.                        *)
LEMMA SendUndoKeeps ==
  ASSUME IInv, NEW s \in Session, SendUndo(s)
  PROVE  IInv'
<1> DEFINE u == undo[s].step
           k == undo[s].at
           n == plan[s][u].reversal[k]
<1>1. /\ status[s] = "undoing" /\ HasReversal(s)
      /\ Submit(s, "approve", Undone(s).slot, Undone(s).reversal[undo[s].at], TRUE)
      /\ undo' = [undo EXCEPT ![s].at = @ + 1]
      /\ UNCHANGED <<allowance, owed, call, bounced, standing, status, pc, receipt, planVars>>
  BY DEF SendUndo
<1>2. InLoop(s)
  BY <1>1 DEF InLoop
<1>3. u \in Nat \ {0} /\ k \in Nat \ {0}
  BY DEF IInv, TypeOK
<1>4. u \in 1..Len(plan[s]) /\ k \in 1..Len(plan[s][u].reversal)
  <2>1. /\ pc[s] \in 1..Len(plan[s]) /\ Len(plan[s]) \in Nat
        /\ plan[s][pc[s]].index = pc[s] - 1
    BY <1>2, CurrentStep
  <2>2. u <= pc[s] - 1 /\ k <= Len(plan[s][u].reversal)
    BY <1>1, <2>1 DEF HasReversal, InSlice, Current, Undone
  <2>3. u \in 1..Len(plan[s])
    BY <1>3, <2>1, <2>2
  <2>4. Len(plan[s][u].reversal) \in Nat
    <3>1. plan[s][u] \in Step
      BY <1>2, <2>3, CurrentStep
    <3>2. plan[s][u].reversal \in Seq(Nat)
      BY <3>1 DEF Step
    <3> QED
      BY <3>2, LenProperties
  <2> QED
    BY <1>3, <2>2, <2>3, <2>4
<1>5. n \in Nat /\ n <= amount[s] /\ Undone(s).slot = SlotOf[s]
  BY <1>2, <1>4, PlanStepBound DEF Undone
<1>6. Submit(s, "approve", SlotOf[s], n, TRUE)
  BY <1>1, <1>5 DEF Undone
<1> HIDE DEF n
<1>7. \A r \in Session : status[r] # "idle" => status'[r] # "idle"
  BY <1>1
<1>8. mempool' \in Seq(Tx) /\ PendingBounded'
  <2>1. amount' = amount /\ status[s] # "idle" /\ TypeOK /\ PendingBounded
    BY <1>1 DEF planVars, IInv
  <2> QED
    BY <1>5, <1>6, <1>7, <2>1, SubmitKeeps
<1>9. TypeOK'
  <2>1. undo' \in [Session -> [step : Nat \ {0}, at : Nat \ {0}]]
    <3> DEFINE Pos == [step : Nat \ {0}, at : Nat \ {0}]
               next == [undo[s] EXCEPT !.at = @ + 1]
    <3>1. undo \in [Session -> Pos]
      BY DEF IInv, TypeOK
    <3>2. next \in Pos
      <4>1. undo[s] \in Pos
        BY <3>1
      <4> QED
        BY <4>1
    <3>3. undo' = [undo EXCEPT ![s] = next]
      BY <1>1
    <3> HIDE DEF Pos, next
    <3>4. undo' \in [Session -> Pos]
      BY <3>1, <3>2, <3>3
    <3> QED
      BY <3>4 DEF Pos
  <2> QED
    BY <1>1, <1>8, <2>1 DEF IInv, TypeOK, planVars
<1>10. Planned'
  BY <1>1, PlannedUnchanged DEF IInv, InLoop
<1>11. NeverAboveAsked'
  BY <1>1, <1>7, NeverUnchanged DEF IInv, planVars
<1>12. Opening'
  BY <1>1 DEF IInv, Opening
<1> QED
  BY <1>8, <1>9, <1>10, <1>11, <1>12 DEF IInv
-----------------------------------------------------------------------------
(* The chain's steps.                                                      *)

(* What a mined transaction leaves alone, and what it does to the mempool. *)
LEMMA MinedKeeps ==
  ASSUME IInv, mempool # <<>>, mempool' = Tail(mempool),
         UNCHANGED <<owed, status, pc, undo, planVars>>,
         receipt' \in [Session -> {"none", "success", "reverted"}],
         allowance' \in [Slot -> Nat], standing' \in [Slot -> Nat],
         call' \in [Session -> {"none", "settled", "starved", "refused"}],
         bounced' \subseteq Session,
         NeverAboveAsked'
  PROVE  IInv'
<1>1. mempool' \in Seq(Tx) /\ PendingBounded'
  BY TailKeeps DEF IInv, planVars
<1>2. TypeOK'
  BY <1>1 DEF IInv, TypeOK, planVars
<1>3. Planned'
  BY PlannedUnchanged DEF IInv, InLoop
<1>4. Opening'
  BY DEF IInv, Opening
<1> QED
  BY <1>1, <1>2, <1>3, <1>4 DEF IInv

LEMMA ReportType ==
  ASSUME TypeOK, NEW tx, tx.from \in Session,
         NEW outcome \in {"success", "reverted"}, Report(tx, outcome)
  PROVE  /\ mempool' = Tail(mempool)
         /\ receipt' \in [Session -> {"none", "success", "reverted"}]
BY DEF Report, TypeOK

LEMMA MineApproveKeeps ==
  ASSUME IInv, MineApprove
  PROVE  IInv'
<1>1. PICK tx : tx = Head(mempool)
  OBVIOUS
<1>2. /\ mempool # <<>> /\ tx.kind = "approve"
      /\ allowance' = [allowance EXCEPT ![tx.slot] = tx.amount]
      /\ Report(tx, "success")
      /\ UNCHANGED <<owed, call, bounced, standing, status, pc, undo, planVars>>
  BY <1>1 DEF MineApprove
<1>3. /\ tx.from \in Session /\ tx.slot \in Slot /\ tx.amount \in Nat
      /\ tx.slot = SlotOf[tx.from] /\ status[tx.from] # "idle"
      /\ tx.amount <= amount[tx.from]
  BY <1>1, <1>2, HeadBounded DEF IInv
<1>4. allowance' \in [Slot -> Nat]
  BY <1>2, <1>3 DEF IInv, TypeOK
<1>5. NeverAboveAsked'
  <2> SUFFICES ASSUME NEW slot \in Slot
               PROVE  (\/ allowance[slot] <= standing[slot]
                       \/ \E s \in Session : /\ SlotOf[s] = slot /\ status[s] # "idle"
                                             /\ allowance[slot] <= amount[s])'
    BY DEF NeverAboveAsked
  <2>1. CASE slot = tx.slot
    <3>1. allowance'[slot] = tx.amount
      BY <1>2, <2>1 DEF IInv, TypeOK
    <3> QED
      BY <1>2, <1>3, <2>1, <3>1 DEF planVars
  <2>2. CASE slot # tx.slot
    <3>1. allowance'[slot] = allowance[slot]
      BY <1>2, <2>2 DEF IInv, TypeOK
    <3> QED
      BY <1>2, <3>1 DEF IInv, NeverAboveAsked, planVars
  <2> QED
    BY <2>1, <2>2
<1> QED
  BY <1>2, <1>3, <1>4, <1>5, MinedKeeps, ReportType DEF IInv, TypeOK

LEMMA MineBouncedApproveKeeps ==
  ASSUME IInv, MineBouncedApprove
  PROVE  IInv'
<1>1. PICK tx : tx = Head(mempool)
  OBVIOUS
<1>2. /\ mempool # <<>> /\ bounced' = bounced \cup {tx.from}
      /\ Report(tx, "reverted")
      /\ UNCHANGED <<allowance, owed, call, standing, status, pc, undo, planVars>>
  BY <1>1 DEF MineBouncedApprove
<1>3. tx.from \in Session
  BY <1>1, <1>2, HeadBounded DEF IInv
<1>4. NeverAboveAsked'
  BY <1>2, NeverUnchanged DEF IInv, planVars
<1> QED
  BY <1>2, <1>3, <1>4, MinedKeeps, ReportType DEF IInv, TypeOK

(* A call takes from the allowance, and from what the owner granted only   *)
(* what it takes from the allowance too.                                   *)
LEMMA MineCallKeeps ==
  ASSUME IInv, MineCall
  PROVE  IInv'
<1>1. PICK tx : tx = Head(mempool)
  OBVIOUS
<1> DEFINE s == tx.from
           n == Pull(s)
<1>2. /\ mempool # <<>> /\ n <= allowance[tx.slot]
      /\ allowance' = [allowance EXCEPT ![tx.slot] = @ - n]
      /\ call' = [call EXCEPT ![s] = "settled"]
      /\ standing' = IF Raised(s) THEN standing
                     ELSE [standing EXCEPT ![tx.slot] = IF n < @ THEN @ - n ELSE 0]
      /\ Report(tx, "success")
      /\ UNCHANGED <<owed, bounced, status, pc, undo, planVars>>
  BY <1>1 DEF MineCall
<1>3. s \in Session /\ tx.slot \in Slot
  BY <1>1, <1>2, HeadBounded DEF IInv
<1>4. n \in Nat
  BY <1>3 DEF IInv, TypeOK, Pull
<1> HIDE DEF n
<1>5. allowance \in [Slot -> Nat] /\ standing \in [Slot -> Nat]
  BY DEF IInv, TypeOK
<1>6. allowance' \in [Slot -> Nat]
  BY <1>2, <1>3, <1>4, <1>5
<1>7. standing' \in [Slot -> Nat]
  <2>1. CASE Raised(s)
    BY <1>2, <1>5, <2>1
  <2>2. CASE ~Raised(s)
    BY <1>2, <1>3, <1>4, <1>5, <2>2
  <2> QED
    BY <2>1, <2>2
<1>8. NeverAboveAsked'
  <2> SUFFICES ASSUME NEW slot \in Slot
               PROVE  (\/ allowance[slot] <= standing[slot]
                       \/ \E r \in Session : /\ SlotOf[r] = slot /\ status[r] # "idle"
                                             /\ allowance[slot] <= amount[r])'
    BY DEF NeverAboveAsked
  <2>1. /\ allowance'[slot] = IF slot = tx.slot THEN allowance[slot] - n ELSE allowance[slot]
        /\ allowance[slot] \in Nat /\ standing[slot] \in Nat
    BY <1>2, <1>3, <1>5
  <2>2. CASE allowance[slot] <= standing[slot]
    <3>1. CASE Raised(s)
      BY <1>2, <1>4, <2>1, <2>2, <3>1
    <3>2. CASE ~Raised(s)
      <4>1. standing'[slot] = IF slot = tx.slot
                              THEN (IF n < standing[slot] THEN standing[slot] - n ELSE 0)
                              ELSE standing[slot]
        BY <1>2, <1>3, <1>5, <3>2
      <4>2. slot = tx.slot => n <= allowance[slot]
        BY <1>2
      <4> QED
        BY <1>4, <2>1, <2>2, <4>1, <4>2
    <3> QED
      BY <3>1, <3>2
  <2>3. CASE ~(allowance[slot] <= standing[slot])
    <3>1. PICK r \in Session : /\ SlotOf[r] = slot /\ status[r] # "idle"
                               /\ allowance[slot] <= amount[r]
      BY <2>3 DEF IInv, NeverAboveAsked
    <3>2. amount'[r] = amount[r] /\ amount[r] \in Nat /\ status'[r] # "idle"
      BY <1>2, <3>1 DEF IInv, TypeOK, planVars
    <3>3. allowance'[slot] <= amount[r]
      BY <1>4, <2>1, <3>1, <3>2
    <3> QED
      BY <3>1, <3>2, <3>3
  <2> QED
    BY <2>2, <2>3
<1>9. call' \in [Session -> {"none", "settled", "starved", "refused"}]
  BY <1>2, <1>3 DEF IInv, TypeOK
<1> QED
  BY <1>2, <1>3, <1>6, <1>7, <1>8, <1>9, MinedKeeps, ReportType DEF IInv, TypeOK

LEMMA MineRevertedCallKeeps ==
  ASSUME IInv, MineRevertedCall
  PROVE  IInv'
<1>1. PICK tx : tx = Head(mempool)
  OBVIOUS
<1>2. /\ mempool # <<>>
      /\ \/ call' = [call EXCEPT ![tx.from] = "starved"]
         \/ call' = [call EXCEPT ![tx.from] = "refused"]
      /\ Report(tx, "reverted")
      /\ UNCHANGED <<allowance, owed, bounced, standing, status, pc, undo, planVars>>
  BY <1>1 DEF MineRevertedCall
<1>3. tx.from \in Session
  BY <1>1, <1>2, HeadBounded DEF IInv
<1>4. NeverAboveAsked'
  BY <1>2, NeverUnchanged DEF IInv, planVars
<1>5. call' \in [Session -> {"none", "settled", "starved", "refused"}]
  BY <1>2, <1>3 DEF IInv, TypeOK
<1> QED
  BY <1>2, <1>3, <1>4, <1>5, MinedKeeps, ReportType DEF IInv, TypeOK

LEMMA AccrueKeeps ==
  ASSUME IInv, NEW s \in Session, Accrue(s)
  PROVE  IInv'
<1>1. /\ owed' = [owed EXCEPT ![s] = @ + 1]
      /\ UNCHANGED <<allowance, mempool, call, bounced, standing, loopVars, planVars>>
  BY DEF Accrue
<1>2. owed' \in [Session -> Nat]
  BY <1>1 DEF IInv, TypeOK
<1>3. TypeOK'
  BY <1>1, <1>2 DEF IInv, TypeOK, loopVars, planVars
<1>4. Planned'
  BY <1>1, PlannedUnchanged DEF IInv, InLoop, loopVars
<1>5. PendingBounded'
  BY <1>1, PendingUnchanged DEF IInv, loopVars, planVars
<1>6. NeverAboveAsked'
  BY <1>1, NeverUnchanged DEF IInv, loopVars, planVars
<1>7. Opening'
  BY <1>1 DEF IInv, Opening, loopVars
<1> QED
  BY <1>3, <1>4, <1>5, <1>6, <1>7 DEF IInv

LEMMA StutterKeeps ==
  ASSUME IInv, UNCHANGED vars
  PROVE  IInv'
<1>1. TypeOK'
  BY DEF IInv, TypeOK, vars, chainVars, loopVars, planVars
<1>2. Planned'
  BY PlannedUnchanged DEF IInv, InLoop, vars, loopVars
<1>3. PendingBounded'
  BY PendingUnchanged DEF IInv, vars, chainVars, loopVars, planVars
<1>4. NeverAboveAsked'
  BY NeverUnchanged DEF IInv, vars, chainVars, loopVars, planVars
<1>5. Opening'
  BY DEF IInv, Opening, vars, loopVars
<1> QED
  BY <1>1, <1>2, <1>3, <1>4, <1>5 DEF IInv
-----------------------------------------------------------------------------
(* The theorems.                                                           *)

LEMMA NextIInv == IInv /\ [Next]_vars => IInv'
<1> SUFFICES ASSUME IInv, [Next]_vars
             PROVE  IInv'
  OBVIOUS
<1>1. ASSUME NEW s \in Session, Price(s)
      PROVE  IInv'
  BY <1>1, PriceKeeps
<1>2. ASSUME NEW s \in Session, Build(s)
      PROVE  IInv'
  BY <1>2, BuildKeeps
<1>3. ASSUME NEW s \in Session, Execute(s)
      PROVE  IInv'
  <2>1. CASE Send(s)
    BY <2>1, SendKeeps
  <2>2. CASE Confirm(s)
    BY <2>2, ConfirmKeeps
  <2>3. CASE RevertedThrows(s)
    BY <2>3, CatchKeeps
  <2>4. CASE SendUndo(s)
    BY <2>4, SendUndoKeeps
  <2>5. CASE NextUndone(s)
    BY <2>5, NextUndoneKeeps
  <2>6. CASE Rethrow(s)
    <3>1. /\ status[s] = "undoing" /\ status' = [status EXCEPT ![s] = "failed"]
          /\ UNCHANGED <<chainVars, pc, receipt, undo, planVars>>
      BY <2>6 DEF Rethrow
    <3> QED
      BY <3>1, StatusKeeps
  <2> QED
    BY <1>3, <2>1, <2>2, <2>3, <2>4, <2>5, <2>6 DEF Execute
<1>4. ASSUME NEW s \in Session, Fail(s)
      PROVE  IInv'
  <2>1. CASE SendThrows(s) \/ WaitTimesOut(s)
    BY <2>1, CatchKeeps
  <2>2. CASE Crash(s)
    <3>1. /\ status[s] # "idle" /\ status' = [status EXCEPT ![s] = "crashed"]
          /\ UNCHANGED <<chainVars, pc, receipt, undo, planVars>>
      BY <2>2 DEF Crash
    <3> QED
      BY <3>1, StatusKeeps
  <2> QED
    BY <1>4, <2>1, <2>2 DEF Fail
<1>5. ASSUME NEW s \in Session, Accrue(s)
      PROVE  IInv'
  BY <1>5, AccrueKeeps
<1>6. CASE Mine
  BY <1>6, MineApproveKeeps, MineBouncedApproveKeeps, MineCallKeeps,
     MineRevertedCallKeeps DEF Mine
<1>7. CASE Finished \/ UNCHANGED vars
  BY <1>7, StutterKeeps DEF Finished
<1> QED
  BY <1>1, <1>2, <1>3, <1>4, <1>5, <1>6, <1>7 DEF Next

(* Every plan, every pending transaction and every reversal still to be    *)
(* sent stays within what its session asked for: the inductive invariant.  *)
THEOREM Invariance == Spec => []IInv
BY InitIInv, NextIInv, PTL DEF Spec

(* The state of every wallet, builder, loop and chain stays well-formed:   *)
(* in particular every transaction a loop sends is one of its plan.        *)
THEOREM TypeCorrect == Spec => []TypeOK
<1>1. IInv => TypeOK
  BY DEF IInv
<1> QED
  BY <1>1, Invariance, PTL

(* Whatever overlaps, fails or is lost, a spender can take no more than    *)
(* the owner's own allowance or than some sequence of the owner asked for. *)
THEOREM SpenderBounded == Spec => []NeverAboveAsked
<1>1. IInv => NeverAboveAsked
  BY DEF IInv
<1> QED
  BY <1>1, Invariance, PTL
=============================================================================
