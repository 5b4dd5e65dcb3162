----------------------------- MODULE Approvals -----------------------------
(***************************************************************************)
(* The approval steps of the builders (builders/approve.ts) and the step   *)
(* list they are spliced into (utils.ts, types.ts).                        *)
(*                                                                         *)
(* A slot is one allowance the wallet can hold: a (token, spender) pair.   *)
(* A step keeps what the rest of a sequence depends on: its kind, its slot *)
(* and amount, the allowance its builder read, the amounts of the approve  *)
(* calls that undo it (meta.reversalSteps), and its position.  Calldata,   *)
(* ABI and wording are left out.                                           *)
(***************************************************************************)
EXTENDS Integers, Sequences

CONSTANTS
  Slot,      \* the (token, spender) pairs of one owner
  UsdtLike   \* those whose token refuses a change from non-zero to non-zero

ASSUME UsdtAssumption == UsdtLike \subseteq Slot

(* A step whose builder recorded no allowance has no observedState.        *)
NotRead == -1

(* index is 0 on a draft (utils.ts: DraftStep omits it) and is stamped by  *)
(* FinalizeSteps.                                                          *)
Step == [kind     : {"approve", "call"},
         slot     : Slot,
         amount   : Nat,
         observed : Nat \cup {NotRead},
         reversal : Seq(Nat),
         index    : Nat]

(* An approve call that carries no undo of its own.                        *)
ApproveStep(slot, amount) ==
  [kind |-> "approve", slot |-> slot, amount |-> amount,
   observed |-> NotRead, reversal |-> <<>>, index |-> 0]

(* The protocol call a sequence is built around; it spends from slot.      *)
CallStep(slot) ==
  [kind |-> "call", slot |-> slot, amount |-> 0,
   observed |-> NotRead, reversal |-> <<>>, index |-> 0]

(* Positions are assigned once per builder; stamping a stamped list again  *)
(* gives the same list.                                                    *)
FinalizeSteps(steps) ==
  [i \in 1..Len(steps) |-> [steps[i] EXCEPT !.index = i - 1]]

(* What a list of steps asks of the chain, in order.                       *)
Amounts(steps) == [i \in 1..Len(steps) |-> steps[i].amount]

(* Variants of the definition below: one zeroes instead of restoring, one  *)
(* forgets the reset on the way down.                                      *)
ZeroesAllowance(slot, restoreTo) == <<ApproveStep(slot, 0)>>
ClearsWithoutReset(slot, restoreTo) == <<ApproveStep(slot, restoreTo)>>

(* Put the allowance at restoreTo.  On a USDT-like token the way down goes *)
(* through zero exactly as the way up does.                                *)
ClearAllowanceSteps(slot, restoreTo) ==
  IF restoreTo > 0 /\ slot \in UsdtLike
  THEN <<ApproveStep(slot, 0), ApproveStep(slot, restoreTo)>>
  ELSE <<ApproveStep(slot, restoreTo)>>

(* Variant: the record is the difference to the amount.                    *)
RecordsDifference(slot, amount, allowance) ==
  [kind |-> "approve", slot |-> slot, amount |-> amount,
   observed |-> allowance - amount,
   reversal |-> Amounts(ClearAllowanceSteps(slot, allowance)), index |-> 0]

(* An approve step that records what was read and how to go back there.    *)
RaisingStep(slot, amount, allowance) ==
  [kind |-> "approve", slot |-> slot, amount |-> amount,
   observed |-> allowance,
   reversal |-> Amounts(ClearAllowanceSteps(slot, allowance)), index |-> 0]

(* Variants: any allowance at all passes for a sufficient one; the raise   *)
(* comes on top of what is there.                                          *)
ApprovesFromZeroOnly(slot, amount, allowance) ==
  IF amount <= 0 \/ allowance > 0
  THEN <<>>
  ELSE FinalizeSteps(<<RaisingStep(slot, amount, allowance)>>)

RaisesOnTop(slot, amount, allowance) ==
  IF amount <= 0 \/ allowance >= amount
  THEN <<>>
  ELSE LET raise == RaisingStep(slot, amount + allowance, allowance)
       IN FinalizeSteps(IF slot \in UsdtLike /\ allowance > 0
                        THEN <<RaisingStep(slot, 0, allowance), raise>>
                        ELSE <<raise>>)

(* The raise: nothing when the amount is zero or already covered, and a    *)
(* reset first when the token needs one.                                   *)
ApproveSteps(slot, amount, allowance) ==
  IF amount <= 0 \/ allowance >= amount
  THEN <<>>
  ELSE LET raise == RaisingStep(slot, amount, allowance)
       IN FinalizeSteps(IF slot \in UsdtLike /\ allowance > 0
                        THEN <<RaisingStep(slot, 0, allowance), raise>>
                        ELSE <<raise>>)

(* Variant: the clear step is not paired with what was read.               *)
ForgetsPrior(steps) == 0

(* The allowance the raise started from.  Only an approve step's record is *)
(* an allowance.                                                           *)
PriorAllowanceOf(steps) ==
  IF steps # <<>> /\ steps[1].kind = "approve" /\ steps[1].observed # NotRead
  THEN steps[1].observed
  ELSE 0

(* The shape every ERC-20-pulling builder shares: raise, call, and, where  *)
(* the builder reclaims and this sequence did raise, put back.             *)
BuildSequence(slot, amount, allowance, reclaims) ==
  LET approvals == ApproveSteps(slot, amount, allowance)
      clear     == IF reclaims /\ approvals # <<>>
                   THEN ClearAllowanceSteps(slot, PriorAllowanceOf(approvals))
                   ELSE <<>>
  IN FinalizeSteps(approvals \o <<CallStep(slot)>> \o clear)
=============================================================================
