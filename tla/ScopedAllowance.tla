-------------------------- MODULE ScopedAllowance --------------------------
(***************************************************************************)
(* What README.md promises of allowances ("Approvals" and "The execution   *)
(* contract"), with no builder, step or transaction in sight: a sequence   *)
(* borrows an allowance.  While it holds the slot it may move the          *)
(* allowance, and may spend what the owner granted; nobody else touches    *)
(* that slot; and it lets go only with the allowance back at the owner's   *)
(* own figure.                                                             *)
(***************************************************************************)
EXTENDS Integers

CONSTANTS
  Slot,       \* allowances
  Session,    \* sequences
  SlotOf,     \* the allowance each sequence borrows
  NoSession   \* stands for nobody; not a member of Session

VARIABLES
  level,     \* each slot's allowance
  granted,   \* what the owner granted for keeps
  holder     \* the sequence that holds the slot

scopeVars == <<level, granted, holder>>

ScopeInit ==
  /\ level \in [Slot -> Nat]
  /\ granted = level
  /\ holder = [k \in Slot |-> NoSession]

Take(s) ==
  /\ holder[SlotOf[s]] = NoSession
  /\ holder' = [holder EXCEPT ![SlotOf[s]] = s]
  /\ UNCHANGED <<level, granted>>

(* The holder moves the allowance of its own slot.                         *)
Move(s) ==
  LET k == SlotOf[s] IN
  /\ holder[k] = s
  /\ level'[k] \in Nat
  /\ level' = [level EXCEPT ![k] = level'[k]]
  /\ UNCHANGED <<granted, holder>>

(* The holder's call spends the owner's own allowance.                     *)
SpendGrant(s) ==
  LET k == SlotOf[s]
      n == level[k] - level'[k]
  IN
  /\ holder[k] = s
  /\ level[k] = granted[k]
  /\ n \in Nat
  /\ level' = [level EXCEPT ![k] = @ - n]
  /\ granted' = [granted EXCEPT ![k] = @ - n]
  /\ UNCHANGED holder

(* Letting go is putting back.                                             *)
Release(s) ==
  LET k == SlotOf[s] IN
  /\ holder[k] = s
  /\ level' = [level EXCEPT ![k] = granted[k]]
  /\ holder' = [holder EXCEPT ![k] = NoSession]
  /\ UNCHANGED granted

ScopeNext ==
  \E s \in Session : Take(s) \/ Move(s) \/ SpendGrant(s) \/ Release(s)

ScopeSpec == ScopeInit /\ [][ScopeNext]_scopeVars

(* No sequence keeps a slot for ever.                                      *)
EventuallyReleased ==
  \A k \in Slot : holder[k] # NoSession ~> holder[k] = NoSession
=============================================================================
