--------------------------- MODULE ExecutionScope ---------------------------
(* Executed sequences borrow their allowances as ScopedAllowance says: the *)
(* holder of a slot is the session that is active on it.                   *)
EXTENDS Execution

CONSTANT NoSession

ASSUME NoSessionAssumption == NoSession \notin Session

Holder == [k \in Slot |->
             IF AtRest(k) THEN NoSession
             ELSE CHOOSE s \in Session : SlotOf[s] = k /\ Active(s)]

Scope == INSTANCE ScopedAllowance WITH
           level <- allowance, granted <- standing, holder <- Holder

(* Every step of the builders, the executor and the chain is a step of the *)
(* promise README.md makes about approvals, or leaves it alone.            *)
KeepsThePromise == Scope!ScopeSpec

(* A slot taken by a sequence is free again some time later.               *)
SlotsAreFreed == Scope!EventuallyReleased
=============================================================================
