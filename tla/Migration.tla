----------------------------- MODULE Migration -----------------------------
(***************************************************************************)
(* Moving a variable-rate position into a fixed-term market                *)
(* (builders/authorization.ts buildMigrateToFixedTermSteps), beside        *)
(* everything else that happens to the account's grants.                   *)
(*                                                                         *)
(* The builder's reads are answered in any order; the price of a           *)
(* share-denominated debt comes last.  The loop over its steps is the one  *)
(* of README.md, which takes any receipt for a success, or one that throws *)
(* on a reverted receipt.  A send may be refused by the wallet, the undo   *)
(* as well; a wait may give up, and the transaction it gave up on lands    *)
(* later.  The account's transactions are mined in the order sent.         *)
(***************************************************************************)
EXTENDS Authorization, Sequences

CONSTANTS
  PositionManager,   \* the contract that migrates
  InitTarget,        \* fixed-term markets to start from
  InitDue,           \* what the migration may have to borrow
  MaxDue,            \* bound on what accrual makes of it
  ChecksReceipt      \* whether loops throw on a reverted receipt: README.md's
                     \* does not

ASSUME MigrationAssumption ==
  /\ PositionManager \in Authorizable \ {Zero}
  /\ InitTarget \subseteq [created : BOOLEAN, broker : BOOLEAN,
                           supply : Nat, borrow : Nat]
  /\ InitDue \subseteq Nat /\ MaxDue \in Nat
  /\ ChecksReceipt \subseteq BOOLEAN

VARIABLES
  target,   \* on chain: the fixed-term market
  due,      \* on chain: what the migration borrows there if mined now
  mig       \* the builder and then the loop

migVars == <<target, due, mig>>
vars    == <<authVars, migVars>>

(* tx is the transaction of the step in hand, undo that of the reversal;   *)
(* ours, that the grant in force is the one this loop's transaction made.  *)
Idle == [status |-> "idle", mode |-> "amount", checks |-> FALSE, reads |-> {},
         sawGrant |-> FALSE, sawTarget |-> target, size |-> 0,
         plan |-> <<>>, pc |-> 1, tx |-> "none", undo |-> "none",
         ours |-> FALSE, fate |-> "none"]

TypeOK ==
  /\ AuthTypeOK
  /\ target \in [created : BOOLEAN, broker : BOOLEAN, supply : Nat, borrow : Nat]
  /\ due \in Nat
  /\ mig.status \in {"idle", "reading", "refused", "running", "waiting",
                     "undoing", "done", "failed"}
  /\ mig.plan \in Seq([step : {"setAuthorization", "migrateToFixedTerm"},
                       reversal : BOOLEAN])
  /\ mig.reads \subseteq {"grant", "target"}
  /\ mig.size \in Nat /\ mig.pc \in Nat
  /\ mig.status \in {"running", "waiting"} => mig.pc \in 1..Len(mig.plan)
  /\ mig.tx \in {"none", "out", "mined", "reverted"}
  /\ mig.undo \in {"none", "out", "mined", "refused"}
  /\ mig.fate \in {"none", "settled", "unauthorized", "illiquid", "refused"}

Init ==
  /\ AuthInit
  /\ target \in InitTarget
  /\ due \in InitDue
  /\ \E mode \in {"amount", "shares"}, checks \in ChecksReceipt :
       mig = [Idle EXCEPT !.mode = mode, !.checks = checks]
-----------------------------------------------------------------------------
(* The builder.                                                            *)

Begin ==
  /\ mig.status = "idle"
  /\ mig' = [mig EXCEPT !.status = "reading"]
  /\ UNCHANGED <<authVars, target, due>>

ReadGrant ==
  /\ mig.status = "reading"
  /\ "grant" \notin mig.reads
  /\ mig' = [mig EXCEPT !.reads = @ \cup {"grant"},
                        !.sawGrant = PositionManager \in granted]
  /\ UNCHANGED <<authVars, target, due>>

ReadTarget ==
  /\ mig.status = "reading"
  /\ "target" \notin mig.reads
  /\ mig' = [mig EXCEPT !.reads = @ \cup {"target"}, !.sawTarget = target]
  /\ UNCHANGED <<authVars, target, due>>

(* Variant: what has been lent out counts as available.                    *)
WholeSupply(t) == t.supply

Available(t) == t.supply - t.borrow

(* A price as of the last accrual: at most what is due.                    *)
Sizes == IF mig.mode = "shares" THEN {n \in (due - 1)..due : n >= 0} ELSE {due}

(* Variant: a grant that carries no undo.                                  *)
GrantsForGood(sawGrant) ==
  (IF sawGrant THEN <<>>
   ELSE <<[step |-> "setAuthorization", reversal |-> FALSE]>>)
  \o <<[step |-> "migrateToFixedTerm", reversal |-> FALSE]>>

MigrationSteps(sawGrant) ==
  (IF sawGrant THEN <<>>
   ELSE <<[step |-> "setAuthorization", reversal |-> TRUE]>>)
  \o <<[step |-> "migrateToFixedTerm", reversal |-> FALSE]>>

BuildMigrateToFixedTermSteps ==
  /\ mig.status = "reading"
  /\ mig.reads = {"grant", "target"}
  /\ \E n \in Sizes :
       mig' = IF mig.sawTarget.created /\ mig.sawTarget.broker
                 /\ Available(mig.sawTarget) >= n
              THEN [mig EXCEPT !.status = "running", !.size = n,
                               !.plan = MigrationSteps(mig.sawGrant)]
              ELSE [mig EXCEPT !.status = "refused"]
  /\ UNCHANGED <<authVars, target, due>>
-----------------------------------------------------------------------------
(* The loop.                                                               *)

Current == mig.plan[mig.pc]

(* Variant: the loop does not know its end.                                *)
NeverOver == "running"

Onward == IF mig.pc = Len(mig.plan) THEN "done" ELSE "running"

Send ==
  /\ mig.status = "running"
  /\ mig' = [mig EXCEPT !.status = "waiting", !.tx = "out"]
  /\ UNCHANGED <<authVars, target, due>>

(* The receipt is in; README.md's loop does not look what it says.         *)
Confirm ==
  /\ mig.status = "waiting"
  /\ mig.tx = "mined" \/ (mig.tx = "reverted" /\ ~mig.checks)
  /\ mig' = IF Onward = "done" THEN [mig EXCEPT !.status = "done"]
            ELSE [mig EXCEPT !.status = "running", !.pc = @ + 1, !.tx = "none"]
  /\ UNCHANGED <<authVars, target, due>>

(* The wallet refuses, the receipt says reverted to a loop that looks, or  *)
(* the wait gives up on a transaction that is mined or still to be.        *)
Throws ==
  /\ mig.status \in {"running", "waiting"}
  /\ mig' = [mig EXCEPT !.status = "undoing"]
  /\ UNCHANGED <<authVars, target, due>>

(* The reversals of the steps before the one that threw.                   *)
HasReversal == \E i \in 1..(mig.pc - 1) : mig.plan[i].reversal

(* It is sent and not waited for; or the wallet refuses that as well.      *)
Undo ==
  /\ mig.status = "undoing"
  /\ \E undo \in IF HasReversal THEN {"out", "refused"} ELSE {"none"} :
       mig' = [mig EXCEPT !.status = "failed", !.undo = undo]
  /\ UNCHANGED <<authVars, target, due>>
-----------------------------------------------------------------------------
(* The chain, external.                                                    *)

Mined(step) == mig.tx = "out" /\ Current.step = step

(* A grant that was there already is not the loop's.                       *)
GrantLands ==
  /\ Mined("setAuthorization")
  /\ SetAuthorization(PositionManager, TRUE)
  /\ mig' = [mig EXCEPT !.tx = "mined", !.ours = PositionManager \notin granted]
  /\ UNCHANGED <<now, nonce, signed, cancel, spent, landed, target, due>>

GrantReverts ==
  /\ Mined("setAuthorization")
  /\ mig' = [mig EXCEPT !.tx = "reverted"]
  /\ UNCHANGED <<authVars, target, due>>

(* What the PositionManager does with the call.                            *)
Liquidity == target.supply - target.borrow

Migrate ==
  /\ Mined("migrateToFixedTerm")
  /\ PositionManager \in granted
  /\ due <= Liquidity
  /\ target' = [target EXCEPT !.borrow = @ + due]
  /\ due' = 0
  /\ mig' = [mig EXCEPT !.tx = "mined", !.fate = "settled"]
  /\ UNCHANGED authVars

(* Also for a reason the builder does not look at.                         *)
MigrateReverts ==
  /\ Mined("migrateToFixedTerm")
  /\ \E fate \in {"unauthorized", "illiquid", "refused"} :
       /\ fate = "unauthorized" => PositionManager \notin granted
       /\ fate = "illiquid" => PositionManager \in granted /\ due > Liquidity
       /\ mig' = [mig EXCEPT !.tx = "reverted", !.fate = fate]
  /\ UNCHANGED <<authVars, target, due>>

(* Behind the transaction before it.                                       *)
UndoLands ==
  /\ mig.undo = "out" /\ mig.tx # "out"
  /\ SetAuthorization(PositionManager, FALSE)
  /\ mig' = [mig EXCEPT !.undo = "mined", !.ours = FALSE]
  /\ UNCHANGED <<now, nonce, signed, cancel, spent, landed, target, due>>
-----------------------------------------------------------------------------
(* Meanwhile.                                                              *)

(* A grant somebody withdraws is the loop's no longer, nor if he grants it *)
(* again.                                                                  *)
OtherGrants ==
  /\ AuthNext
  /\ mig' = [mig EXCEPT !.ours = @ /\ PositionManager \in granted']
  /\ UNCHANGED <<target, due>>

OthersBorrow ==
  /\ target.borrow < target.supply
  /\ target' = [target EXCEPT !.borrow = @ + 1]
  /\ UNCHANGED <<authVars, due, mig>>

OthersRepay ==
  /\ target.borrow > 0
  /\ target' = [target EXCEPT !.borrow = @ - 1]
  /\ UNCHANGED <<authVars, due, mig>>

Accrue ==
  /\ mig.mode = "shares" /\ mig.fate # "settled"
  /\ due < MaxDue
  /\ due' = due + 1
  /\ UNCHANGED <<authVars, target, mig>>

Build == Begin \/ ReadGrant \/ ReadTarget \/ BuildMigrateToFixedTermSteps
Loop  == Send \/ Confirm \/ Throws \/ Undo
Mine  == GrantLands \/ GrantReverts \/ Migrate \/ MigrateReverts \/ UndoLands

Next ==
  \/ Build \/ Loop \/ Mine
  \/ OtherGrants \/ OthersBorrow \/ OthersRepay \/ Accrue

Spec == Init /\ [][Next]_vars
-----------------------------------------------------------------------------
(* Correctness.                                                            *)

(* When its loop is over, a grant the migration made is still in force     *)
(* only for a reason that can be named: the undo has been sent and is yet  *)
(* to be mined; the migration took place; the loop, README.md's, took the  *)
(* receipt of a reverted migration for a success; the wait that gave up    *)
(* was the grant's own, and the steps before it are undone, not it; or the *)
(* wallet refused the undo.                                                *)
NoOrphanGrant ==
  /\ (mig.status = "done" /\ mig.ours)
       => mig.fate = "settled" \/ (mig.fate # "none" /\ ~mig.checks)
  /\ (mig.status = "failed" /\ mig.ours)
       => mig.undo \in {"out", "refused"} \/ Current.step = "setAuthorization"

(* A migration fails for want of liquidity only if others borrowed what    *)
(* the builder saw, or the debt grew: it is never sent, and nothing is     *)
(* granted for it, against a market already known to be short.             *)
ShortOnlyIfMoved ==
  [][(mig.fate # "illiquid" /\ mig'.fate = "illiquid")
       => \/ due > mig.size
          \/ Liquidity < mig.sawTarget.supply - mig.sawTarget.borrow]_vars
=============================================================================
