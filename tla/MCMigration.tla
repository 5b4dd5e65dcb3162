---------------------------- MODULE MCMigration ----------------------------
(* Values for the constants of Migration and Authorization.                *)
EXTENDS Migration

CONSTANTS positionManager, zero

Fixed(supply, borrow) ==
  [created |-> TRUE, broker |-> TRUE, supply |-> supply, borrow |-> borrow]

(* Enough, none to spare, and a market that is no fixed-term market.       *)
Targets == {Fixed(2, 0), Fixed(2, 1), [Fixed(1, 0) EXCEPT !.broker = FALSE]}
=============================================================================
