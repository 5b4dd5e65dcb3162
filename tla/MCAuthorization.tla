-------------------------- MODULE MCAuthorization --------------------------
(* Values for the constants of Authorization.  zero stands for a contract  *)
(* the address book does not name as well: both are refused.               *)
EXTENDS Authorization

CONSTANTS positionManager, zero
=============================================================================
