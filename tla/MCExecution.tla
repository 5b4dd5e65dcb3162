---------------------------- MODULE MCExecution ----------------------------
(* Values for the constants of Execution and ScopedAllowance.              *)
EXTENDS ExecutionScope, TLC

CONSTANTS s1, s2, usdt, token

(* Both sequences spend from the same allowance.                           *)
SameUsdt  == [s \in Session |-> usdt]
SameToken == [s \in Session |-> token]

(* No definition tells one session from the other.                         *)
Alike == Permutations(Session)

Of(builder, mode) ==
  [builder |-> builder, mode |-> mode, keep |-> FALSE, waits |-> TRUE]

(* An exact amount, and a figure that may fall short; both are reclaimed.  *)
Reclaiming == {Of("repay", "assets"), Of("repay", "all")}

(* A ceiling the code computes, reclaimed or kept, and an exact supply that *)
(* does not wait for its turn.                                             *)
MayKeep == [builder : {"repay"}, mode : {"shares"}, keep : BOOLEAN, waits : {TRUE}]
Hasty   == [Of("supply", "assets") EXCEPT !.waits = FALSE]
Careless == MayKeep \cup {Hasty}

(* A caller's own figure beside a builder that never reclaims.             *)
Mixed      == {Of("brokerRepay", "assets"), Of("supply", "assets")}
SupplyOnly == {Of("supply", "assets")}
SharesOnly == {Of("repay", "shares")}
=============================================================================
