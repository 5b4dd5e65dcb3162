-------------------------- MODULE MCRepayPricing --------------------------
(* Values for the constants of RepayPricing.  The virtual amounts are 1    *)
(* and 10: only the price they give an empty market depends on them.       *)
EXTENDS RepayPricing

M(a, s, u, p) == [assets |-> a, shares |-> s, unfolded |-> u, position |-> p]

(* Dust, a price above the initial one, and a debt with a margin of more   *)
(* than a unit.                                                            *)
Markets == {M(3, 25, 0, 7), M(3, 17, 1, 5), M(0, 4, 0, 4), M(1, 10, 1, 10),
            M(320, 2600, 1, 2500),
            M(1, 10000, 0, 9995)}

(* Markets touched this very block.                                        *)
FreshMarkets == {M(3, 25, 0, 7), M(30, 250, 0, 50)}
=============================================================================
