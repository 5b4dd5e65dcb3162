--------------------------- MODULE SharePricing ---------------------------
(***************************************************************************)
(* What a share-denominated call costs and how far above it the builders   *)
(* approve (builders/sharePricing.ts, builders/vault.ts).                  *)
(*                                                                         *)
(* Amounts are raw token units, natural numbers without a bound: the code  *)
(* computes them with bigint.                                              *)
(***************************************************************************)
EXTENDS Integers

CONSTANTS
  VirtualAssets,     \* the protocol's virtual assets  (1 in the code)
  VirtualShares,     \* the protocol's virtual shares  (1,000,000 in the code)
  HeadroomDivisor,   \* one part in this many is the share ceiling's margin
  MintBufferBps,     \* DEFAULT_MINT_APPROVAL_BUFFER_BPS
  BpsDenominator     \* basis points in one

ASSUME PricingAssumption ==
  /\ VirtualAssets \in Nat \ {0}
  /\ VirtualShares \in Nat \ {0}
  /\ HeadroomDivisor \in Nat \ {0}
  /\ MintBufferBps \in Nat
  /\ BpsDenominator \in Nat \ {0}

(* bigint division of non-negative numbers, rounded up the way the code    *)
(* writes it.                                                              *)
CeilDiv(n, d) == (n + d - 1) \div d

(* Variant: rounded in the caller's favour.                                *)
ToAssetsDown(shares, totalAssets, totalShares) ==
  (shares * (totalAssets + VirtualAssets)) \div (totalShares + VirtualShares)

(* SharesMathLib.toAssetsUp: what the shares cost, rounded against the     *)
(* caller.                                                                 *)
ToAssetsUp(shares, totalAssets, totalShares) ==
  CeilDiv(shares * (totalAssets + VirtualAssets), totalShares + VirtualShares)

(* At least one unit of headroom: the quotient floors to zero on small     *)
(* amounts.                                                                *)
WithHeadroom(assets) ==
  LET margin == assets \div HeadroomDivisor
  IN assets + (IF margin > 0 THEN margin ELSE 1)

(* previewMint plus its buffer; the division rounds up.                    *)
WithMintBuffer(quoted) ==
  quoted + CeilDiv(quoted * MintBufferBps, BpsDenominator)
=============================================================================
