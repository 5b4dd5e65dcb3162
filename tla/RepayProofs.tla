---------------------------- MODULE RepayProofs ----------------------------
(***************************************************************************)
(* Proofs about RepayPricing: its types, that repaying everything leaves   *)
(* no debt, and that a repayment starves only when the market earned more  *)
(* than the builder's margin.                                              *)
(*                                                                         *)
(* The argument about the price is one inequality, kept by every step: the *)
(* shares of the call are worth no more than the builder's own figure and  *)
(* the interest it has not seen.  Borrowing and repaying round against     *)
(* whoever does it, so neither raises what a share costs.                  *)
(***************************************************************************)
EXTENDS RepayPricing, TLAPS

-----------------------------------------------------------------------------
(* Arithmetic.                                                             *)

LEMMA DivIs ==
  ASSUME NEW x \in Nat, NEW d \in Nat \ {0}
  PROVE  /\ x \div d \in Nat
         /\ d * (x \div d) <= x
         /\ x < d * (x \div d) + d
OBVIOUS

LEMMA CeilIs ==
  ASSUME NEW x \in Nat, NEW d \in Nat \ {0}
  PROVE  CeilDiv(x, d) \in Nat /\ x <= d * CeilDiv(x, d)
                               /\ d * CeilDiv(x, d) < x + d
<1>1. x + d - 1 \in Nat
  OBVIOUS
<1> QED
  BY <1>1, DivIs DEF CeilDiv

LEMMA Cancel ==
  ASSUME NEW x \in Int, NEW y \in Int, NEW d \in Nat \ {0}, d * x <= d * y
  PROVE  x <= y
OBVIOUS

LEMMA Times ==
  ASSUME NEW a \in Nat, NEW b \in Int, NEW c \in Int, b <= c
  PROVE  a * b <= a * c
OBVIOUS

LEMMA ProductNat ==
  ASSUME NEW a \in Nat, NEW b \in Nat
  PROVE  a * b \in Nat
OBVIOUS

(* A quotient rounded up is the least bound.                               *)
LEMMA CeilLeast ==
  ASSUME NEW x \in Nat, NEW d \in Nat \ {0}, NEW c \in Int, x <= d * c
  PROVE  CeilDiv(x, d) <= c
<1> DEFINE q == CeilDiv(x, d)
<1>1. q \in Nat /\ d * q < x + d
  BY CeilIs
<1> HIDE DEF q
<1>2. d * q < d * (c + 1)
  BY <1>1
<1>3. SUFFICES ASSUME c + 1 <= q PROVE FALSE
  BY <1>1 DEF q
<1>4. d * (c + 1) <= d * q
  BY <1>1, <1>3, Times
<1> QED
  BY <1>1, <1>2, <1>4

-----------------------------------------------------------------------------
(* What a step does to the price, in numbers: n shares of a market of V    *)
(* assets and T shares cost at most c.                                     *)

(* Interest of one unit, of which the shares owe their part.               *)
LEMMA InterestPrice ==
  ASSUME NEW n \in Nat, NEW V \in Nat, NEW T \in Nat, NEW c \in Nat,
         n * V <= c * T, n <= T
  PROVE  n * (V + 1) <= (c + 1) * T
OBVIOUS

(* Somebody borrows a and owes s shares, rounded up.                       *)
LEMMA BorrowPrice ==
  ASSUME NEW n \in Nat, NEW V \in Nat \ {0}, NEW T \in Nat, NEW c \in Nat,
         NEW a \in Nat, NEW s \in Nat, n * V <= c * T, a * T <= V * s
  PROVE  n * (V + a) <= c * (T + s)
<1>1. V * (n * V) <= V * (c * T)
  BY Times, ProductNat
<1>2. c * (a * T) <= c * (V * s)
  BY Times, ProductNat
<1>3. a * (n * V) <= a * (c * T)
  BY Times, ProductNat
<1>4. V * (n * (V + a)) = V * (n * V) + a * (n * V)
  OBVIOUS
<1>5. V * (c * (T + s)) = V * (c * T) + c * (V * s)
  OBVIOUS
<1>6. c * (a * T) = a * (c * T)
  OBVIOUS
<1>7. V * (n * (V + a)) <= V * (c * (T + s))
  BY <1>1, <1>2, <1>3, <1>4, <1>5, <1>6, ProductNat
<1> QED
  BY <1>7, Cancel, ProductNat

(* Somebody clears k shares and pays p, rounded up.                        *)
LEMMA RepayPrice ==
  ASSUME NEW n \in Nat, NEW V \in Nat, NEW T \in Nat \ {0}, NEW c \in Nat,
         NEW p \in Nat, NEW k \in Nat, n * V <= c * T, k * V <= T * p, k <= T,
         p <= V
  PROVE  n * (V - p) <= c * (T - k)
<1>0. T - k \in Nat /\ V - p \in Nat
  OBVIOUS
<1>1. n * (k * V) <= n * (T * p)
  BY Times, ProductNat
<1>2. (T - k) * (n * V) <= (T - k) * (c * T)
  BY <1>0, Times, ProductNat
<1>3. T * (n * (V - p)) = T * (n * V) - n * (T * p)
  OBVIOUS
<1>4. (T - k) * (n * V) = T * (n * V) - n * (k * V)
  OBVIOUS
<1>5. (T - k) * (c * T) = T * (c * (T - k))
  OBVIOUS
<1>6. T * (n * (V - p)) <= T * (c * (T - k))
  BY <1>1, <1>2, <1>3, <1>4, <1>5, <1>0, ProductNat
<1> QED
  BY <1>0, <1>6, Cancel, ProductNat

(* All assets are gone: the shares left cost a unit each at most.          *)
LEMMA EmptyPrice ==
  ASSUME NEW n \in Nat, NEW T \in Nat, NEW c \in Nat, n <= T, c >= 1
  PROVE  n * 1 <= c * T
OBVIOUS

(* The quote for shares, with u units of interest not seen.                *)
LEMMA SharesPrice ==
  ASSUME NEW n \in Nat, NEW V \in Nat, NEW T \in Nat, NEW b \in Nat, NEW u \in Nat,
         n * V <= T * b, n <= T
  PROVE  n * (V + u) <= (b + u) * T
<1>1. u * n <= u * T
  BY Times
<1> QED
  BY <1>1, ProductNat

(* The quote for everything, in a market that is not diluted ...           *)
LEMMA AllPrice ==
  ASSUME NEW n \in Nat, NEW E \in Nat, NEW S \in Nat \ {0}, NEW b \in Nat,
         NEW va \in Nat, NEW vs \in Nat,
         E * n <= S * (b + 1), va * S <= vs * E
  PROVE  n * (E + va) <= (b + 1) * (S + vs)
<1>1. n * (va * S) <= n * (vs * E)
  BY Times, ProductNat
<1>2. (S + vs) * (E * n) <= (S + vs) * (S * (b + 1))
  BY Times, ProductNat
<1>3. S * (n * (E + va)) = S * (E * n) + n * (va * S)
  OBVIOUS
<1>4. (S + vs) * (E * n) = S * (E * n) + n * (vs * E)
  OBVIOUS
<1>5. (S + vs) * (S * (b + 1)) = S * ((b + 1) * (S + vs))
  OBVIOUS
<1>6. S * (n * (E + va)) <= S * ((b + 1) * (S + vs))
  BY <1>1, <1>2, <1>3, <1>4, <1>5, ProductNat
<1> QED
  BY <1>6, Cancel, ProductNat

(* ... and in one that is.                                                 *)
LEMMA DilutedPrice ==
  ASSUME NEW n \in Nat, NEW E \in Nat, NEW S \in Nat \ {0}, NEW b \in Nat,
         NEW vs \in Nat, E * n <= S * (b + 1), n <= S
  PROVE  n * (E + 1) <= (b + 2) * (S + vs)
<1>1. n * (E + 1) <= S * (b + 2)
  BY ProductNat
<1>2. (b + 2) * S <= (b + 2) * (S + vs)
  BY Times
<1>3. S * (b + 2) = (b + 2) * S
  OBVIOUS
<1> QED
  BY <1>1, <1>2, <1>3, ProductNat

-----------------------------------------------------------------------------
(* The invariant.                                                          *)

(* What the market contract divides: all assets and all shares, with the   *)
(* virtual ones.                                                           *)
Value(m) == m.assets + m.unfolded + VirtualAssets
Stock(m) == m.shares + VirtualShares

(* The builder's own figure and the interest it has not seen.              *)
Allowed == ceiling - slack + earned

(* The borrower's shares are among the market's.                           *)
Held == market.position <= market.shares

(* A call that names assets asks for just these; one that names shares     *)
(* names some, and its builder's own figure is not nothing.                *)
Asked ==
  outcome = "quoted" =>
    IF request.assets > 0
    THEN method # "all" /\ slack = 0 /\ ceiling = request.assets
    ELSE request.shares > 0 /\ Allowed >= 1

(* A repayment of everything names all the shares there were, and they     *)
(* only become fewer.                                                      *)
Whole ==
  (outcome = "quoted" /\ method = "all") =>
    request.assets = 0 /\ request.shares >= market.position

(* The shares named are worth no more than the builder's figure and the    *)
(* interest it has not seen, as long as they can be cleared at all.        *)
Covers ==
  (outcome = "quoted" /\ request.assets = 0 /\ request.shares <= market.position)
    => request.shares * Value(market) <= Allowed * Stock(market)

(* Of what he held when the market was read, only some may have gone.      *)
Kept ==
  outcome = "read" => /\ method = "all"
                      /\ seen.position <= seen.shares
                      /\ market.position <= seen.position

(* The builder's figure for n shares of the market it has read.            *)
Holding(m, n) == [m EXCEPT !.position = n]
FigureIn(m)   == Borrowed(m, 1, 1) + (IF Diluted(m) THEN 2 ELSE 1)
Figure(n)     == FigureIn(Holding(seen, n))

(* Whatever is left of his shares when the position is read is worth no    *)
(* more than that figure and the interest since the market was read.       *)
Foresees ==
  outcome = "read" =>
    \A n \in Nat \ {0} :
      n <= market.position => n * Value(market) <= (Figure(n) + earned) * Stock(market)

QInv == TypeOK /\ Held /\ Asked /\ Whole /\ Kept /\ RepayAllLeavesNoDebt
PInv == QInv /\ Covers /\ Foresees /\ StarvedOnlyByInterest

MarketType == [assets : Nat, shares : Nat, unfolded : Nat, position : Nat]
RequestType == [assets : Nat, shares : Nat]

-----------------------------------------------------------------------------
(* The market contract's operators.                                        *)

LEMMA FoldedIs ==
  ASSUME NEW m \in MarketType
  PROVE  /\ Folded(m) \in MarketType
         /\ Folded(m).assets = m.assets + m.unfolded
         /\ Folded(m).unfolded = 0
         /\ Folded(m).shares = m.shares
         /\ Folded(m).position = m.position
         /\ Value(Folded(m)) = Value(m)
         /\ Stock(Folded(m)) = Stock(m)
<1>0. PICK f : f = Folded(m)
  OBVIOUS
<1>1. /\ m.assets \in Nat /\ m.shares \in Nat
      /\ m.unfolded \in Nat /\ m.position \in Nat
  BY DEF MarketType
<1>2. f \in MarketType
  <2>1. PICK d \in Nat : d = m.assets + m.unfolded
    BY <1>1
  <2>2. f = [m EXCEPT !.assets = d, !.unfolded = 0]
    BY <1>0, <2>1 DEF Folded
  <2> QED
    BY <2>1, <2>2 DEF MarketType
<1>3. /\ f.assets = m.assets + m.unfolded /\ f.unfolded = 0
      /\ f.shares = m.shares /\ f.position = m.position
  BY <1>0 DEF Folded, MarketType
<1>4. Value(f) = Value(m)
  BY <1>1, <1>3, PricingAssumption DEF Value
<1>5. Stock(f) = Stock(m)
  BY <1>3 DEF Stock
<1> QED
  BY <1>0, <1>2, <1>3, <1>4, <1>5

LEMMA SidesNat ==
  ASSUME NEW m \in MarketType
  PROVE  Value(m) \in Nat \ {0} /\ Stock(m) \in Nat \ {0}
BY PricingAssumption DEF MarketType, Value, Stock

LEMMA AssetsUpIs ==
  ASSUME NEW m \in MarketType, m.unfolded = 0, NEW n \in Nat
  PROVE  /\ AssetsUp(n, m) = CeilDiv(n * Value(m), Stock(m))
         /\ AssetsUp(n, m) \in Nat
         /\ n * Value(m) <= Stock(m) * AssetsUp(n, m)
<1>1. AssetsUp(n, m) = CeilDiv(n * Value(m), Stock(m))
  BY PricingAssumption DEF AssetsUp, Value, Stock, MarketType
<1> QED
  BY <1>1, SidesNat, ProductNat, CeilIs

LEMMA SharesUpIs ==
  ASSUME NEW m \in MarketType, m.unfolded = 0, NEW a \in Nat
  PROVE  /\ SharesUp(a, m) \in Nat
         /\ a * Stock(m) <= Value(m) * SharesUp(a, m)
<1>1. SharesUp(a, m) = CeilDiv(a * Stock(m), Value(m))
  BY PricingAssumption DEF SharesUp, Value, Stock, MarketType
<1> QED
  BY <1>1, SidesNat, ProductNat, CeilIs

LEMMA SharesDownNat ==
  ASSUME NEW m \in MarketType, m.unfolded = 0, NEW a \in Nat
  PROVE  SharesDown(a, m) \in Nat
<1>1. SharesDown(a, m) = (a * Stock(m)) \div Value(m)
  BY PricingAssumption DEF SharesDown, Value, Stock, MarketType
<1> QED
  BY <1>1, SidesNat, ProductNat, DivIs

LEMMA RepaidIs ==
  ASSUME NEW m \in MarketType, NEW a \in Nat, NEW n \in Nat, n <= m.shares
  PROVE  /\ Repaid(m, a, n) \in MarketType
         /\ Repaid(m, a, n).assets = IF m.assets > a THEN m.assets - a ELSE 0
         /\ Repaid(m, a, n).shares = m.shares - n
         /\ Repaid(m, a, n).unfolded = m.unfolded
         /\ Repaid(m, a, n).position = m.position
<1>1. /\ m.assets \in Nat /\ m.shares \in Nat
      /\ m.unfolded \in Nat /\ m.position \in Nat
  BY DEF MarketType
<1>2. PICK d \in Nat : d = Monus(m.assets, a)
  BY <1>1 DEF Monus
<1>3. m.shares - n \in Nat
  BY <1>1
<1>4. Repaid(m, a, n) = [m EXCEPT !.assets = d, !.shares = m.shares - n]
  BY <1>2 DEF Repaid
<1>5. Repaid(m, a, n) \in MarketType
  BY <1>3, <1>4 DEF MarketType
<1>6. /\ Repaid(m, a, n).assets = d /\ Repaid(m, a, n).shares = m.shares - n
      /\ Repaid(m, a, n).unfolded = m.unfolded
      /\ Repaid(m, a, n).position = m.position
  BY <1>4 DEF MarketType
<1> QED
  BY <1>2, <1>5, <1>6 DEF Monus

(* What the call would take and clear is a number of units.                *)
LEMMA CallIs ==
  ASSUME NEW m \in MarketType, NEW r \in RequestType
  PROVE  PulledBy(r, m) \in Nat /\ ClearedBy(r, m) \in Nat
BY FoldedIs, AssetsUpIs, SharesDownNat DEF PulledBy, ClearedBy, RequestType

(* When others clear k shares, what is left of n shares' price is no more  *)
(* than before.                                                            *)
LEMMA OthersClear ==
  ASSUME VirtualAssets = 1,
         NEW m \in MarketType, m.unfolded = 0, NEW k \in Nat, NEW n \in Nat,
         n + k <= m.shares, NEW c \in Nat, c >= 1,
         n * Value(m) <= c * Stock(m),
         NEW w \in MarketType,
         w.assets = Repaid(m, AssetsUp(k, m), k).assets,
         w.shares = m.shares - k, w.unfolded = 0
  PROVE  n * Value(w) <= c * Stock(w)
<1> DEFINE p == AssetsUp(k, m)
           V == Value(m)
           T == Stock(m)
<1>1. p \in Nat /\ k * V <= T * p
  BY AssetsUpIs
<1>2. V \in Nat \ {0} /\ T \in Nat \ {0}
  BY SidesNat
<1>3. V = m.assets + 1 /\ T = m.shares + VirtualShares
  BY DEF Value, Stock, MarketType
<1>4. Stock(w) = T - k /\ T - k \in Nat /\ n <= T - k /\ k <= T
  BY <1>3, PricingAssumption DEF Stock, MarketType
<1>5. k <= m.shares
  BY DEF MarketType
<1>6. w.assets = IF m.assets > p THEN m.assets - p ELSE 0
  BY <1>1, <1>5, RepaidIs
<1>7. n * V <= c * T
  OBVIOUS
<1> HIDE DEF p, V, T
<1>8. CASE m.assets > p
  <2>1. Value(w) = V - p /\ p <= V
    BY <1>1, <1>3, <1>6, <1>8 DEF Value, MarketType
  <2>2. n * (V - p) <= c * (T - k)
    BY <1>1, <1>2, <1>4, <1>7, <2>1, RepayPrice
  <2> QED
    BY <2>1, <2>2, <1>4
<1>9. CASE ~ (m.assets > p)
  <2>1. Value(w) = 1
    BY <1>6, <1>9 DEF Value
  <2> QED
    BY <2>1, <1>4, EmptyPrice
<1> QED
  BY <1>8, <1>9

-----------------------------------------------------------------------------
(* What the builder asks for.                                              *)

LEMMA ToAssetsUpIs ==
  ASSUME NEW n \in Nat, NEW a \in Nat, NEW s \in Nat
  PROVE  /\ ToAssetsUp(n, a, s) \in Nat
         /\ n * (a + VirtualAssets) <= (s + VirtualShares) * ToAssetsUp(n, a, s)
<1>1. a + VirtualAssets \in Nat /\ s + VirtualShares \in Nat \ {0}
  BY PricingAssumption
<1> QED
  BY <1>1, ProductNat, CeilIs DEF ToAssetsUp

LEMMA HeadroomNat ==
  ASSUME NEW a \in Nat
  PROVE  WithHeadroom(a) \in Nat
<1>1. a \div HeadroomDivisor \in Nat
  BY DivIs, PricingAssumption
<1> QED
  BY <1>1 DEF WithHeadroom

LEMMA BorrowedIs ==
  ASSUME NEW m \in MarketType, m.shares > 0
  PROVE  /\ ExtraRepayAmount(m) \in Nat
         /\ Borrowed(m, 1, 1) \in Nat
         /\ (m.assets + m.unfolded) * m.position
              <= m.shares * (Borrowed(m, 1, 1) + 1)
<1>1. /\ m.assets \in Nat /\ m.shares \in Nat \ {0}
      /\ m.unfolded \in Nat /\ m.position \in Nat
  BY DEF MarketType
<1> DEFINE x == (m.assets + m.unfolded) * m.position
<1>2. x \in Nat
  BY <1>1, ProductNat
<1>3. Borrowed(m, 1, 1) = x \div m.shares
  <2>1. x * 1 = x /\ m.shares * 1 = m.shares
    BY <1>1, <1>2
  <2> QED
    BY <2>1 DEF Borrowed
<1>4. ExtraRepayAmount(m) = (x * (RateDivisor + 1)) \div (m.shares * RateDivisor)
  BY DEF ExtraRepayAmount, Borrowed
<1> HIDE DEF x
<1>5. x \div m.shares \in Nat /\ x < m.shares * (x \div m.shares) + m.shares
  BY <1>1, <1>2, DivIs
<1>6. x <= m.shares * (x \div m.shares + 1)
  BY <1>1, <1>2, <1>5
<1>7. ExtraRepayAmount(m) \in Nat
  <2>1. RateDivisor \in Nat \ {0} /\ RateDivisor + 1 \in Nat
    BY RepayAssumption
  <2>2. m.shares * RateDivisor \in Nat \ {0}
    BY <1>1, <2>1
  <2>3. x * (RateDivisor + 1) \in Nat
    BY <1>2, <2>1, ProductNat
  <2> QED
    BY <1>4, <2>2, <2>3, DivIs
<1> QED
  BY <1>3, <1>5, <1>6, <1>7 DEF x

(* The figure for everything, whatever the market has earned meanwhile.    *)
LEMMA FigureIs ==
  ASSUME NEW m \in MarketType, m.shares > 0, m.position <= m.shares
  PROVE  /\ FigureIn(m) \in Nat /\ FigureIn(m) >= 1
         /\ VirtualAssets = 1 => m.position * Value(m) <= FigureIn(m) * Stock(m)
<1>1. PICK n \in Nat, E \in Nat, S \in Nat \ {0} :
        n = m.position /\ E = m.assets + m.unfolded /\ S = m.shares /\ n <= S
  BY DEF MarketType
<1>2. PICK B \in Nat : B = Borrowed(m, 1, 1)
  BY BorrowedIs
<1>3. E * n <= S * (B + 1)
  BY <1>1, <1>2, BorrowedIs
<1>4. PICK b \in Nat : b = B + (IF Diluted(m) THEN 2 ELSE 1) /\ b >= 1
  BY <1>2
<1>5. b = FigureIn(m)
  BY <1>2, <1>4 DEF FigureIn
<1>6. /\ Value(m) = E + VirtualAssets /\ Stock(m) = S + VirtualShares
  BY <1>1 DEF Value, Stock
<1>7. VirtualAssets \in Nat /\ VirtualShares \in Nat
  BY PricingAssumption
<1>8. ASSUME VirtualAssets = 1 PROVE n * (E + VirtualAssets) <= b * (S + VirtualShares)
  <2>1. CASE Diluted(m)
    BY <1>1, <1>3, <1>4, <1>7, <1>8, <2>1, DilutedPrice
  <2>2. CASE ~ Diluted(m)
    <3>1. VirtualAssets * S <= VirtualShares * E
      BY <1>1, <1>7, <2>2, ProductNat DEF Diluted
    <3> QED
      BY <1>3, <1>4, <1>7, <2>2, <3>1, AllPrice
  <2> QED
    BY <2>1, <2>2
<1> QED
  BY <1>1, <1>4, <1>5, <1>6, <1>8

LEMMA HoldingIs ==
  ASSUME NEW m \in MarketType, NEW n \in Nat
  PROVE  /\ Holding(m, n) \in MarketType /\ Holding(m, n).position = n
         /\ Holding(m, n).shares = m.shares
         /\ Value(Holding(m, n)) = Value(m) /\ Stock(Holding(m, n)) = Stock(m)
BY DEF Holding, MarketType, Value, Stock

-----------------------------------------------------------------------------
(* The types and the shape of the call.                                    *)

LEMMA InitQInv == Init => QInv
<1> SUFFICES ASSUME Init PROVE QInv
  OBVIOUS
<1>1. market \in MarketType
  BY RepayAssumption DEF Init, MarketType
<1>2. TypeOK
  BY <1>1, RepayAssumption DEF Init, TypeOK, MarketType
<1> QED
  BY <1>2, RepayAssumption DEF Init, QInv, Held, Asked, Whole, Kept, RepayAllLeavesNoDebt

(* What a quote sets.                                                      *)
LEMMA QuotedQInv ==
  ASSUME QInv, NEW r \in RequestType, NEW base \in Nat, NEW c \in Nat,
         NEW unseen \in Nat, Quoted(r, base, c, unseen),
         IF r.assets > 0 THEN method # "all" /\ base = c /\ c = r.assets
                         ELSE r.shares > 0 /\ base >= 1,
         method = "all" => r.assets = 0 /\ r.shares >= market.position
  PROVE  QInv'
<1>1. /\ market' = market /\ method' = method /\ moves' = moves
      /\ request' = r /\ ceiling' = c /\ outcome' = "quoted"
      /\ slack' = c - base /\ earned' = unseen /\ seen' = seen
  BY DEF Quoted
<1>3. TypeOK'
  BY <1>1 DEF QInv, TypeOK, RequestType
<1>4. Held' /\ Whole' /\ Kept' /\ RepayAllLeavesNoDebt'
  BY <1>1 DEF QInv, Held, Whole, Kept, RepayAllLeavesNoDebt
<1>5. Asked'
  BY <1>1 DEF Asked, Allowed
<1> QED
  BY <1>3, <1>4, <1>5 DEF QInv

(* What a touch of the market by others leaves of the rest.                *)
LEMMA TouchedQInv ==
  ASSUME QInv, NEW w \in MarketType, Touched(w),
         w.position <= w.shares, w.position <= market.position
  PROVE  QInv'
<1>1. /\ market' = w /\ moves' = moves + 1 /\ moves < MaxMoves
      /\ outcome \in {"none", "read", "quoted"}
      /\ UNCHANGED <<method, seen, request, ceiling, outcome, slack, earned>>
  BY DEF Touched
<1>2. TypeOK'
  BY <1>1, RepayAssumption DEF QInv, TypeOK, MarketType
<1>3. Held' /\ Asked' /\ RepayAllLeavesNoDebt'
  BY <1>1 DEF QInv, Held, Asked, Allowed, RepayAllLeavesNoDebt
<1>4. Whole'
  <2>1. SUFFICES ASSUME outcome = "quoted", method = "all"
                 PROVE  request.assets = 0 /\ request.shares >= w.position
    BY <1>1 DEF Whole
  <2>2. /\ request.shares \in Nat /\ market.position \in Nat /\ w.position \in Nat
        /\ request.assets = 0 /\ request.shares >= market.position
    BY <2>1 DEF QInv, TypeOK, Whole, MarketType
  <2> QED
    BY <2>2
<1>5. Kept'
  <2>1. SUFFICES ASSUME outcome = "read"
                 PROVE  /\ method = "all" /\ seen.position <= seen.shares
                        /\ w.position <= seen.position
    BY <1>1 DEF Kept
  <2>2. /\ market.position \in Nat /\ w.position \in Nat /\ seen.position \in Nat
        /\ method = "all" /\ seen.position <= seen.shares
        /\ market.position <= seen.position
    BY <2>1 DEF QInv, TypeOK, Kept, MarketType
  <2> QED
    BY <2>2
<1> QED
  BY <1>2, <1>3, <1>4, <1>5 DEF QInv

(* What others do to the market.                                           *)
LEMMA MarketIs ==
  ASSUME QInv
  PROVE  /\ market \in MarketType
         /\ market.assets \in Nat /\ market.shares \in Nat
         /\ market.unfolded \in Nat /\ market.position \in Nat
         /\ market.position <= market.shares
         /\ request \in RequestType
         /\ request.assets \in Nat /\ request.shares \in Nat
         /\ seen \in MarketType /\ earned \in Nat
BY DEF QInv, TypeOK, Held, MarketType, RequestType

LEMMA ClearedMarket ==
  ASSUME NEW m \in MarketType, NEW n \in Nat, n <= m.position,
         NEW w, w = [m EXCEPT !.position = @ - n]
  PROVE  /\ w \in MarketType
         /\ w.assets = m.assets /\ w.shares = m.shares
         /\ w.unfolded = m.unfolded /\ w.position = m.position - n
<1>1. PICK x \in Nat : x = m.position - n
  BY DEF MarketType
<1>2. w = [m EXCEPT !.position = x]
  BY <1>1
<1> QED
  BY <1>1, <1>2 DEF MarketType

-----------------------------------------------------------------------------
(* One step at a time.                                                     *)

(* The market as it was, with the position as it is.                       *)
LEMMA SeenIs ==
  ASSUME QInv, QuoteAll
  PROVE  /\ Borrowed(Seen(0), 1, 1) + (IF Diluted(seen) THEN 2 ELSE 1)
              = Figure(market.position)
         /\ Figure(market.position) \in Nat /\ Figure(market.position) >= 1
         /\ \A told \in 0..earned : ExtraRepayAmount(Seen(told)) \in Nat
<1>1. /\ seen \in MarketType /\ market.position \in Nat /\ earned \in Nat
      /\ seen.shares \in Nat /\ seen.position \in Nat /\ seen.unfolded \in Nat
  BY MarketIs DEF MarketType
<1>2. /\ seen.shares > 0 /\ market.position <= seen.shares
  BY <1>1 DEF QuoteAll, QInv, Kept
<1>3. Seen(0) = Holding(seen, market.position)
  <2>1. seen.unfolded + 0 = seen.unfolded
    BY <1>1
  <2>2. Seen(0) = [seen EXCEPT !.unfolded = seen.unfolded, !.position = market.position]
    BY <2>1 DEF Seen
  <2> QED
    BY <1>1, <2>2 DEF Holding, MarketType
<1>4. Diluted(Holding(seen, market.position)) = Diluted(seen)
  BY <1>1 DEF Diluted, Holding, MarketType
<1>5. /\ Figure(market.position) \in Nat /\ Figure(market.position) >= 1
  BY <1>1, <1>2, HoldingIs, FigureIs DEF Figure
<1>6. ASSUME NEW told \in 0..earned PROVE ExtraRepayAmount(Seen(told)) \in Nat
  <2>1. PICK u \in Nat : u = seen.unfolded + told
    BY <1>1
  <2>2. Seen(told) = [seen EXCEPT !.unfolded = u, !.position = market.position]
    BY <2>1 DEF Seen
  <2>3. Seen(told) \in MarketType /\ Seen(told).shares = seen.shares
    BY <1>1, <2>2 DEF MarketType
  <2> QED
    BY <1>2, <2>3, BorrowedIs
<1> QED
  BY <1>3, <1>4, <1>5, <1>6 DEF Figure, FigureIn

LEMMA QuoteQInv == QInv /\ Quote => QInv'
<1> SUFFICES ASSUME QInv, Quote PROVE QInv'
  OBVIOUS
<1>0. /\ market \in MarketType /\ market.shares \in Nat /\ market.assets \in Nat
      /\ market.unfolded \in Nat /\ market.position \in Nat
      /\ market.position <= market.shares
  BY MarketIs
<1>1. CASE QuoteAssets
  <2>1. PICK a \in Amounts :
          Quoted([assets |-> a, shares |-> 0], a, a, 0)
    BY <1>1 DEF QuoteAssets
  <2>2. a \in Nat \ {0} /\ method # "all"
    BY <1>1, RepayAssumption DEF QuoteAssets
  <2> DEFINE r == [assets |-> a, shares |-> 0]
  <2>3. r \in RequestType /\ r.assets > 0 /\ r.assets = a
    BY <2>2 DEF RequestType
  <2> HIDE DEF r
  <2>4. Quoted(r, a, a, 0)
    BY <2>1 DEF r
  <2> QED
    BY <1>0, <2>2, <2>3, <2>4, QuotedQInv
<1>2. CASE QuoteShares
  <2>1. PICK n \in Shares :
          /\ n <= market.position
          /\ Quoted([assets |-> 0, shares |-> n],
                    ToAssetsUp(n, market.assets, market.shares),
                    SharesToAssetCeiling(n, market), market.unfolded)
    BY <1>2 DEF QuoteShares
  <2>2. n \in Nat \ {0} /\ method # "all"
    BY <1>2, RepayAssumption DEF QuoteShares
  <2>3. PICK b \in Nat : b = ToAssetsUp(n, market.assets, market.shares)
    BY <1>0, <2>2, ToAssetsUpIs
  <2>4. n * (market.assets + VirtualAssets) <= (market.shares + VirtualShares) * b
    BY <1>0, <2>2, <2>3, ToAssetsUpIs
  <2>5. b >= 1
    <3>1. n * (market.assets + VirtualAssets) >= 1
      BY <1>0, <2>2, PricingAssumption
    <3>2. SUFFICES ASSUME b = 0 PROVE FALSE
      OBVIOUS
    <3>3. (market.shares + VirtualShares) * 0 = 0
      BY <1>0, PricingAssumption
    <3> QED
      BY <2>4, <3>1, <3>2, <3>3, <1>0, <2>2, ProductNat, PricingAssumption
  <2>6. PICK c \in Nat : c = SharesToAssetCeiling(n, market)
    BY <2>3, HeadroomNat DEF SharesToAssetCeiling
  <2> DEFINE r == [assets |-> 0, shares |-> n]
  <2>7. r \in RequestType /\ ~ (r.assets > 0) /\ r.shares > 0
    BY <2>2 DEF RequestType
  <2> HIDE DEF r
  <2>8. Quoted(r, b, c, market.unfolded)
    BY <2>1, <2>3, <2>6 DEF r
  <2> QED
    BY <1>0, <2>2, <2>5, <2>7, <2>8, QuotedQInv
<1>3. CASE QuoteAll
  <2>0. PICK told \in 0..earned :
          Quoted([assets |-> 0, shares |-> market.position],
                 Borrowed(Seen(0), 1, 1) + (IF Diluted(seen) THEN 2 ELSE 1),
                 ExtraRepayAmount(Seen(told)), earned)
    BY <1>3 DEF QuoteAll
  <2>1. PICK c :
          /\ Quoted([assets |-> 0, shares |-> market.position],
                    Borrowed(Seen(0), 1, 1) + (IF Diluted(seen) THEN 2 ELSE 1), c, earned)
          /\ c = ExtraRepayAmount(Seen(told))
    BY <2>0
  <2>2. market.position > 0
    BY <1>3 DEF QuoteAll
  <2>3. PICK b \in Nat :
          /\ b = Borrowed(Seen(0), 1, 1) + (IF Diluted(seen) THEN 2 ELSE 1)
          /\ b >= 1
    BY <1>3, SeenIs
  <2>4. c \in Nat
    BY <1>3, <2>1, SeenIs
  <2> DEFINE r == [assets |-> 0, shares |-> market.position]
  <2>5. r \in RequestType /\ r.assets = 0 /\ r.shares = market.position
    BY <1>0 DEF RequestType
  <2> HIDE DEF r
  <2>6. Quoted(r, b, c, earned) /\ earned \in Nat
    BY <2>1, <2>3, MarketIs DEF r
  <2> QED
    BY <1>0, <2>2, <2>3, <2>4, <2>5, <2>6, QuotedQInv
<1>4. CASE ReadMarket
  <2>1. /\ UNCHANGED <<market, method, request, ceiling, slack, moves>>
        /\ seen' = market /\ outcome' = "read" /\ earned' = 0 /\ method = "all"
    BY <1>4 DEF ReadMarket
  <2>2. TypeOK'
    BY <2>1 DEF QInv, TypeOK
  <2>3. Held' /\ Asked' /\ Whole' /\ Kept' /\ RepayAllLeavesNoDebt'
    BY <1>0, <2>1 DEF QInv, Held, Asked, Whole, Kept, RepayAllLeavesNoDebt
  <2> QED
    BY <2>2, <2>3 DEF QInv
<1> QED
  BY <1>1, <1>2, <1>3, <1>4 DEF Quote

LEMMA ElapseQInv == QInv /\ Elapse => QInv'
<1> SUFFICES ASSUME QInv, Elapse PROVE QInv'
  OBVIOUS
<1>0. /\ market \in MarketType /\ market.unfolded \in Nat
  BY MarketIs
<1>1. PICK u \in Nat : u = market.unfolded + 1
  BY <1>0
<1>2. /\ market' = [market EXCEPT !.unfolded = u] /\ earned' = earned + 1
      /\ UNCHANGED <<method, seen, request, ceiling, outcome, slack, moves>>
      /\ outcome \in {"none", "read", "quoted"}
  BY <1>1 DEF Elapse
<1>3. /\ market' \in MarketType /\ market'.shares = market.shares
      /\ market'.position = market.position
  BY <1>0, <1>1, <1>2 DEF MarketType
<1>4. TypeOK'
  BY <1>2, <1>3 DEF QInv, TypeOK, MarketType
<1>5. Held' /\ Whole' /\ Kept' /\ RepayAllLeavesNoDebt'
  BY <1>2, <1>3 DEF QInv, Held, Whole, Kept, RepayAllLeavesNoDebt
<1>6. Asked'
  <2>1. ceiling \in Nat /\ slack \in Int /\ earned \in Nat
    BY DEF QInv, TypeOK
  <2> QED
    BY <1>2, <2>1 DEF QInv, Asked, Allowed
<1> QED
  BY <1>4, <1>5, <1>6 DEF QInv

(* What each of the others leaves.                                         *)
LEMMA OthersBorrowIs ==
  ASSUME QInv, OthersBorrow
  PROVE  \E a \in Nat, s \in Nat, w \in MarketType :
           /\ Touched(w)
           /\ w.assets = market.assets + market.unfolded + a
           /\ w.shares = market.shares + s /\ w.unfolded = 0
           /\ w.position = market.position
           /\ a * Stock(market) <= Value(market) * s
<1>0. PICK m : m = Folded(market)
  OBVIOUS
<1>1. PICK a \in Amounts :
        Touched([m EXCEPT !.assets = @ + a, !.shares = @ + SharesUp(a, m)])
  BY <1>0 DEF OthersBorrow
<1>2. /\ m \in MarketType /\ m.assets = market.assets + market.unfolded
      /\ m.unfolded = 0 /\ m.shares = market.shares /\ m.position = market.position
      /\ Value(m) = Value(market) /\ Stock(m) = Stock(market)
  BY <1>0, MarketIs, FoldedIs
<1>3. a \in Nat
  BY RepayAssumption
<1>4. PICK s \in Nat : s = SharesUp(a, m) /\ a * Stock(m) <= Value(m) * s
  BY <1>2, <1>3, SharesUpIs
<1>5. PICK x \in Nat, y \in Nat : x = m.assets + a /\ y = m.shares + s
  BY <1>2, <1>3, <1>4 DEF MarketType
<1>6. PICK w : w = [m EXCEPT !.assets = x, !.shares = y]
  OBVIOUS
<1>7. /\ w \in MarketType /\ w.assets = x /\ w.shares = y
      /\ w.unfolded = m.unfolded /\ w.position = m.position
  BY <1>2, <1>5, <1>6 DEF MarketType
<1>8. Touched(w)
  BY <1>1, <1>4, <1>5, <1>6
<1> QED
  BY <1>2, <1>3, <1>4, <1>5, <1>7, <1>8

LEMMA OthersRepayIs ==
  ASSUME QInv, OthersRepay \/ OthersRepayOurs
  PROVE  \E n \in Nat, w \in MarketType :
           /\ Touched(w)
           /\ LET m == Folded(market)
              IN w.assets = Repaid(m, AssetsUp(n, m), n).assets
           /\ n <= market.shares
           /\ w.shares = market.shares - n /\ w.unfolded = 0
           /\ w.position <= w.shares /\ w.position <= market.position
<1> DEFINE m == Folded(market)
<1>2. /\ m \in MarketType
      /\ m.unfolded = 0 /\ m.shares = market.shares /\ m.position = market.position
  BY MarketIs, FoldedIs
<1>3. /\ market.shares \in Nat /\ market.position \in Nat
      /\ market.position <= market.shares
  BY MarketIs
<1>4. CASE OthersRepay
  <2>1. PICK n \in Shares :
          n <= m.shares - m.position /\ Touched(Repaid(m, AssetsUp(n, m), n))
    BY <1>4 DEF OthersRepay
  <2> HIDE DEF m
  <2>2. n \in Nat /\ n <= market.shares
    BY <1>2, <1>3, <2>1, RepayAssumption
  <2>3. PICK p \in Nat : p = AssetsUp(n, m)
    BY <1>2, <2>2, AssetsUpIs
  <2>4. PICK w : w = Repaid(m, p, n)
    OBVIOUS
  <2>5. /\ w \in MarketType /\ w.shares = m.shares - n
        /\ w.unfolded = m.unfolded /\ w.position = m.position
    BY <1>2, <2>2, <2>3, <2>4, RepaidIs
  <2>6. w.position <= w.shares
    BY <1>2, <1>3, <2>1, <2>2, <2>5
  <2>7. Touched(w) /\ w.assets = Repaid(m, AssetsUp(n, m), n).assets
    BY <2>1, <2>3, <2>4
  <2>8. w.position <= market.position
    BY <1>2, <1>3, <2>5
  <2> QED
    BY <1>2, <2>2, <2>5, <2>6, <2>7, <2>8 DEF m
<1>5. CASE OthersRepayOurs
  <2>1. PICK n \in Shares :
          /\ n <= m.position
          /\ Touched([Repaid(m, AssetsUp(n, m), n) EXCEPT !.position = @ - n])
    BY <1>5 DEF OthersRepayOurs
  <2> HIDE DEF m
  <2>2. n \in Nat /\ n <= market.shares
    BY <1>2, <1>3, <2>1, RepayAssumption
  <2>3. PICK p \in Nat : p = AssetsUp(n, m)
    BY <1>2, <2>2, AssetsUpIs
  <2>4. PICK x : x = Repaid(m, p, n)
    OBVIOUS
  <2>5. /\ x \in MarketType /\ x.shares = m.shares - n
        /\ x.unfolded = m.unfolded /\ x.position = m.position
    BY <1>2, <2>2, <2>3, <2>4, RepaidIs
  <2>6. PICK w : w = [x EXCEPT !.position = @ - n]
    OBVIOUS
  <2>7. /\ w \in MarketType /\ w.assets = x.assets /\ w.shares = x.shares
        /\ w.unfolded = x.unfolded /\ w.position = x.position - n
    BY <2>1, <2>2, <2>5, <2>6, ClearedMarket
  <2>8. w.position <= w.shares /\ w.position <= market.position
    BY <1>2, <1>3, <2>1, <2>2, <2>5, <2>7
  <2>9. Touched(w) /\ w.assets = Repaid(m, AssetsUp(n, m), n).assets
    BY <2>1, <2>3, <2>4, <2>6, <2>7
  <2> QED
    BY <1>2, <2>2, <2>5, <2>7, <2>8, <2>9 DEF m
<1> QED
  BY <1>4, <1>5

LEMMA OthersQInv == QInv /\ Others => QInv'
<1> SUFFICES ASSUME QInv, Others PROVE QInv'
  OBVIOUS
<1>0. /\ market.shares \in Nat /\ market.position \in Nat
      /\ market.position <= market.shares
  BY MarketIs
<1>1. CASE OthersBorrow
  <2>1. PICK a \in Nat, s \in Nat, w \in MarketType :
          /\ Touched(w) /\ w.shares = market.shares + s
          /\ w.position = market.position
    BY <1>1, OthersBorrowIs
  <2>2. w.position <= w.shares /\ w.position <= market.position
    BY <1>0, <2>1
  <2> QED
    BY <2>1, <2>2, TouchedQInv
<1>2. CASE OthersRepay \/ OthersRepayOurs
  <2>1. PICK n \in Nat, w \in MarketType :
          /\ Touched(w)
          /\ w.position <= w.shares /\ w.position <= market.position
    BY <1>2, OthersRepayIs
  <2> QED
    BY <2>1, TouchedQInv
<1> QED
  BY <1>1, <1>2 DEF Others

LEMMA IncludeQInv == QInv /\ Include => QInv'
<1> SUFFICES ASSUME QInv, Include PROVE QInv'
  OBVIOUS
<1>0. /\ market \in MarketType /\ request \in RequestType
      /\ market.shares \in Nat /\ market.position \in Nat
      /\ market.position <= market.shares
      /\ request.assets \in Nat /\ request.shares \in Nat
  BY MarketIs
<1>1. PICK pull \in Nat, n \in Nat :
        pull = PulledBy(request, market) /\ n = ClearedBy(request, market)
  BY <1>0, CallIs
<1>2. /\ outcome = "quoted"
      /\ UNCHANGED <<method, seen, request, ceiling, slack, earned, moves>>
      /\ \/ /\ outcome' = "refused" \/ outcome' = "starved"
            /\ UNCHANGED market
         \/ /\ n <= market.position /\ outcome' = "settled"
            /\ market' = [Repaid(Folded(market), pull, n) EXCEPT !.position = @ - n]
  BY <1>1 DEF Include
<1>3. market' \in MarketType /\ market'.position <= market'.shares
      /\ (outcome' = "settled" => market'.position = market.position - n)
  <2>1. CASE UNCHANGED market /\ outcome' # "settled"
    BY <1>0, <2>1
  <2>2. CASE /\ n <= market.position
             /\ market' = [Repaid(Folded(market), pull, n) EXCEPT !.position = @ - n]
    <3>1. PICK m : m = Folded(market)
      OBVIOUS
    <3>2. /\ m \in MarketType /\ m.shares = market.shares
          /\ m.position = market.position
      BY <1>0, <3>1, FoldedIs
    <3>3. n <= m.shares
      BY <1>0, <1>1, <2>2, <3>2
    <3>4. PICK x : x = Repaid(m, pull, n)
      OBVIOUS
    <3>5. /\ x \in MarketType /\ x.shares = m.shares - n
          /\ x.position = m.position
      BY <1>1, <3>2, <3>3, <3>4, RepaidIs
    <3>6. PICK w : w = [x EXCEPT !.position = @ - n]
      OBVIOUS
    <3>7. /\ w \in MarketType /\ w.shares = x.shares /\ w.position = x.position - n
      BY <1>1, <2>2, <3>2, <3>5, <3>6, ClearedMarket
    <3>8. market' = w
      BY <2>2, <3>1, <3>4, <3>6
    <3>9. /\ w.shares = market.shares - n
          /\ w.position = market.position - n
      BY <3>2, <3>5, <3>7
    <3>10. w.position <= w.shares
      BY <1>0, <1>1, <3>9
    <3> QED
      BY <3>7, <3>8, <3>9, <3>10
  <2> QED
    BY <1>2, <2>1, <2>2
<1>4. TypeOK'
  BY <1>2, <1>3 DEF QInv, TypeOK, MarketType
<1>5. Held' /\ Asked' /\ Whole' /\ Kept'
  BY <1>2, <1>3 DEF Held, Asked, Whole, Kept
<1>6. RepayAllLeavesNoDebt'
  <2>1. SUFFICES ASSUME method = "all", outcome' = "settled"
                 PROVE  market.position - n = 0
    BY <1>2, <1>3 DEF RepayAllLeavesNoDebt
  <2>2. request.assets = 0 /\ request.shares >= market.position
    BY <1>2, <2>1 DEF QInv, Whole
  <2>3. n = request.shares
    BY <1>1, <2>2 DEF ClearedBy
  <2>4. n <= market.position
    BY <1>2, <2>1
  <2> QED
    BY <1>0, <2>2, <2>3, <2>4
<1> QED
  BY <1>4, <1>5, <1>6 DEF QInv

LEMMA NextQInv == QInv /\ [Next]_vars => QInv'
<1> SUFFICES ASSUME QInv, [Next]_vars PROVE QInv'
  OBVIOUS
<1>1. CASE Quote
  BY <1>1, QuoteQInv
<1>2. CASE Elapse
  BY <1>2, ElapseQInv
<1>3. CASE Others
  BY <1>3, OthersQInv
<1>4. CASE Include
  BY <1>4, IncludeQInv
<1>5. CASE UNCHANGED vars
  BY <1>5 DEF vars, QInv, TypeOK, Held, Asked, Allowed, Whole, Kept, RepayAllLeavesNoDebt
<1> QED
  BY <1>1, <1>2, <1>3, <1>4, <1>5 DEF Next

THEOREM RepayInvariance == Spec => []QInv
BY InitQInv, NextQInv, PTL DEF Spec

(* The state of a repayment keeps its types whatever the markets, the      *)
(* margins and the amounts are: nobody ever clears more shares than he     *)
(* owes.                                                                   *)
THEOREM RepayTypeCorrect == Spec => []TypeOK
<1>1. QInv => TypeOK
  BY DEF QInv
<1> QED
  BY <1>1, RepayInvariance, PTL

(* buildRepayAllSteps: a repayment of everything that goes through leaves  *)
(* no debt, whatever others borrow and repay, for the borrower too, before *)
(* it lands.                                                               *)
THEOREM RepayAllClears == Spec => []RepayAllLeavesNoDebt
<1>1. QInv => RepayAllLeavesNoDebt
  BY DEF QInv
<1> QED
  BY <1>1, RepayInvariance, PTL

-----------------------------------------------------------------------------
(* The price.                                                              *)

LEMMA InitPInv == Init => PInv
BY InitQInv DEF Init, PInv, Covers, Foresees, StarvedOnlyByInterest

LEMMA QuotePInv ==
  VirtualAssets = 1 /\ PInv /\ Quote => Covers'
<1> SUFFICES ASSUME VirtualAssets = 1, PInv, Quote PROVE Covers'
  OBVIOUS
<1>0. /\ market \in MarketType /\ market.shares \in Nat /\ market.assets \in Nat
      /\ market.unfolded \in Nat /\ market.position \in Nat
      /\ market.position <= market.shares
  BY MarketIs DEF PInv
<1>1. CASE QuoteAssets
  <2>1. PICK a \in Amounts : request' = [assets |-> a, shares |-> 0]
    BY <1>1 DEF QuoteAssets, Quoted
  <2>2. request'.assets # 0
    BY <2>1, RepayAssumption
  <2> QED
    BY <2>2 DEF Covers
<1>2. CASE QuoteShares
  <2>1. PICK n \in Shares :
          /\ n <= market.position
          /\ Quoted([assets |-> 0, shares |-> n],
                    ToAssetsUp(n, market.assets, market.shares),
                    SharesToAssetCeiling(n, market), market.unfolded)
    BY <1>2 DEF QuoteShares
  <2>2. n \in Nat
    BY RepayAssumption
  <2>3. PICK b \in Nat : b = ToAssetsUp(n, market.assets, market.shares)
    BY <1>0, <2>2, ToAssetsUpIs
  <2>4. n * (market.assets + VirtualAssets) <= (market.shares + VirtualShares) * b
    BY <1>0, <2>2, <2>3, ToAssetsUpIs
  <2>5. PICK c \in Nat : c = SharesToAssetCeiling(n, market)
    BY <2>3, HeadroomNat DEF SharesToAssetCeiling
  <2>6. /\ request' = [assets |-> 0, shares |-> n] /\ ceiling' = c
        /\ slack' = c - b /\ earned' = market.unfolded /\ market' = market
    BY <2>1, <2>3, <2>5 DEF Quoted
  <2>7. request'.shares = n /\ Allowed' = b + market.unfolded
    BY <1>0, <2>6 DEF Allowed
  <2>8. PICK V \in Nat, T \in Nat :
          V = market.assets + VirtualAssets /\ T = Stock(market) /\ n <= T
    BY <1>0, <2>1, <2>2, PricingAssumption DEF Stock
  <2>9. n * (V + market.unfolded) <= (b + market.unfolded) * T
    BY <1>0, <2>2, <2>4, <2>8, SharesPrice DEF Stock
  <2>10. Value(market) = V + market.unfolded
    BY <1>0, <2>8, PricingAssumption DEF Value
  <2> QED
    BY <2>6, <2>7, <2>8, <2>9, <2>10 DEF Covers
<1>3. CASE QuoteAll
  <2>0. PICK told \in 0..earned :
          Quoted([assets |-> 0, shares |-> market.position],
                 Borrowed(Seen(0), 1, 1) + (IF Diluted(seen) THEN 2 ELSE 1),
                 ExtraRepayAmount(Seen(told)), earned)
    BY <1>3 DEF QuoteAll
  <2>1. PICK c :
          /\ Quoted([assets |-> 0, shares |-> market.position],
                    Borrowed(Seen(0), 1, 1) + (IF Diluted(seen) THEN 2 ELSE 1), c, earned)
          /\ c = ExtraRepayAmount(Seen(told))
    BY <2>0
  <2>2. PICK n \in Nat \ {0} : n = market.position
    BY <1>0, <1>3 DEF QuoteAll
  <2>3. PICK b \in Nat :
          /\ b = Borrowed(Seen(0), 1, 1) + (IF Diluted(seen) THEN 2 ELSE 1)
          /\ b = Figure(n)
    BY <1>3, <2>2, SeenIs DEF PInv
  <2>4. c \in Nat /\ earned \in Nat
    BY <1>3, <2>1, SeenIs, MarketIs DEF PInv
  <2>5. /\ request' = [assets |-> 0, shares |-> n] /\ ceiling' = c
        /\ slack' = c - b /\ earned' = earned /\ market' = market
    BY <2>1, <2>2, <2>3 DEF Quoted
  <2>6. request'.shares = n /\ Allowed' = b + earned
    BY <2>3, <2>4, <2>5 DEF Allowed
  <2>7. outcome = "read"
    BY <1>3 DEF QuoteAll
  <2>8. n * Value(market) <= (b + earned) * Stock(market)
    BY <1>0, <2>2, <2>3, <2>7 DEF PInv, Foresees
  <2> QED
    BY <2>5, <2>6, <2>8 DEF Covers
<1>4. CASE ReadMarket
  BY <1>4 DEF ReadMarket, Covers
<1> QED
  BY <1>1, <1>2, <1>3, <1>4 DEF Quote

(* As the market is read, the figure covers any part of the position.      *)
LEMMA ReadForesees ==
  VirtualAssets = 1 /\ PInv /\ Quote => Foresees'
<1> SUFFICES ASSUME VirtualAssets = 1, PInv, Quote PROVE Foresees'
  OBVIOUS
<1>1. CASE QuoteAssets \/ QuoteShares \/ QuoteAll
  <2>1. outcome' = "quoted"
    BY <1>1 DEF QuoteAssets, QuoteShares, QuoteAll, Quoted
  <2> QED
    BY <2>1 DEF Foresees
<1>2. CASE ReadMarket
  <2>1. seen' = market /\ earned' = 0 /\ market' = market
    BY <1>2 DEF ReadMarket
  <2>2. /\ market \in MarketType /\ market.shares \in Nat /\ market.position \in Nat
        /\ market.position <= market.shares
    BY MarketIs DEF PInv
  <2>3. ASSUME NEW n \in Nat \ {0}, n <= market.position
        PROVE  n * Value(market) <= (Figure(n)' + 0) * Stock(market)
    <3>1. PICK m : m = Holding(market, n)
      OBVIOUS
    <3>2. /\ m \in MarketType /\ m.position = n /\ m.shares = market.shares
          /\ Value(m) = Value(market) /\ Stock(m) = Stock(market)
      BY <2>2, <3>1, HoldingIs
    <3>3. m.shares > 0 /\ m.position <= m.shares
      BY <2>2, <2>3, <3>2
    <3>4. FigureIn(m) \in Nat /\ m.position * Value(m) <= FigureIn(m) * Stock(m)
      BY <3>2, <3>3, FigureIs
    <3>5. Figure(n)' = FigureIn(m)
      BY <2>1, <3>1 DEF Figure
    <3> QED
      BY <3>2, <3>4, <3>5
  <2> QED
    BY <2>1, <2>3 DEF Foresees
<1> QED
  BY <1>1, <1>2 DEF Quote

(* What it says of a part of the position in a market that was read.       *)
LEMMA ForeseesIs ==
  ASSUME PInv, outcome = "read", NEW n \in Nat \ {0}, n <= market.position
  PROVE  /\ Figure(n) \in Nat /\ Figure(n) + earned \in Nat /\ Figure(n) + earned >= 1
         /\ n * Value(market) <= (Figure(n) + earned) * Stock(market)
         /\ n <= market.shares /\ n <= Stock(market)
<1>1. /\ market.shares \in Nat /\ market.position \in Nat
      /\ market.position <= market.shares /\ seen \in MarketType /\ earned \in Nat
      /\ seen.shares \in Nat /\ seen.position \in Nat
  BY MarketIs DEF PInv, MarketType
<1>2. n <= seen.shares /\ seen.shares > 0
  BY <1>1 DEF PInv, QInv, Kept
<1>3. Figure(n) \in Nat /\ Figure(n) >= 1
  BY <1>1, <1>2, HoldingIs, FigureIs DEF Figure
<1>4. n <= Stock(market)
  BY <1>1, PricingAssumption DEF Stock
<1> QED
  BY <1>1, <1>3, <1>4 DEF PInv, Foresees

(* What the invariant says of a call that names shares.                    *)
LEMMA CoversIs ==
  ASSUME PInv, outcome = "quoted", request.assets = 0,
         request.shares <= market.position
  PROVE  /\ request.shares \in Nat /\ Allowed \in Nat /\ Allowed >= 1
         /\ request.shares * Value(market) <= Allowed * Stock(market)
         /\ request.shares <= market.shares
         /\ request.shares <= Stock(market)
<1>1. request.shares \in Nat /\ request.shares <= market.shares
      /\ market.shares \in Nat
  BY MarketIs DEF PInv
<1>2. Allowed \in Int /\ Allowed >= 1
  BY <1>1 DEF PInv, QInv, TypeOK, Asked, Allowed
<1>3. request.shares <= Stock(market)
  BY <1>1, PricingAssumption DEF Stock
<1> QED
  BY <1>1, <1>2, <1>3 DEF PInv, Covers

LEMMA ElapsePInv == PInv /\ Elapse => Covers' /\ Foresees'
<1> SUFFICES ASSUME PInv, Elapse PROVE Covers' /\ Foresees'
  OBVIOUS
<1>1. /\ market \in MarketType /\ market.unfolded \in Nat
      /\ market.assets \in Nat /\ market.shares \in Nat
  BY MarketIs DEF PInv
<1>2. PICK u \in Nat : u = market.unfolded + 1
  BY <1>1
<1>3. /\ market' = [market EXCEPT !.unfolded = u] /\ earned' = earned + 1
      /\ UNCHANGED <<seen, request, ceiling, outcome, slack>>
  BY <1>2 DEF Elapse
<1>4. /\ market'.assets = market.assets /\ market'.shares = market.shares
      /\ market'.unfolded = market.unfolded + 1
      /\ market'.position = market.position
  BY <1>1, <1>2, <1>3 DEF MarketType
<1>5. Value(market') = Value(market) + 1 /\ Stock(market') = Stock(market)
  BY <1>1, <1>4, PricingAssumption DEF Value, Stock
<1>6. Allowed' = Allowed + 1
  <2>1. ceiling \in Nat /\ slack \in Int /\ earned \in Nat
    BY DEF PInv, QInv, TypeOK
  <2> QED
    BY <1>3, <2>1 DEF Allowed
<1>7. ASSUME outcome = "quoted", request.assets = 0,
             request.shares <= market.position
      PROVE  request.shares * Value(market') <= (Allowed + 1) * Stock(market')
  BY <1>1, <1>5, <1>7, CoversIs, SidesNat, InterestPrice
<1>8. Covers'
  BY <1>3, <1>4, <1>6, <1>7 DEF Covers
<1>9. ASSUME outcome = "read", NEW n \in Nat \ {0}, n <= market.position
      PROVE  n * Value(market') <= (Figure(n) + earned + 1) * Stock(market')
  <2>1. PICK c \in Nat :
          /\ c = Figure(n) + earned /\ n <= Stock(market)
          /\ n * Value(market) <= c * Stock(market)
    BY <1>9, ForeseesIs
  <2>2. n * (Value(market) + 1) <= (c + 1) * Stock(market)
    BY <1>1, <2>1, SidesNat, InterestPrice
  <2> QED
    BY <1>5, <2>1, <2>2
<1>10. Foresees'
  <2>1. SUFFICES ASSUME outcome = "read", NEW n \in Nat \ {0}, n <= market.position
                 PROVE  n * Value(market') <= (Figure(n) + earned') * Stock(market')
    BY <1>3, <1>4 DEF Foresees, Figure
  <2>2. earned' = earned + 1 /\ earned \in Nat /\ Figure(n) + earned \in Nat
    BY <1>3, <2>1, ForeseesIs, MarketIs DEF PInv
  <2>3. PICK f \in Nat : f = Figure(n)
    BY <2>1, ForeseesIs
  <2>4. f + earned' = f + earned + 1
    BY <2>2, <2>3
  <2> QED
    BY <1>9, <2>1, <2>3, <2>4
<1> QED
  BY <1>8, <1>10

(* Nothing others do touches the call or the builder's figure; it only     *)
(* leaves the shares worth no more than they were.                         *)
NoDearer(w) ==
  \A n, c \in Nat :
    (n <= w.position /\ c >= 1 /\ n * Value(market) <= c * Stock(market))
      => n * Value(w) <= c * Stock(w)

LEMMA TouchedCall ==
  ASSUME PInv, NEW w \in MarketType, Touched(w), w.position <= market.position, NoDearer(w)
  PROVE  Covers' /\ Foresees'
<1>1. /\ market' = w
      /\ UNCHANGED <<seen, request, ceiling, outcome, slack, earned>>
  BY DEF Touched
<1>2. market.position \in Nat /\ w.position \in Nat
  BY MarketIs DEF PInv, MarketType
<1>3. Covers'
  <2>1. SUFFICES ASSUME outcome = "quoted", request.assets = 0,
                        request.shares <= w.position
                 PROVE  request.shares * Value(w) <= Allowed * Stock(w)
    BY <1>1 DEF Covers, Allowed
  <2>2. request.shares \in Nat
    BY MarketIs DEF PInv
  <2>3. request.shares <= market.position
    BY <1>2, <2>1, <2>2
  <2>4. /\ Allowed \in Nat /\ Allowed >= 1
        /\ request.shares * Value(market) <= Allowed * Stock(market)
    BY <2>1, <2>3, CoversIs
  <2> QED
    BY <2>1, <2>2, <2>4 DEF NoDearer
<1>4. Foresees'
  <2>1. SUFFICES ASSUME outcome = "read", NEW n \in Nat \ {0}, n <= w.position
                 PROVE  n * Value(w) <= (Figure(n) + earned) * Stock(w)
    BY <1>1 DEF Foresees, Figure
  <2>2. n <= market.position
    BY <1>2, <2>1
  <2>3. /\ Figure(n) + earned \in Nat /\ Figure(n) + earned >= 1
        /\ n * Value(market) <= (Figure(n) + earned) * Stock(market)
    BY <2>1, <2>2, ForeseesIs
  <2> QED
    BY <2>1, <2>3 DEF NoDearer
<1> QED
  BY <1>3, <1>4

LEMMA OthersPInv == VirtualAssets = 1 /\ PInv /\ Others => Covers' /\ Foresees'
<1> SUFFICES ASSUME VirtualAssets = 1, PInv, Others PROVE Covers' /\ Foresees'
  OBVIOUS
<1>0. /\ market \in MarketType /\ market.shares \in Nat /\ market.assets \in Nat
      /\ market.unfolded \in Nat /\ market.position \in Nat
      /\ market.position <= market.shares
  BY MarketIs DEF PInv
<1>1. CASE OthersBorrow
  <2>1. PICK a \in Nat, s \in Nat, w \in MarketType :
          /\ Touched(w)
          /\ w.assets = market.assets + market.unfolded + a
          /\ w.shares = market.shares + s /\ w.unfolded = 0
          /\ w.position = market.position
          /\ a * Stock(market) <= Value(market) * s
    BY <1>1, OthersBorrowIs DEF PInv
  <2>2. Value(w) = Value(market) + a /\ Stock(w) = Stock(market) + s
    BY <1>0, <2>1, PricingAssumption DEF Value, Stock
  <2>3. ASSUME NEW n \in Nat, NEW c \in Nat, n * Value(market) <= c * Stock(market)
        PROVE  n * Value(w) <= c * Stock(w)
    <3>1. n * (Value(market) + a) <= c * (Stock(market) + s)
      BY <1>0, <2>1, <2>3, SidesNat, BorrowPrice
    <3> QED
      BY <2>2, <3>1
  <2>4. NoDearer(w)
    BY <2>3 DEF NoDearer
  <2>5. w.position <= market.position
    BY <1>0, <2>1
  <2> QED
    BY <2>1, <2>4, <2>5, TouchedCall
<1>2. CASE OthersRepay \/ OthersRepayOurs
  <2>1. PICK m : m = Folded(market)
    OBVIOUS
  <2>2. PICK k \in Nat, w \in MarketType :
          /\ Touched(w)
          /\ w.assets = Repaid(m, AssetsUp(k, m), k).assets
          /\ k <= market.shares
          /\ w.shares = market.shares - k /\ w.unfolded = 0
          /\ w.position <= w.shares /\ w.position <= market.position
    BY <1>2, <2>1, OthersRepayIs DEF PInv
  <2>3. /\ m \in MarketType /\ m.unfolded = 0 /\ m.shares = market.shares
        /\ Value(m) = Value(market) /\ Stock(m) = Stock(market)
    BY <1>0, <2>1, FoldedIs
  <2>4. ASSUME NEW n \in Nat, NEW c \in Nat, n <= w.position, c >= 1,
               n * Value(market) <= c * Stock(market)
        PROVE  n * Value(w) <= c * Stock(w)
    <3>0. w.position \in Nat /\ w.shares \in Nat
      BY DEF MarketType
    <3>1. n + k <= market.shares
      BY <1>0, <2>2, <2>4, <3>0
    <3>2. n + k <= m.shares /\ n * Value(m) <= c * Stock(m)
          /\ w.shares = m.shares - k
      BY <2>2, <2>3, <2>4, <3>1
    <3> QED
      BY <2>2, <2>3, <2>4, <3>2, OthersClear
  <2>5. NoDearer(w)
    BY <2>4 DEF NoDearer
  <2> QED
    BY <2>2, <2>5, TouchedCall
<1> QED
  BY <1>1, <1>2 DEF Others

LEMMA IncludeStarved == PInv /\ Include => StarvedOnlyByInterest'
<1> SUFFICES ASSUME PInv, Include, outcome' = "starved" PROVE earned > slack
  BY DEF Include, StarvedOnlyByInterest
<1>0. /\ market \in MarketType /\ request \in RequestType
      /\ request.assets \in Nat /\ request.shares \in Nat
  BY MarketIs DEF PInv
<1>1. /\ outcome = "quoted"
      /\ ClearedBy(request, market) <= market.position
      /\ PulledBy(request, market) > ceiling
  BY DEF Include
<1>2. ceiling \in Nat /\ slack \in Int /\ earned \in Nat
  BY DEF PInv, QInv, TypeOK
<1>3. CASE request.assets > 0
  <2>1. PulledBy(request, market) = request.assets /\ ceiling = request.assets
    BY <1>1, <1>3 DEF PulledBy, PInv, QInv, Asked
  <2> QED
    BY <1>0, <1>1, <2>1
<1>4. CASE ~ (request.assets > 0)
  <2>1. request.assets = 0
    BY <1>0, <1>4
  <2>2. /\ ClearedBy(request, market) = request.shares
        /\ PulledBy(request, market) = AssetsUp(request.shares, Folded(market))
    BY <1>4 DEF ClearedBy, PulledBy
  <2>3. PICK n \in Nat, c \in Nat :
          /\ n = request.shares /\ c = Allowed
          /\ n * Value(market) <= c * Stock(market)
    BY <1>1, <2>1, <2>2, CoversIs
  <2>4. PICK V \in Nat \ {0}, T \in Nat \ {0} :
          V = Value(market) /\ T = Stock(market)
    BY <1>0, SidesNat
  <2>5. PulledBy(request, market) = CeilDiv(n * V, T)
    <3>1. PICK m : m = Folded(market)
      OBVIOUS
    <3>2. /\ m \in MarketType /\ m.unfolded = 0
          /\ Value(m) = V /\ Stock(m) = T
      BY <1>0, <2>4, <3>1, FoldedIs
    <3>3. AssetsUp(n, m) = CeilDiv(n * V, T)
      BY <3>2, AssetsUpIs
    <3> QED
      BY <2>2, <2>3, <3>1, <3>3
  <2>6. n * V \in Nat /\ n * V <= T * c
    BY <2>3, <2>4, ProductNat
  <2>7. CeilDiv(n * V, T) <= c
    BY <2>6, CeilLeast
  <2>8. CeilDiv(n * V, T) \in Nat
    BY <2>6, CeilIs
  <2>9. ceiling < ceiling - slack + earned
    BY <1>1, <1>2, <2>3, <2>5, <2>7, <2>8 DEF Allowed
  <2> QED
    BY <1>2, <2>9
<1> QED
  BY <1>3, <1>4

LEMMA NextPInv == VirtualAssets = 1 /\ PInv /\ [Next]_vars => PInv'
<1> SUFFICES ASSUME VirtualAssets = 1, PInv, [Next]_vars PROVE PInv'
  OBVIOUS
<1>0. QInv'
  BY NextQInv DEF PInv
<1>1. CASE Quote
  <2>1. outcome' \in {"read", "quoted"}
    BY <1>1 DEF Quote, QuoteAssets, QuoteShares, ReadMarket, QuoteAll, Quoted
  <2> QED
    BY <1>0, <1>1, <2>1, QuotePInv, ReadForesees DEF PInv, StarvedOnlyByInterest
<1>2. CASE Elapse
  <2>1. outcome' = outcome /\ outcome # "starved"
    BY <1>2 DEF Elapse
  <2> QED
    BY <1>0, <1>2, <2>1, ElapsePInv DEF PInv, StarvedOnlyByInterest
<1>3. CASE Others
  <2>1. outcome' # "starved"
    BY <1>3 DEF Others, OthersBorrow, OthersRepay, OthersRepayOurs, Touched
  <2> QED
    BY <1>0, <1>3, <2>1, OthersPInv DEF PInv, StarvedOnlyByInterest
<1>4. CASE Include
  <2>1. outcome' \notin {"read", "quoted"}
    BY <1>4 DEF Include
  <2> QED
    BY <1>0, <1>4, <2>1, IncludeStarved DEF PInv, Covers, Foresees
<1>5. CASE UNCHANGED vars
  BY <1>0, <1>5 DEF PInv, vars, Covers, Allowed, Foresees, Figure, StarvedOnlyByInterest
<1> QED
  BY <1>1, <1>2, <1>3, <1>4, <1>5 DEF Next

(* sharesToAssetCeiling and buildRepayAllSteps: with the protocol's single *)
(* virtual asset, a repayment finds its allowance too small only if the    *)
(* market earned more interest unseen than the builder's margin, for every *)
(* market, amount and margin, and whatever others borrow and repay in      *)
(* between.                                                                *)
THEOREM StarvedByInterestOnly ==
  ASSUME VirtualAssets = 1
  PROVE  Spec => []StarvedOnlyByInterest
<1>1. PInv /\ [Next]_vars => PInv'
  BY NextPInv
<1>2. PInv => StarvedOnlyByInterest
  BY DEF PInv
<1> QED
  BY <1>1, <1>2, InitPInv, PTL DEF Spec
=============================================================================
