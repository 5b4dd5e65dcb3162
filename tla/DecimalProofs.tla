--------------------------- MODULE DecimalProofs ---------------------------
(***************************************************************************)
(* Proofs about the arithmetic that every figure rests on: quotients,      *)
(* Decimals and the powers they are scaled by, and the sum over an         *)
(* account's loans.                                                        *)
(*                                                                         *)
(* The powers and the sums are defined by recursion.  That such a function *)
(* exists, and what it does at every argument, is shown by an induction    *)
(* stated for a set, so that it takes no operator as a parameter.          *)
(***************************************************************************)
EXTENDS FixedLoan, TLAPS, FiniteSetTheorems, WellFoundedInduction, NaturalsInduction

-----------------------------------------------------------------------------
(* Arithmetic.                                                             *)

LEMMA DivIs ==
  ASSUME NEW x \in Nat, NEW d \in Nat \ {0}
  PROVE  /\ x \div d \in Nat
         /\ d * (x \div d) <= x
         /\ x < d * (x \div d) + d
OBVIOUS

LEMMA Times2 ==
  ASSUME NEW a \in Nat, NEW b \in Int, NEW c \in Int, b <= c
  PROVE  a * b <= a * c
OBVIOUS

LEMMA ProductNat ==
  ASSUME NEW a \in Nat, NEW b \in Nat
  PROVE  a * b \in Nat
OBVIOUS

(* What a positive factor may be taken out of.                             *)
LEMMA CancelLe ==
  ASSUME NEW k \in Nat \ {0}, NEW a \in Int, NEW b \in Int, k * a <= k * b
  PROVE  a <= b
<1>1. SUFFICES ASSUME b + 1 <= a PROVE FALSE
  OBVIOUS
<1>2. k * (b + 1) <= k * a
  BY <1>1, Times2
<1>3. k * (b + 1) = k * b + k
  OBVIOUS
<1> QED
  BY <1>2, <1>3

LEMMA CancelLt ==
  ASSUME NEW k \in Nat \ {0}, NEW a \in Int, NEW b \in Int, k * a < k * b
  PROVE  a < b
<1>1. SUFFICES ASSUME b <= a PROVE FALSE
  OBVIOUS
<1>2. k * b <= k * a
  BY <1>1, Times2
<1> QED
  BY <1>2

(* A quotient is the greatest bound.                                       *)
LEMMA DivMost ==
  ASSUME NEW x \in Nat, NEW d \in Nat \ {0}, NEW q \in Int, d * q <= x
  PROVE  q <= x \div d
<1>1. PICK r \in Nat : r = x \div d /\ x < d * r + d
  BY DivIs
<1>2. d * q < d * (r + 1)
  <2>1. d * (r + 1) = d * r + d
    BY <1>1
  <2> QED
    BY <1>1, <2>1
<1>3. q < r + 1
  BY <1>1, <1>2, CancelLt
<1> QED
  BY <1>1, <1>3

LEMMA DivUnique ==
  ASSUME NEW x \in Nat, NEW d \in Nat \ {0}, NEW q \in Int, d * q <= x, x < d * q + d
  PROVE  q = x \div d
<1>1. PICK r \in Nat : r = x \div d /\ d * r <= x
  BY DivIs
<1>2. q <= r
  BY <1>1, DivMost
<1>3. d * r < d * (q + 1)
  <2>1. d * (q + 1) = d * q + d
    OBVIOUS
  <2> QED
    BY <1>1, <2>1
<1>4. r < q + 1
  BY <1>1, <1>3, CancelLt
<1> QED
  BY <1>1, <1>2, <1>4

LEMMA CeilIs ==
  ASSUME NEW x \in Nat, NEW d \in Nat \ {0}
  PROVE  CeilDiv(x, d) \in Nat /\ x <= d * CeilDiv(x, d)
                               /\ d * CeilDiv(x, d) < x + d
<1>1. x + d - 1 \in Nat
  OBVIOUS
<1>2. CASE x = 0
  BY <1>2 DEF CeilDiv
<1>3. CASE x # 0
  BY <1>1, <1>3, DivIs DEF CeilDiv
<1> QED
  BY <1>2, <1>3

LEMMA CeilNat ==
  ASSUME NEW x \in Nat, NEW d \in Nat \ {0}
  PROVE  CeilDiv(x, d) \in Nat
BY CeilIs

(* Half, rounded up.                                                       *)
LEMMA CeilHalf ==
  ASSUME NEW x \in Nat
  PROVE  /\ CeilDiv(x, 2) \in Nat
         /\ x <= 2 * CeilDiv(x, 2) /\ 2 * CeilDiv(x, 2) < x + 2
<1>1. 2 \in Nat \ {0}
  OBVIOUS
<1> QED
  BY <1>1, CeilIs

(* A quotient rounded up is the least bound ...                            *)
LEMMA CeilLeast ==
  ASSUME NEW x \in Nat, NEW d \in Nat \ {0}, NEW c \in Int, x <= d * c
  PROVE  CeilDiv(x, d) <= c
<1> DEFINE q == CeilDiv(x, d)
<1>1. q \in Nat /\ d * q < x + d
  BY CeilIs
<1> HIDE DEF q
<1>2. d * q < d * (c + 1)
  BY <1>1
<1>3. SUFFICES ASSUME c + 1 <= q PROVE FALSE
  BY <1>1 DEF q
<1>4. d * (c + 1) <= d * q
  BY <1>1, <1>3, Times2
<1> QED
  BY <1>1, <1>2, <1>4

(* ... so it grows with its dividend,                                      *)
LEMMA CeilGrows ==
  ASSUME NEW x \in Nat, NEW y \in Nat, NEW d \in Nat \ {0}, x <= y
  PROVE  CeilDiv(x, d) <= CeilDiv(y, d)
<1> DEFINE q == CeilDiv(y, d)
<1>1. q \in Nat /\ y <= d * q
  BY CeilIs
<1> HIDE DEF q
<1>2. d * q \in Int
  BY <1>1
<1>3. x <= d * q
  BY <1>1, <1>2
<1>4. CeilDiv(x, d) <= q
  BY <1>1, <1>3, CeilLeast
<1> QED
  BY <1>4 DEF q

(* rounds two parts up no less than their sum,                             *)
LEMMA CeilSum ==
  ASSUME NEW x \in Nat, NEW y \in Nat, NEW d \in Nat \ {0}
  PROVE  CeilDiv(x + y, d) <= CeilDiv(x, d) + CeilDiv(y, d)
<1>1. PICK p \in Nat, q \in Nat :
        p = CeilDiv(x, d) /\ q = CeilDiv(y, d) /\ x <= d * p /\ y <= d * q
  BY CeilIs
<1>2. x + y <= d * (p + q)
  BY <1>1
<1>3. CeilDiv(x + y, d) <= p + q
  BY <1>1, <1>2, CeilLeast
<1> QED
  BY <1>1, <1>3

(* and gains all of a multiple.                                            *)
LEMMA CeilGains ==
  ASSUME NEW x \in Nat, NEW y \in Nat, NEW d \in Nat \ {0}, NEW g \in Nat,
         d * g <= y
  PROVE  CeilDiv(x, d) + g <= CeilDiv(x + y, d)
<1>0. x + y \in Nat
  OBVIOUS
<1>1. PICK q \in Nat : q = CeilDiv(x + y, d) /\ x + y <= d * q
  BY <1>0, CeilIs
<1>2. x <= d * (q - g)
  <2>1. d * (q - g) = d * q - d * g
    BY <1>1
  <2>2. d * q \in Int /\ d * g \in Int
    BY <1>1
  <2> QED
    BY <1>1, <2>1, <2>2
<1>3. CeilDiv(x, d) <= q - g
  BY <1>1, <1>2, CeilLeast
<1>4. CeilDiv(x, d) \in Nat
  BY CeilIs
<1> QED
  BY <1>1, <1>3, <1>4

LEMMA HalfIs ==
  ASSUME NEW x \in Nat, NEW y \in Nat, NEW g \in Nat, x <= y + 2 * g
  PROVE  /\ CeilDiv(x, 2) \in Nat
         /\ CeilDiv(x, 2) <= CeilDiv(y, 2) + g
<1>1. PICK p \in Nat, q \in Nat :
        p = CeilDiv(x, 2) /\ q = CeilDiv(y, 2)
        /\ 2 * p < x + 2 /\ y <= 2 * q
  BY CeilHalf
<1> QED
  BY <1>1

LEMMA HalfLess ==
  ASSUME NEW x \in Nat, NEW y \in Nat, NEW g \in Nat, x + 2 * g <= y
  PROVE  CeilDiv(x, 2) + g <= CeilDiv(y, 2)
<1>1. PICK p \in Nat, q \in Nat :
        p = CeilDiv(x, 2) /\ q = CeilDiv(y, 2)
        /\ 2 * p < x + 2 /\ y <= 2 * q
  BY CeilHalf
<1> QED
  BY <1>1

-----------------------------------------------------------------------------
(* Induction: a set that holds zero and with each number the next holds    *)
(* them all.                                                               *)
LEMMA SetInduction ==
  ASSUME NEW T, 0 \in T, \A n \in Nat : n \in T => n + 1 \in T
  PROVE  Nat \subseteq T
<1>1. SUFFICES ASSUME Nat \ T # {} PROVE FALSE
  OBVIOUS
<1>2. IsWellFoundedOn(OpToRel(<, Nat), Nat)
  BY NatLessThanWellFounded
<1>3. \E x \in Nat \ T : \A y \in Nat \ T : ~(<<y, x>> \in OpToRel(<, Nat))
  BY <1>1, <1>2, WFMin, Zenon
<1>4. PICK x \in Nat \ T : \A y \in Nat \ T : ~(<<y, x>> \in OpToRel(<, Nat))
  BY <1>3, Zenon
<1>5. x \in Nat /\ x # 0
  BY <1>4
<1>6. PICK p \in Nat : x = p + 1
  <2>1. x - 1 \in Nat /\ x = (x - 1) + 1
    BY <1>5
  <2> QED
    BY <2>1
<1>7. <<p, x>> \in OpToRel(<, Nat)
  BY <1>4, <1>6 DEF OpToRel
<1>8. p \in T
  BY <1>4, <1>7
<1> QED
  BY <1>4, <1>6, <1>8

-----------------------------------------------------------------------------
(* Powers of the base.                                                     *)

PowersUpTo(f, n) ==
  /\ f \in [0 .. n -> Nat \ {0}]
  /\ f[0] = 1
  /\ \A k \in 0 .. n : k # 0 => f[k] = Base * f[k - 1]

LEMMA PowersExist ==
  ASSUME NEW n \in Nat
  PROVE  \E f : PowersUpTo(f, n)
<1> DEFINE T == {m \in Nat : \E f : PowersUpTo(f, m)}
<1>1. 0 \in T
  <2> DEFINE f == [k \in 0 .. 0 |-> 1]
  <2>1. PowersUpTo(f, 0)
    BY DEF PowersUpTo
  <2> QED
    BY <2>1
<1>2. ASSUME NEW m \in Nat, m \in T PROVE m + 1 \in T
  <2>1. PICK f : PowersUpTo(f, m)
    BY <1>2
  <2>2. f[m] \in Nat \ {0} /\ f \in [0 .. m -> Nat \ {0}]
    BY <2>1 DEF PowersUpTo
  <2>3. PICK p \in Nat \ {0} : p = Base * f[m]
    BY <2>2, DigitsAssumption
  <2> DEFINE g == [k \in 0 .. m + 1 |-> IF k = m + 1 THEN p ELSE f[k]]
  <2>4. g \in [0 .. m + 1 -> Nat \ {0}]
    BY <2>2
  <2>5. g[0] = 1
    BY <2>1 DEF PowersUpTo
  <2>6. ASSUME NEW k \in 0 .. m + 1, k # 0 PROVE g[k] = Base * g[k - 1]
    <3>1. CASE k = m + 1
      BY <3>1, <2>3
    <3>2. CASE k # m + 1
      BY <3>2, <2>1, <2>6 DEF PowersUpTo
    <3> QED
      BY <3>1, <3>2
  <2>7. PowersUpTo(g, m + 1)
    BY <2>4, <2>5, <2>6 DEF PowersUpTo
  <2> QED
    BY <2>7
<1>3. Nat \subseteq T
  <2> HIDE DEF T
  <2> QED
    BY <1>1, <1>2, SetInduction
<1> QED
  BY <1>3

LEMMA PowersAgree ==
  ASSUME NEW m \in Nat, NEW n \in Nat, NEW f, NEW g,
         PowersUpTo(f, m), PowersUpTo(g, n)
  PROVE  \A k \in Nat : k <= m /\ k <= n => f[k] = g[k]
<1> DEFINE T == {k \in Nat : k <= m /\ k <= n => f[k] = g[k]}
<1>1. 0 \in T
  BY DEF PowersUpTo
<1>2. ASSUME NEW k \in Nat, k \in T PROVE k + 1 \in T
  BY <1>2 DEF PowersUpTo
<1>3. Nat \subseteq T
  <2> HIDE DEF T
  <2> QED
    BY <1>1, <1>2, SetInduction
<1> QED
  BY <1>3

LEMMA ScaleIs ==
  /\ Scale \in [Nat -> Nat \ {0}]
  /\ Scale[0] = 1
  /\ \A k \in Nat : Scale[k + 1] = Base * Scale[k]
<1> DEFINE F(n) == CHOOSE f : PowersUpTo(f, n)
           g == [k \in Nat |-> F(k)[k]]
<1>1. ASSUME NEW n \in Nat PROVE PowersUpTo(F(n), n)
  BY PowersExist, Zenon
<1>2. g[0] = 1 /\ \A k \in Nat : g[k] \in Nat \ {0}
  <2> HIDE DEF F
  <2>1. g[0] = 1
    BY <1>1 DEF PowersUpTo
  <2>2. ASSUME NEW k \in Nat PROVE g[k] \in Nat \ {0}
    BY <1>1 DEF PowersUpTo
  <2> QED
    BY <2>1, <2>2
<1>3. ASSUME NEW k \in Nat PROVE g[k + 1] = Base * g[k]
  <2> HIDE DEF F
  <2>1. PowersUpTo(F(k), k) /\ PowersUpTo(F(k + 1), k + 1)
    BY <1>1
  <2>2. F(k + 1)[k + 1] = Base * F(k + 1)[k]
    BY <2>1 DEF PowersUpTo
  <2>3. F(k + 1)[k] = F(k)[k]
    <3>1. k + 1 \in Nat /\ k <= k /\ k <= k + 1
      OBVIOUS
    <3> QED
      BY <2>1, <3>1, PowersAgree
  <2> QED
    BY <2>2, <2>3
<1>4. g = [k \in Nat |-> IF k = 0 THEN 1 ELSE Base * g[k - 1]]
  <2> HIDE DEF g
  <2>1. g = [k \in Nat |-> g[k]]
    BY DEF g
  <2>2. ASSUME NEW k \in Nat PROVE g[k] = IF k = 0 THEN 1 ELSE Base * g[k - 1]
    <3>1. CASE k = 0
      BY <3>1, <1>2
    <3>2. CASE k # 0
      <4>1. PICK j \in Nat : k = j + 1
        BY <3>2
      <4> QED
        BY <3>2, <4>1, <1>3
    <3> QED
      BY <3>1, <3>2
  <2> QED
    BY <2>1, <2>2
<1>5. Scale = [k \in Nat |-> IF k = 0 THEN 1 ELSE Base * Scale[k - 1]]
  <2> HIDE DEF g
  <2> QED
    BY <1>4, Zenon DEF Scale
<1>6. Scale[0] = 1 /\ \A k \in Nat : Scale[k + 1] = Base * Scale[k]
  <2>1. Scale[0] = 1
    BY <1>5
  <2>2. ASSUME NEW k \in Nat PROVE Scale[k + 1] = Base * Scale[k]
    <3>1. Scale[k + 1] = IF k + 1 = 0 THEN 1 ELSE Base * Scale[(k + 1) - 1]
      <4>1. k + 1 \in Nat
        OBVIOUS
      <4> QED
        BY <4>1, <1>5
    <3>2. k + 1 # 0 /\ (k + 1) - 1 = k
      OBVIOUS
    <3> QED
      BY <3>1, <3>2
  <2> QED
    BY <2>1, <2>2
<1>7. \A k \in Nat : Scale[k] \in Nat \ {0}
  <2> DEFINE T == {k \in Nat : Scale[k] \in Nat \ {0}}
  <2>1. 0 \in T
    BY <1>6
  <2>2. ASSUME NEW k \in Nat, k \in T PROVE k + 1 \in T
    BY <1>6, <2>2, DigitsAssumption
  <2>3. Nat \subseteq T
    <3> HIDE DEF T
    <3> QED
      BY <2>1, <2>2, SetInduction
  <2> QED
    BY <2>3
<1> QED
  BY <1>5, <1>6, <1>7

LEMMA ScaleSum ==
  ASSUME NEW a \in Nat, NEW b \in Nat
  PROVE  Scale[a + b] = Scale[a] * Scale[b]
<1> DEFINE T == {k \in Nat : Scale[a + k] = Scale[a] * Scale[k]}
<1>1. 0 \in T
  BY ScaleIs
<1>2. ASSUME NEW k \in Nat, k \in T PROVE k + 1 \in T
  <2>1. PICK s \in Nat, t \in Nat, u \in Nat :
          s = Scale[a] /\ t = Scale[k] /\ u = Scale[a + k] /\ u = s * t
    BY <1>2, ScaleIs
  <2>2. Scale[k + 1] = Base * t /\ Scale[a + (k + 1)] = Base * u
    <3>1. a + (k + 1) = (a + k) + 1 /\ a + k \in Nat
      OBVIOUS
    <3> QED
      BY <2>1, <3>1, ScaleIs
  <2>3. Base * (s * t) = s * (Base * t)
    BY <2>1, DigitsAssumption
  <2> QED
    BY <2>1, <2>2, <2>3
<1>3. Nat \subseteq T
  <2> HIDE DEF T
  <2> QED
    BY <1>1, <1>2, SetInduction
<1> QED
  BY <1>3
-----------------------------------------------------------------------------
(* Sums of functions over finite sets.                                     *)

First(s) == CHOOSE x \in s : TRUE
Smaller(S, n) == {s \in SUBSET S : Cardinality(s) <= n}

IsSum(f, F, U) ==
  f = [s \in U |-> IF s = {} THEN 0 ELSE F[First(s)] + f[s \ {First(s)}]]

LEMMA FirstIs ==
  ASSUME NEW S, IsFiniteSet(S), NEW s \in SUBSET S
  PROVE  /\ Cardinality(s) \in Nat
         /\ s = {} <=> Cardinality(s) = 0
         /\ s # {} => /\ First(s) \in s /\ s \ {First(s)} \in SUBSET S
                      /\ Cardinality(s \ {First(s)}) = Cardinality(s) - 1
<1>1. IsFiniteSet(s)
  BY FS_Subset
<1>2. Cardinality(s) \in Nat /\ (s = {} <=> Cardinality(s) = 0)
  BY <1>1, FS_CardinalityType, FS_EmptySet
<1>3. ASSUME s # {} PROVE First(s) \in s
  BY <1>3 DEF First
<1>4. ASSUME s # {} PROVE Cardinality(s \ {First(s)}) = Cardinality(s) - 1
  BY <1>1, <1>3, <1>4, FS_RemoveElement
<1> QED
  BY <1>2, <1>3, <1>4

LEMMA SmallerIs ==
  ASSUME NEW S, IsFiniteSet(S), NEW n \in Nat
  PROVE  /\ \A s \in Smaller(S, 0) : s \in SUBSET S /\ s = {}
         /\ \A s \in Smaller(S, n) : s \in Smaller(S, n + 1)
         /\ \A s \in Smaller(S, n + 1) :
              /\ s \in SUBSET S
              /\ s # {} => First(s) \in S /\ s \ {First(s)} \in Smaller(S, n)
<1>1. \A m : \A s \in Smaller(S, m) : s \in SUBSET S /\ Cardinality(s) <= m
  BY DEF Smaller
<1>2. \A m : \A s \in SUBSET S : Cardinality(s) <= m => s \in Smaller(S, m)
  BY DEF Smaller
<1>3. ASSUME NEW s \in Smaller(S, 0) PROVE s = {}
  <2>1. s \in SUBSET S /\ Cardinality(s) <= 0
    BY <1>1
  <2>2. Cardinality(s) \in Nat /\ (s = {} <=> Cardinality(s) = 0)
    BY <2>1, FirstIs
  <2> QED
    BY <2>1, <2>2
<1>4. ASSUME NEW s \in Smaller(S, n) PROVE s \in Smaller(S, n + 1)
  <2>1. s \in SUBSET S /\ Cardinality(s) <= n
    BY <1>1
  <2>2. Cardinality(s) \in Nat
    BY <2>1, FirstIs
  <2> QED
    BY <1>2, <2>1, <2>2
<1>5. ASSUME NEW s \in Smaller(S, n + 1), s # {}
      PROVE  First(s) \in S /\ s \ {First(s)} \in Smaller(S, n)
  <2>1. s \in SUBSET S /\ Cardinality(s) <= n + 1
    BY <1>1
  <2>2. /\ Cardinality(s) \in Nat /\ First(s) \in s /\ s \ {First(s)} \in SUBSET S
        /\ Cardinality(s \ {First(s)}) = Cardinality(s) - 1
    BY <1>5, <2>1, FirstIs
  <2>3. Cardinality(s \ {First(s)}) <= n
    BY <2>1, <2>2
  <2> QED
    BY <1>2, <2>1, <2>2, <2>3
<1> QED
  BY <1>1, <1>3, <1>4, <1>5

LEMMA SumsExist ==
  ASSUME NEW S, IsFiniteSet(S), NEW F \in [S -> Int]
  PROVE  \E f : IsSum(f, F, SUBSET S)
<1> DEFINE T == {n \in Nat : \E f \in [Smaller(S, n) -> Int] : IsSum(f, F, Smaller(S, n))}
<1>1. 0 \in T
  <2> DEFINE f == [s \in Smaller(S, 0) |-> 0]
  <2>1. ASSUME NEW s \in Smaller(S, 0) PROVE s = {}
    BY SmallerIs
  <2>2. IsSum(f, F, Smaller(S, 0))
    BY <2>1 DEF IsSum
  <2>3. f \in [Smaller(S, 0) -> Int]
    OBVIOUS
  <2> QED
    BY <2>2, <2>3
<1>2. ASSUME NEW n \in Nat, n \in T PROVE n + 1 \in T
  <2>1. PICK f \in [Smaller(S, n) -> Int] : IsSum(f, F, Smaller(S, n))
    BY <1>2
  <2> DEFINE U == Smaller(S, n + 1)
             g == [s \in U |-> IF s = {} THEN 0 ELSE F[First(s)] + f[s \ {First(s)}]]
  <2>2. ASSUME NEW s \in U, s # {}
        PROVE  s \ {First(s)} \in Smaller(S, n) /\ First(s) \in S
    BY <2>2, SmallerIs
  <2>3. ASSUME NEW s \in Smaller(S, n) PROVE s \in U /\ g[s] = f[s]
    <3>1. s \in U
      BY SmallerIs
    <3>2. f[s] = IF s = {} THEN 0 ELSE F[First(s)] + f[s \ {First(s)}]
      BY <2>1 DEF IsSum
    <3> QED
      BY <3>1, <3>2
  <2>4. g \in [U -> Int]
    BY <2>1, <2>2
  <2>5. IsSum(g, F, U)
    <3> HIDE DEF g, U
    <3>1. ASSUME NEW s \in U, s # {} PROVE g[s \ {First(s)}] = f[s \ {First(s)}]
      BY <2>2, <2>3, <3>1
    <3>2. g = [s \in U |-> g[s]] /\ \A s \in U :
             g[s] = IF s = {} THEN 0 ELSE F[First(s)] + f[s \ {First(s)}]
      BY DEF g
    <3>3. \A s \in U : g[s] = IF s = {} THEN 0 ELSE F[First(s)] + g[s \ {First(s)}]
      BY <3>1, <3>2
    <3> QED
      BY <3>2, <3>3 DEF IsSum
  <2>6. \E h \in [Smaller(S, n + 1) -> Int] : IsSum(h, F, Smaller(S, n + 1))
    <3> HIDE DEF g
    <3> QED
      BY <2>4, <2>5
  <2> QED
    BY <2>6
<1>3. Nat \subseteq T
  <2> HIDE DEF T
  <2> QED
    BY <1>1, <1>2, SetInduction
<1>4. Smaller(S, Cardinality(S)) = SUBSET S
  BY FS_Subset, FS_CardinalityType DEF Smaller
<1>5. Cardinality(S) \in Nat
  BY FS_CardinalityType
<1> QED
  BY <1>3, <1>4, <1>5

LEMMA SumIs ==
  ASSUME NEW S, IsFiniteSet(S), NEW F \in [S -> Int]
  PROVE  \E f : IsSum(f, F, SUBSET S) /\ SumFunction(F) = f[S]
<1> DEFINE f == CHOOSE g : IsSum(g, F, SUBSET S)
<1>1. IsSum(f, F, SUBSET S)
  BY SumsExist, Zenon
<1>2. DOMAIN F = S
  OBVIOUS
<1>3. SumFunctionOnSet(F, S) = f[S]
  BY Zenon DEF SumFunctionOnSet, FoldFunctionOnSet, MapThenFoldSet, IsSum, First
<1> QED
  BY <1>1, <1>2, <1>3 DEF SumFunction

LEMMA SumsGrow ==
  ASSUME NEW S, IsFiniteSet(S), NEW F \in [S -> Int], NEW G \in [S -> Int],
         \A i \in S : F[i] <= G[i]
  PROVE  SumFunction(F) \in Int /\ SumFunction(G) \in Int /\ SumFunction(F) <= SumFunction(G)
<1>1. PICK f : IsSum(f, F, SUBSET S) /\ SumFunction(F) = f[S]
  BY SumIs
<1>2. PICK g : IsSum(g, G, SUBSET S) /\ SumFunction(G) = g[S]
  BY SumIs
<1> DEFINE T == {n \in Nat : \A s \in Smaller(S, n) :
                   f[s] \in Int /\ g[s] \in Int /\ f[s] <= g[s]}
<1>3. ASSUME NEW s \in SUBSET S
      PROVE  /\ f[s] = IF s = {} THEN 0 ELSE F[First(s)] + f[s \ {First(s)}]
             /\ g[s] = IF s = {} THEN 0 ELSE G[First(s)] + g[s \ {First(s)}]
  BY <1>1, <1>2 DEF IsSum
<1>4. 0 \in T
  <2>1. ASSUME NEW s \in Smaller(S, 0)
        PROVE  f[s] \in Int /\ g[s] \in Int /\ f[s] <= g[s]
    <3>1. s \in SUBSET S /\ s = {}
      BY SmallerIs
    <3>2. f[s] = 0 /\ g[s] = 0
      BY <1>3, <3>1
    <3> QED
      BY <3>2
  <2> QED
    BY <2>1
<1>5. ASSUME NEW n \in Nat, n \in T PROVE n + 1 \in T
  <2>1. ASSUME NEW s \in Smaller(S, n + 1)
        PROVE  f[s] \in Int /\ g[s] \in Int /\ f[s] <= g[s]
    <3>1. s \in SUBSET S
      BY SmallerIs
    <3>2. CASE s = {}
      <4>1. f[s] = 0 /\ g[s] = 0
        BY <1>3, <3>1, <3>2
      <4> QED
        BY <4>1
    <3>3. CASE s # {}
      <4> DEFINE x == First(s)
                 r == s \ {x}
      <4>1. x \in S /\ r \in Smaller(S, n)
        BY <3>3, SmallerIs
      <4>2. f[s] = F[x] + f[r] /\ g[s] = G[x] + g[r]
        BY <1>3, <3>1, <3>3
      <4> HIDE DEF r, x
      <4>3. F[x] \in Int /\ G[x] \in Int /\ F[x] <= G[x]
        BY <4>1
      <4>4. f[r] \in Int /\ g[r] \in Int /\ f[r] <= g[r]
        BY <1>5, <4>1
      <4> QED
        BY <4>2, <4>3, <4>4
    <3> QED
      BY <3>2, <3>3
  <2> QED
    BY <2>1
<1>6. Nat \subseteq T
  <2> HIDE DEF T
  <2> QED
    BY <1>4, <1>5, SetInduction
<1>7. S \in Smaller(S, Cardinality(S)) /\ Cardinality(S) \in Nat
  BY FS_CardinalityType DEF Smaller
<1> QED
  BY <1>1, <1>2, <1>6, <1>7
-----------------------------------------------------------------------------
(* Decimals.                                                               *)

LEMMA QuotIs ==
  ASSUME NEW a \in Int, NEW b \in Nat \ {0}
  PROVE  /\ Quot(a, b) \in Int
         /\ a >= 0 => Quot(a, b) = a \div b /\ Quot(a, b) \in Nat
<1>1. CASE a >= 0
  <2>1. a \div b \in Nat
    BY <1>1
  <2> QED
    BY <1>1, <2>1 DEF Quot
<1>2. CASE a < 0
  <2>1. (-a) \div b \in Nat
    BY <1>2
  <2> QED
    BY <1>2, <2>1 DEF Quot
<1> QED
  BY <1>1, <1>2

LEMMA MoreDigitsIs ==
  ASSUME NEW x \in Decimal, NEW y \in Decimal
  PROVE  /\ MoreDigits(x, y) \in Nat
         /\ MoreDigits(x, y) - x.d \in Nat /\ MoreDigits(x, y) - y.d \in Nat
<1>1. x.d \in Nat /\ y.d \in Nat
  BY DEF Decimal
<1> QED
  BY <1>1 DEF MoreDigits

LEMMA AlignedIs ==
  ASSUME NEW x \in Decimal, NEW k \in Nat, k - x.d \in Nat
  PROVE  Aligned(x, k) \in Int /\ (x.n >= 0 => Aligned(x, k) >= x.n)
<1>1. PICK s \in Nat \ {0} : s = Scale[k - x.d]
  BY ScaleIs
<1>2. PICK n \in Int : n = x.n
  BY DEF Decimal
<1>3. n >= 0 => n * s >= n
  <2>1. n >= 0 => n * s >= n * 1
    BY <1>1, <1>2, Times2
  <2> QED
    BY <1>2, <2>1
<1> QED
  BY <1>1, <1>2, <1>3 DEF Aligned

(* What the operations return, and that none of them makes two figures     *)
(* that are not negative one that is.                                      *)
LEMMA PlusIs ==
  ASSUME NEW x \in Decimal, NEW y \in Decimal
  PROVE  /\ Plus(x, y) \in Decimal /\ Plus(x, y).d = MoreDigits(x, y)
         /\ x.n >= 0 /\ y.n >= 0 => Plus(x, y).n >= 0
<1>1. PICK d \in Nat : d = MoreDigits(x, y) /\ d - x.d \in Nat /\ d - y.d \in Nat
  BY MoreDigitsIs
<1>2. PICK a \in Int, b \in Int :
        /\ a = Aligned(x, d) /\ b = Aligned(y, d)
        /\ x.n >= 0 => a >= x.n
        /\ y.n >= 0 => b >= y.n
  BY <1>1, AlignedIs
<1>3. x.n \in Int /\ y.n \in Int
  BY DEF Decimal
<1>4. Plus(x, y) = [n |-> a + b, d |-> d]
  BY <1>1, <1>2 DEF Plus, Dec
<1> QED
  BY <1>1, <1>2, <1>3, <1>4 DEF Decimal

LEMMA MinusIs ==
  ASSUME NEW x \in Decimal, NEW y \in Decimal
  PROVE  Minus(x, y) \in Decimal /\ Minus(x, y).d = MoreDigits(x, y)
<1>1. PICK d \in Nat : d = MoreDigits(x, y) /\ d - x.d \in Nat /\ d - y.d \in Nat
  BY MoreDigitsIs
<1>2. PICK a \in Int, b \in Int : a = Aligned(x, d) /\ b = Aligned(y, d)
  BY <1>1, AlignedIs
<1>3. Minus(x, y) = [n |-> a - b, d |-> d]
  BY <1>1, <1>2 DEF Minus, Dec
<1> QED
  BY <1>1, <1>2, <1>3 DEF Decimal

LEMMA TimesIs ==
  ASSUME NEW x \in Decimal, NEW y \in Decimal
  PROVE  /\ Times(x, y) \in Decimal
         /\ Times(x, y).n = x.n * y.n /\ Times(x, y).d = x.d + y.d
         /\ x.n >= 0 /\ y.n >= 0 => Times(x, y).n >= 0
<1>1. PICK a \in Int, b \in Int : a = x.n /\ b = y.n
  BY DEF Decimal
<1>2. a * b \in Int /\ (a >= 0 /\ b >= 0 => a * b >= 0)
  BY <1>1
<1>3. x.d + y.d \in Nat
  BY DEF Decimal
<1> QED
  BY <1>1, <1>2, <1>3 DEF Times, Dec, Decimal

LEMMA OverIs ==
  ASSUME NEW x \in Decimal, NEW y \in Decimal, y.n > 0
  PROVE  /\ Over(x, y) \in Decimal /\ Over(x, y).d = x.d + y.d
         /\ x.n >= 0 => Over(x, y).n >= 0
<1>1. PICK a \in Int, b \in Nat \ {0} : a = x.n /\ b = y.n
  BY DEF Decimal
<1>2. PICK s \in Nat \ {0} : s = Scale[y.d]
  BY ScaleIs DEF Decimal
<1>3. PICK c \in Int : c = a * s * s /\ (a >= 0 => c >= 0)
  <2>1. a * s \in Int /\ (a >= 0 => a * s >= 0)
    BY <1>1, <1>2
  <2>2. PICK e \in Int : e = a * s
    BY <2>1
  <2>3. e * s \in Int /\ (e >= 0 => e * s >= 0)
    BY <1>2, <2>2
  <2> QED
    BY <2>1, <2>2, <2>3
<1>4. Quot(c, b) \in Int /\ (c >= 0 => Quot(c, b) \in Nat)
  BY <1>1, <1>3, QuotIs
<1>5. Over(x, y) = [n |-> Quot(c, b), d |-> x.d + y.d]
  BY <1>1, <1>2, <1>3 DEF Over, Dec
<1>6. x.d + y.d \in Nat
  BY DEF Decimal
<1> QED
  BY <1>1, <1>3, <1>4, <1>5, <1>6 DEF Decimal

LEMMA RoundDownIs ==
  ASSUME NEW x \in Decimal, NEW k \in Nat
  PROVE  /\ RoundDown(x, k) \in Decimal /\ RoundDown(x, k).d = k
         /\ x.n >= 0 => RoundDown(x, k).n >= 0
         /\ Raw(x, k) \in Int /\ (x.n >= 0 => Raw(x, k) \in Nat)
<1>1. x.d \in Nat /\ x.n \in Int
  BY DEF Decimal
<1>2. CASE k < x.d
  <2>1. x.d - k \in Nat
    BY <1>1, <1>2
  <2>2. PICK s \in Nat \ {0} : s = Scale[x.d - k]
    BY <2>1, ScaleIs
  <2>3. Quot(x.n, s) \in Int /\ (x.n >= 0 => Quot(x.n, s) \in Nat)
    BY <1>1, <2>2, QuotIs
  <2>4. RoundDown(x, k) = [n |-> Quot(x.n, s), d |-> k]
    BY <1>2, <2>2 DEF RoundDown, Dec
  <2> QED
    BY <1>1, <2>3, <2>4 DEF Decimal, Raw
<1>3. CASE x.d <= k
  <2>1. k - x.d \in Nat /\ ~(k < x.d)
    BY <1>1, <1>3
  <2>2. PICK a \in Int : a = Aligned(x, k) /\ (x.n >= 0 => a >= x.n)
    BY <2>1, AlignedIs
  <2>3. RoundDown(x, k) = [n |-> a, d |-> k]
    BY <2>1, <2>2 DEF RoundDown, Dec
  <2> QED
    BY <1>1, <2>2, <2>3 DEF Decimal, Raw
<1> QED
  BY <1>1, <1>2, <1>3

(* A figure to which something is added, and that is then cut to k digits, *)
(* has lost less than a unit of the k-th.                                  *)
LEMMA CutKeeps ==
  ASSUME NEW x \in Decimal, NEW y \in Decimal, x.n >= 0, y.n >= 0,
         NEW k \in Nat, k <= x.d
  PROVE  /\ Raw(Plus(x, y), k) \in Nat /\ Scale[x.d - k] \in Nat \ {0}
         /\ Raw(Plus(x, y), k) * Scale[x.d - k] >= x.n - Scale[x.d - k] + 1
<1>1. x.n \in Nat /\ y.n \in Nat /\ x.d \in Nat /\ x.d - k \in Nat
  BY DEF Decimal
<1>2. PICK d \in Nat : d = MoreDigits(x, y) /\ d - x.d \in Nat /\ d - y.d \in Nat
  BY MoreDigitsIs
<1>3. PICK S \in Nat \ {0}, t \in Nat \ {0} : S = Scale[x.d - k] /\ t = Scale[d - x.d]
  BY <1>1, <1>2, ScaleIs
<1>4. PICK b \in Nat : b = Aligned(y, d)
  BY <1>1, <1>2, AlignedIs
<1>5. PICK n \in Nat : n = x.n * t + b
  BY <1>1, <1>3, <1>4
<1>6. Plus(x, y) = [n |-> n, d |-> d] /\ Plus(x, y) \in Decimal
  BY <1>2, <1>3, <1>4, <1>5, PlusIs DEF Plus, Dec, Aligned
<1>7. PICK q \in Nat : q = Raw(Plus(x, y), k)
  <2>1. Plus(x, y).n >= 0
    BY <1>5, <1>6
  <2> QED
    BY <1>6, <2>1, RoundDownIs
<1>8. x.n < S * q + S
  <2>1. CASE k < d
    <3>1. Scale[d - k] = S * t
      <4>1. PICK e \in Nat, f \in Nat : e = x.d - k /\ f = d - x.d
        BY <1>1, <1>2
      <4>2. d - k = e + f
        BY <1>1, <1>2, <4>1
      <4>3. Scale[e + f] = Scale[e] * Scale[f]
        BY ScaleSum
      <4> QED
        BY <1>3, <4>1, <4>2, <4>3
    <3>2. PICK u \in Nat \ {0} : u = S * t
      BY <1>3
    <3>3. q = n \div u
      <4>1. q = Quot(n, u)
        BY <1>6, <1>7, <2>1, <3>1, <3>2 DEF Raw, RoundDown, Dec
      <4>2. n >= 0 /\ n \in Int
        BY <1>5
      <4> QED
        BY <3>2, <4>1, <4>2, QuotIs
    <3>4. n < u * q + u
      BY <1>5, <3>2, <3>3, DivIs
    <3>5. u * q + u = t * (S * q + S)
      BY <1>3, <1>7, <3>2
    <3>6. t * x.n < t * (S * q + S)
      BY <1>1, <1>3, <1>4, <1>5, <3>4, <3>5
    <3>7. SUFFICES ASSUME S * q + S <= x.n PROVE FALSE
      BY <1>1, <1>3, <1>7
    <3>8. S * q + S \in Int
      BY <1>3, <1>7
    <3>9. t * (S * q + S) <= t * x.n
      BY <1>1, <1>3, <3>7, <3>8, Times2
    <3> QED
      BY <1>1, <1>3, <3>6, <3>8, <3>9
  <2>2. CASE d <= k
    <3>1. k = x.d /\ d = x.d
      BY <1>1, <1>2, <2>2
    <3>2. S = 1 /\ t = 1
      BY <1>1, <1>3, <3>1, ScaleIs
    <3>3. q = n
      <4>1. k - d = 0 /\ ~(k < d)
        BY <1>1, <3>1
      <4>2. Scale[k - d] = 1
        BY <4>1, ScaleIs
      <4>3. q = n * Scale[k - d]
        BY <1>6, <1>7, <4>1 DEF Raw, RoundDown, Dec, Aligned
      <4> QED
        BY <1>5, <4>2, <4>3
    <3> QED
      BY <1>1, <1>4, <1>5, <1>7, <3>2, <3>3
  <2> QED
    BY <1>1, <1>2, <2>1, <2>2
<1>9. S * q \in Nat /\ S * q = q * S
  BY <1>3, <1>7, ProductNat
<1> QED
  BY <1>1, <1>3, <1>7, <1>8, <1>9

(* Cut to its own digits, it has lost nothing.                             *)
LEMMA CutToItsOwn ==
  ASSUME NEW x \in Decimal, NEW y \in Decimal, x.n >= 0, y.n >= 0
  PROVE  Raw(Plus(x, y), x.d) \in Nat /\ Raw(Plus(x, y), x.d) >= x.n
<1>1. x.d \in Nat /\ x.n \in Nat /\ x.d - x.d = 0
  BY DEF Decimal
<1>2. Scale[x.d - x.d] = 1
  BY <1>1, ScaleIs
<1>3. PICK q \in Nat : q = Raw(Plus(x, y), x.d) /\ q * 1 >= x.n - 1 + 1
  BY <1>1, <1>2, CutKeeps
<1> QED
  BY <1>1, <1>3

(* Both operands, aligned to the digits of the result.                     *)
LEMMA Digitwise ==
  ASSUME NEW x \in Decimal, NEW y \in Decimal
  PROVE  \E a \in Nat \ {0}, e \in Nat \ {0} :
           /\ Scale[MoreDigits(x, y)] = Scale[x.d] * a
           /\ Scale[MoreDigits(x, y)] = Scale[y.d] * e
           /\ Plus(x, y) = Dec(x.n * a + y.n * e, MoreDigits(x, y))
           /\ Minus(x, y) = Dec(x.n * a - y.n * e, MoreDigits(x, y))
<1>1. PICK d \in Nat, i \in Nat, j \in Nat :
        /\ d = MoreDigits(x, y) /\ i = d - x.d /\ j = d - y.d
  BY MoreDigitsIs
<1>2. x.d \in Nat /\ y.d \in Nat /\ d = x.d + i /\ d = y.d + j
  BY <1>1 DEF Decimal
<1>3. Scale[d] = Scale[x.d] * Scale[i] /\ Scale[d] = Scale[y.d] * Scale[j]
  BY <1>2, ScaleSum
<1>4. PICK a \in Nat \ {0}, e \in Nat \ {0} : a = Scale[i] /\ e = Scale[j]
  BY ScaleIs
<1>5. Aligned(x, d) = x.n * a /\ Aligned(y, d) = y.n * e
  BY <1>1, <1>4 DEF Aligned
<1>6. /\ Plus(x, y) = Dec(x.n * a + y.n * e, d)
      /\ Minus(x, y) = Dec(x.n * a - y.n * e, d)
  BY <1>1, <1>5 DEF Plus, Minus
<1> QED
  BY <1>1, <1>3, <1>4, <1>6

(* A figure cut to k digits.                                               *)
LEMMA RawCut ==
  ASSUME NEW x \in Decimal, x.n >= 0, NEW k \in Nat
  PROVE  /\ Raw(x, k) \in Nat
         /\ Scale[x.d] * Raw(x, k) <= x.n * Scale[k]
         /\ x.n * Scale[k] < Scale[x.d] * Raw(x, k) + Scale[x.d]
<1>1. PICK n \in Nat, d \in Nat : n = x.n /\ d = x.d
  BY DEF Decimal
<1>2. PICK h \in Nat \ {0}, s \in Nat \ {0} : h = Scale[d] /\ s = Scale[k]
  BY ScaleIs
<1>3. PICK q \in Nat : q = Raw(x, k)
  BY RoundDownIs
<1>4. h * q <= n * s /\ n * s < h * q + h
  <2>1. CASE k < d
    <3>1. PICK i \in Nat : i = d - k /\ d = k + i
      BY <2>1
    <3>2. PICK f \in Nat \ {0} : f = Scale[i]
      BY ScaleIs
    <3>3. h = s * f
      BY <1>2, <3>1, <3>2, ScaleSum
    <3>4. q = n \div f
      <4>1. q = Quot(n, f)
        BY <1>1, <1>3, <2>1, <3>1, <3>2 DEF Raw, RoundDown, Dec
      <4>2. n \in Int /\ n >= 0
        BY <1>1
      <4> QED
        BY <3>2, <4>1, <4>2, QuotIs
    <3>5. f * q <= n /\ n + 1 <= f * q + f
      <4>1. f * q <= n /\ n < f * q + f
        BY <1>1, <3>2, <3>4, DivIs
      <4> QED
        BY <1>1, <1>3, <3>2, <4>1
    <3>6. s * (f * q) <= s * n /\ s * (n + 1) <= s * (f * q + f)
      BY <1>2, <1>3, <3>2, <3>5, Times2
    <3>7. s * (f * q) = h * q /\ s * (f * q + f) = h * q + h /\ s * (n + 1) = n * s + s
          /\ s * n = n * s
      BY <1>2, <3>2, <3>3
    <3> QED
      BY <1>2, <3>6, <3>7
  <2>2. CASE d <= k
    <3>1. PICK i \in Nat : i = k - d /\ k = d + i
      BY <2>2
    <3>2. PICK f \in Nat \ {0} : f = Scale[i]
      BY ScaleIs
    <3>3. s = h * f
      BY <1>2, <3>1, <3>2, ScaleSum
    <3>4. q = n * f
      BY <1>1, <1>3, <2>2, <3>1, <3>2 DEF Raw, RoundDown, Dec, Aligned
    <3>5. h * q = n * s
      BY <3>3, <3>4
    <3> QED
      BY <1>2, <3>5
  <2> QED
    BY <2>1, <2>2
<1> QED
  BY <1>1, <1>2, <1>3, <1>4

(* A figure with no more digits than k loses none.                         *)
LEMMA RawExact ==
  ASSUME NEW x \in Decimal, NEW k \in Nat, x.d <= k
  PROVE  /\ k - x.d \in Nat /\ Scale[k] = Scale[x.d] * Scale[k - x.d]
         /\ Raw(x, k) = x.n * Scale[k - x.d]
<1>1. PICK i \in Nat : i = k - x.d /\ k = x.d + i /\ x.d \in Nat
  BY DEF Decimal
<1>2. Scale[k] = Scale[x.d] * Scale[i]
  BY <1>1, ScaleSum
<1>3. Raw(x, k) = x.n * Scale[i]
  BY <1>1 DEF Raw, RoundDown, Dec, Aligned
<1> QED
  BY <1>1, <1>2, <1>3

(* A product of positives over a positive, as a quotient.                  *)
LEMMA OverCut ==
  ASSUME NEW x \in Decimal, NEW y \in Decimal, x.n >= 0, y.n > 0
  PROVE  /\ Over(x, y).n \in Nat
         /\ y.n * Over(x, y).n <= x.n * Scale[y.d] * Scale[y.d]
         /\ x.n * Scale[y.d] * Scale[y.d] < y.n * Over(x, y).n + y.n
<1>1. PICK a \in Nat, b \in Nat \ {0}, s \in Nat \ {0} :
        a = x.n /\ b = y.n /\ s = Scale[y.d]
  BY ScaleIs DEF Decimal
<1>2. PICK e \in Nat : e = a * s * s
  OBVIOUS
<1>3. Over(x, y).n = e \div b
  <2>1. Over(x, y).n = Quot(e, b)
    BY <1>1, <1>2 DEF Over, Dec
  <2> QED
    BY <1>1, <1>2, <2>1, QuotIs
<1> QED
  BY <1>1, <1>2, <1>3, DivIs

(* Below zero a figure is cut towards zero.                                *)
LEMMA RawBelow ==
  ASSUME NEW x \in Decimal, x.n <= 0, NEW k \in Nat
  PROVE  Raw(x, k) \in Int /\ Raw(x, k) <= 0
<1>1. PICK n \in Int, d \in Nat : n = x.n /\ d = x.d /\ n <= 0
  BY DEF Decimal
<1>2. CASE k < d
  <2>1. PICK f \in Nat \ {0} : f = Scale[x.d - k]
    <3>1. x.d - k \in Nat
      BY <1>1, <1>2
    <3> QED
      BY <3>1, ScaleIs
  <2>2. Raw(x, k) = Quot(n, f)
    BY <1>1, <1>2, <2>1 DEF Raw, RoundDown, Dec
  <2>3. CASE n = 0
    <3>1. Quot(n, f) = 0 \div f /\ 0 \div f = 0
      BY <2>1, <2>3 DEF Quot
    <3> QED
      BY <2>2, <3>1
  <2>4. CASE n # 0
    <3>1. PICK i \in Nat : i = -n /\ ~(n >= 0)
      BY <1>1, <2>4
    <3>2. i \div f \in Nat
      BY <2>1, <3>1, DivIs
    <3>3. Quot(n, f) = -(i \div f)
      BY <3>1 DEF Quot
    <3> QED
      BY <2>2, <3>2, <3>3
  <2> QED
    BY <2>3, <2>4
<1>3. CASE d <= k
  <2>1. PICK f \in Nat \ {0} : f = Scale[k - x.d] /\ Raw(x, k) = n * f
    <3>1. k - x.d \in Nat /\ Raw(x, k) = x.n * Scale[k - x.d]
      BY <1>1, <1>3, RawExact
    <3> QED
      BY <1>1, <3>1, ScaleIs
  <2>2. f * n <= f * 0
    BY <1>1, <2>1, Times2
  <2> QED
    BY <1>1, <2>1, <2>2
<1> QED
  BY <1>1, <1>2, <1>3
=============================================================================
