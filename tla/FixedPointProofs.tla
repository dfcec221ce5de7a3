--------------------------- MODULE FixedPointProofs ---------------------------
(***************************************************************************)
(* Proofs about FixedPoint and ResourceTransfer, for any precision, width, *)
(* scale and exponents that satisfy FixedPointAssumption: conversions      *)
(* between quantities and doubles keep order, and quantities of up to a    *)
(* quarter of 2^Precision survive them, so a request and a capacity mean   *)
(* the same in the two processes that compare them.                        *)
(*                                                                         *)
(* Nearest rounds by at most half a unit in the last place (HalfEvenNear)  *)
(* and is monotone (NearestMonotone).  The second gives OrderKept.  For    *)
(* QuantitiesKept, the double that q is written as is so near to           *)
(* q * One / Scale (DoubleIsNear) that its product with Scale, rounded     *)
(* once more, is within half a One of q * One (NearIsRead): a tie of the   *)
(* last rounding goes to the even significand, which is that of q.         *)
(***************************************************************************)
EXTENDS ResourceTransfer, ArithmeticProofs

-----------------------------------------------------------------------------
(* Powers of two *)

\* g computes TwoTo up to n.
PowersUpto(g, n) == g = [k \in 0 .. n |-> IF k = 0 THEN 1 ELSE 2 * g[k - 1]]

\* The recursion can be followed to any number.
LEMMA PowersExist == \A n \in Nat : \E g : PowersUpto(g, n)
<1> DEFINE P == {n \in Nat : \E g : PowersUpto(g, n)}
<1>1. 0 \in P
  <2> DEFINE g == [k \in 0 .. 0 |-> 1]
  <2>1. PowersUpto(g, 0)
    BY DEF PowersUpto
  <2> QED
    BY <2>1
<1>2. ASSUME NEW n \in Nat, n \in P PROVE n + 1 \in P
  <2>1. PICK g : PowersUpto(g, n)
    BY <1>2
  <2> DEFINE h == [k \in 0 .. n + 1 |-> IF k = 0 THEN 1 ELSE 2 * g[k - 1]]
  <2>2. \A k \in 0 .. n : g[k] = IF k = 0 THEN 1 ELSE 2 * g[k - 1]
    BY <2>1 DEF PowersUpto
  <2>3. \A k \in 0 .. n : h[k] = g[k]
    BY <2>2
  <2>4. \A k \in 0 .. n + 1 : h[k] = IF k = 0 THEN 1 ELSE 2 * h[k - 1]
    <3>1. \A k \in 0 .. n + 1 : k # 0 => k - 1 \in 0 .. n
      OBVIOUS
    <3> QED
      BY <2>3, <3>1
  <2>5. h = [k \in 0 .. n + 1 |-> h[k]]
    OBVIOUS
  <2> HIDE DEF h
  <2>6. PowersUpto(h, n + 1)
    BY <2>4, <2>5 DEF PowersUpto
  <2> QED
    BY <2>6
<1>3. Nat \subseteq P
  <2> HIDE DEF P
  <2> QED
    BY <1>1, <1>2, SetInduction
<1> QED
  BY <1>3

\* What has been computed does not depend on how far one goes.
LEMMA PowersAgree ==
    ASSUME NEW m \in Nat, NEW n \in Nat, NEW g, NEW h,
           PowersUpto(g, m), PowersUpto(h, n)
    PROVE  \A k \in Nat : k <= m /\ k <= n => g[k] = h[k]
<1> DEFINE P == {k \in Nat : k <= m /\ k <= n => g[k] = h[k]}
<1>0. /\ \A k \in 0 .. m : g[k] = IF k = 0 THEN 1 ELSE 2 * g[k - 1]
      /\ \A k \in 0 .. n : h[k] = IF k = 0 THEN 1 ELSE 2 * h[k - 1]
  BY DEF PowersUpto
<1>1. 0 \in P
  BY <1>0
<1>2. ASSUME NEW k \in Nat, k \in P PROVE k + 1 \in P
  BY <1>0, <1>2
<1>3. Nat \subseteq P
  <2> HIDE DEF P
  <2> QED
    BY <1>1, <1>2, SetInduction
<1> QED
  BY <1>3

\* TwoTo obeys its definition.
LEMMA TwoToUnfold ==
    TwoTo[0] = 1 /\ \A n \in Nat : TwoTo[n + 1] = 2 * TwoTo[n]
<1> DEFINE part(n) == CHOOSE g : PowersUpto(g, n)
           f == [n \in Nat |-> part(n)[n]]
           Powers(g) == g = [n \in Nat |-> IF n = 0 THEN 1 ELSE 2 * g[n - 1]]
<1>1. \A n \in Nat : PowersUpto(part(n), n)
  BY PowersExist
<1> HIDE DEF part
<1>2. \A n \in Nat : f[n] = IF n = 0 THEN 1 ELSE 2 * f[n - 1]
  <2> SUFFICES ASSUME NEW n \in Nat PROVE f[n] = IF n = 0 THEN 1 ELSE 2 * f[n - 1]
    OBVIOUS
  <2>1. part(n)[n] = IF n = 0 THEN 1 ELSE 2 * part(n)[n - 1]
    BY <1>1 DEF PowersUpto
  <2>2. CASE n = 0
    BY <2>1, <2>2
  <2>3. CASE n # 0
    <3>1. n - 1 \in Nat
      BY <2>3
    <3>2. part(n)[n - 1] = part(n - 1)[n - 1]
      BY <1>1, <3>1, PowersAgree
    <3> QED
      BY <2>1, <2>3, <3>1, <3>2
  <2> QED
    BY <2>2, <2>3
<1>3. f = [n \in Nat |-> f[n]]
  OBVIOUS
<1> HIDE DEF f
<1>4. Powers(f)
  BY <1>2, <1>3
<1>5. TwoTo = CHOOSE g : Powers(g)
  BY DEF TwoTo
<1>6. Powers(TwoTo)
  BY <1>4, <1>5
<1>7. \A n \in Nat : TwoTo[n] = IF n = 0 THEN 1 ELSE 2 * TwoTo[n - 1]
  BY <1>6
<1>8. \A n \in Nat : n + 1 \in Nat /\ n + 1 # 0 /\ (n + 1) - 1 = n
  OBVIOUS
<1> QED
  BY <1>7, <1>8

\* Powers of two are positive.
LEMMA TwoToType == \A n \in Nat : TwoTo[n] \in Nat \ {0}
<1> DEFINE P == {n \in Nat : TwoTo[n] \in Nat \ {0}}
<1>1. 0 \in P
  BY TwoToUnfold
<1>2. ASSUME NEW n \in Nat, n \in P PROVE n + 1 \in P
  <2>1. TwoTo[n + 1] = 2 * TwoTo[n]
    BY TwoToUnfold
  <2> QED
    BY <1>2, <2>1
<1>3. Nat \subseteq P
  <2> HIDE DEF P
  <2> QED
    BY <1>1, <1>2, SetInduction
<1> QED
  BY <1>3

\* The law of exponents.
LEMMA TwoToSum == \A m, n \in Nat : TwoTo[m + n] = TwoTo[m] * TwoTo[n]
<1> SUFFICES ASSUME NEW m \in Nat PROVE \A n \in Nat : TwoTo[m + n] = TwoTo[m] * TwoTo[n]
  OBVIOUS
<1> DEFINE P == {n \in Nat : TwoTo[m + n] = TwoTo[m] * TwoTo[n]}
<1>0. TwoTo[m] \in Nat
  BY TwoToType
<1>1. 0 \in P
  BY <1>0, TwoToUnfold
<1>2. ASSUME NEW n \in Nat, n \in P PROVE n + 1 \in P
  <2>1. /\ TwoTo[n] \in Nat
        /\ TwoTo[n + 1] = 2 * TwoTo[n]
        /\ TwoTo[(m + n) + 1] = 2 * TwoTo[m + n]
    BY TwoToType, TwoToUnfold
  <2>2. TwoTo[m + n] = TwoTo[m] * TwoTo[n]
    BY <1>2
  <2>3. 2 * (TwoTo[m] * TwoTo[n]) = TwoTo[m] * (2 * TwoTo[n])
    BY <1>0, <2>1
  <2>4. m + (n + 1) = (m + n) + 1
    OBVIOUS
  <2> QED
    BY <2>1, <2>2, <2>3, <2>4
<1>3. Nat \subseteq P
  <2> HIDE DEF P
  <2> QED
    BY <1>1, <1>2, SetInduction
<1> QED
  BY <1>3

\* They grow.
LEMMA TwoToGrows ==
    ASSUME NEW m \in Nat, NEW n \in Nat, m <= n
    PROVE  n - m \in Nat /\ TwoTo[n] = TwoTo[n - m] * TwoTo[m] /\ TwoTo[m] <= TwoTo[n]
<1>1. n - m \in Nat /\ (n - m) + m = n
  OBVIOUS
<1>2. TwoTo[n] = TwoTo[n - m] * TwoTo[m]
  BY <1>1, TwoToSum
<1>3. TwoTo[n - m] \in Nat \ {0} /\ TwoTo[m] \in Nat
  BY <1>1, TwoToType
<1> HIDE DEF TwoTo
<1>4. \A k \in Nat \ {0}, a \in Nat : a <= k * a
  OBVIOUS
<1> QED
  BY <1>1, <1>2, <1>3, <1>4

-----------------------------------------------------------------------------
(* Products and quotients *)

\* Multiplying by a natural number keeps order.
LEMMA TimesMonotone ==
    ASSUME NEW a \in Int, NEW b \in Int, NEW c \in Nat, a <= b
    PROVE  a * c <= b * c
<1>1. (b - a) * c = b * c - a * c
  OBVIOUS
<1>2. b - a \in Nat
  OBVIOUS
<1>3. \A x, y \in Nat : 0 <= x * y
  OBVIOUS
<1>4. 0 <= (b - a) * c
  BY <1>2, <1>3
<1> QED
  BY <1>1, <1>4

\* What a quotient and a remainder are.
LEMMA DivisionOK ==
    ASSUME NEW a \in Nat, NEW b \in Nat \ {0}
    PROVE  /\ a \div b \in Nat /\ a % b \in Nat /\ a % b < b
           /\ a = (a \div b) * b + (a % b)
OBVIOUS

\* Halfway cases apart, HalfEven is the integer nearest to a / b.
LEMMA HalfEvenNear ==
    ASSUME NEW a \in Nat, NEW b \in Nat \ {0}
    PROVE  /\ HalfEven(a, b) \in Nat
           /\ 2 * (HalfEven(a, b) * b) <= 2 * a + b
           /\ 2 * a <= 2 * (HalfEven(a, b) * b) + b
<1> DEFINE q == a \div b
           r == a % b
<1>1. q \in Nat /\ r \in Nat /\ r < b /\ a = q * b + r
  BY DivisionOK
<1>2. HalfEven(a, b) = IF 2 * r < b \/ (2 * r = b /\ q % 2 = 0) THEN q ELSE q + 1
  BY DEF HalfEven
<1>3. (q + 1) * b = q * b + b /\ q * b \in Nat
  BY <1>1
<1> HIDE DEF q, r
<1>4. CASE HalfEven(a, b) = q /\ 2 * r <= b
  BY <1>1, <1>3, <1>4
<1>5. CASE HalfEven(a, b) = q + 1 /\ 2 * r >= b
  BY <1>1, <1>3, <1>5
<1> QED
  BY <1>1, <1>2, <1>4, <1>5

\* HalfEven does not cross an integer, and of the half above an even one it
\* takes the even one.
LEMMA HalfEvenBounds ==
    ASSUME NEW a \in Nat, NEW b \in Nat \ {0}, NEW m \in Nat
    PROVE  /\ a <= m * b => HalfEven(a, b) <= m
           /\ m * b <= a => m <= HalfEven(a, b)
           /\ m % 2 = 0 /\ 2 * a <= 2 * (m * b) + b => HalfEven(a, b) <= m
<1> DEFINE h == HalfEven(a, b)
<1>1. /\ h \in Nat
      /\ 2 * (h * b) <= 2 * a + b
      /\ 2 * a <= 2 * (h * b) + b
  BY HalfEvenNear
<1>2. h * b \in Nat /\ m * b \in Nat
  BY <1>1
<1>3. m + 1 <= h => m * b + b <= h * b
  <2>1. (m + 1) * b = m * b + b
    OBVIOUS
  <2> QED
    BY <1>1, <2>1, TimesMonotone
<1>4. h + 1 <= m => h * b + b <= m * b
  <2>1. (h + 1) * b = h * b + b
    BY <1>1
  <2> QED
    BY <1>1, <2>1, TimesMonotone
<1>5. ASSUME m % 2 = 0, 2 * a <= 2 * (m * b) + b PROVE h <= m
  <2> DEFINE q == a \div b
             r == a % b
  <2>1. q \in Nat /\ r \in Nat /\ r < b /\ a = q * b + r
    BY DivisionOK
  <2>2. h = IF 2 * r < b \/ (2 * r = b /\ q % 2 = 0) THEN q ELSE q + 1
    BY DEF HalfEven
  <2>3. q * b \in Nat /\ (m + 1) * b = m * b + b
    BY <2>1
  <2> HIDE DEF q, r, h
  <2>4. m + 1 <= q => m * b + b <= q * b
    BY <2>1, <2>3, TimesMonotone
  <2>5. q <= m
    BY <1>2, <1>5, <2>1, <2>3, <2>4
  <2>6. CASE q = m
    <3>1. 2 * r <= b
      BY <1>2, <1>5, <2>1, <2>6
    <3> QED
      BY <1>5, <2>1, <2>2, <2>6, <3>1
  <2>7. CASE q < m
    BY <2>1, <2>2, <2>7
  <2> QED
    BY <2>1, <2>5, <2>6, <2>7
<1> HIDE DEF h
<1>6. a <= m * b => h <= m
  BY <1>1, <1>2, <1>3
<1>7. m * b <= a => m <= h
  BY <1>1, <1>2, <1>4
<1> QED
  BY <1>5, <1>6, <1>7 DEF h

\* A larger number is not rounded to a smaller one.
LEMMA HalfEvenMonotone ==
    ASSUME NEW a \in Nat, NEW c \in Nat, NEW b \in Nat \ {0}, a <= c
    PROVE  HalfEven(a, b) <= HalfEven(c, b)
<1> DEFINE h == HalfEven(a, b)
           k == HalfEven(c, b)
<1>1. /\ h \in Nat /\ 2 * (h * b) <= 2 * a + b
      /\ k \in Nat /\ 2 * c <= 2 * (k * b) + b
  BY HalfEvenNear
<1>2. (k + 1) * b = k * b + b /\ k * b \in Nat /\ h * b \in Nat
  BY <1>1
<1>3. k + 1 <= h => k * b + b <= h * b
  BY <1>1, <1>2, TimesMonotone
<1>4. k + 1 <= h => a = c
  <2> HIDE DEF h, k
  <2> QED
    BY <1>1, <1>2, <1>3
<1>5. a = c => h = k
  OBVIOUS
<1> HIDE DEF h, k
<1> QED
  BY <1>1, <1>4, <1>5 DEF h, k

\* HalfAway rounds to the integer within one half.
LEMMA HalfAwayBounds ==
    ASSUME NEW s \in Nat, NEW u \in Nat \ {0}
    PROVE  /\ HalfAway(s, u) \in Nat
           /\ \A m \in Nat : 2 * s + u < 2 * (m * u) => HalfAway(s, u) < m
           /\ \A m \in Nat : 2 * (m * u) <= 2 * s + u => m <= HalfAway(s, u)
<1> DEFINE q == HalfAway(s, u)
           r == (2 * s + u) % (2 * u)
<1>1. q \in Nat /\ r \in Nat /\ r < 2 * u /\ 2 * s + u = q * (2 * u) + r
  <2>1. 2 * s + u \in Nat /\ 2 * u \in Nat \ {0}
    OBVIOUS
  <2>2. q = (2 * s + u) \div (2 * u)
    BY DEF HalfAway
  <2> QED
    BY <2>1, <2>2, DivisionOK
<1>2. q * (2 * u) = 2 * (q * u) /\ q * u \in Nat
  BY <1>1
<1> HIDE DEF q, r
<1>3. ASSUME NEW m \in Nat, 2 * s + u < 2 * (m * u) PROVE q < m
  <2>1. m <= q => m * u <= q * u
    BY <1>1, TimesMonotone
  <2>2. m * u \in Nat
    OBVIOUS
  <2> QED
    BY <1>1, <1>2, <1>3, <2>1, <2>2
<1>4. ASSUME NEW m \in Nat, 2 * (m * u) <= 2 * s + u PROVE m <= q
  <2>1. (q + 1) * u = q * u + u
    BY <1>1
  <2>2. q + 1 <= m => q * u + u <= m * u
    BY <1>1, <2>1, TimesMonotone
  <2>3. m * u \in Nat
    OBVIOUS
  <2> QED
    BY <1>1, <1>2, <1>4, <2>2, <2>3
<1> QED
  BY <1>1, <1>3, <1>4 DEF q

-----------------------------------------------------------------------------
(* Nearest *)

\* The powers that the constants are compared with.
LEMMA ConstantsOK ==
    /\ Precision \in Nat /\ Width \in Nat /\ Scale \in Nat \ {0}
    /\ Fraction \in Nat /\ Exponents \in Nat
    /\ 2 <= Precision /\ Precision + 2 <= Width
    /\ One \in Nat \ {0} /\ Bound \in Nat \ {0}
    /\ 2 * Scale <= One
    /\ Bound * One = TwoTo[Width - 1 + Fraction]
    /\ Bound * One <= TwoTo[Precision + 2 * Exponents]
<1>1. /\ Precision \in Nat /\ Width \in Nat /\ Scale \in Nat \ {0}
      /\ Fraction \in Nat /\ Exponents \in Nat
      /\ 2 <= Precision /\ Precision + 2 <= Width /\ 2 * Scale <= One
      /\ Width - 1 + Fraction <= Precision + 2 * Exponents
  BY FixedPointAssumption
<1>2. /\ Width - 1 \in Nat /\ Width - 1 + Fraction \in Nat
      /\ Precision + 2 * Exponents \in Nat
  BY <1>1
<1>3. One \in Nat \ {0} /\ Bound \in Nat \ {0}
  BY <1>1, <1>2, TwoToType DEF One, Bound
<1>4. Bound * One = TwoTo[Width - 1 + Fraction]
  BY <1>1, <1>2, TwoToSum DEF One, Bound
<1>5. TwoTo[Width - 1 + Fraction] <= TwoTo[Precision + 2 * Exponents]
  BY <1>1, <1>2, TwoToGrows
<1> QED
  BY <1>1, <1>3, <1>4, <1>5

\* The quotients within the exponents that Nearest tries.
Representable(a, b) == a < TwoTo[Precision + 2 * Exponents] * b

\* For each of them there is a unit in the last place, and Nearest takes a
\* multiple of it.
LEMMA NearestIs ==
    ASSUME NEW a \in Nat, NEW b \in Nat \ {0}, Representable(a, b)
    PROVE  \E e \in 0 .. 2 * Exponents :
              /\ IsUlp(a, b, e)
              /\ b * TwoTo[e] \in Nat \ {0}
              /\ TwoTo[e] \in Nat \ {0}
              /\ Nearest(a, b) = HalfEven(a, b * TwoTo[e]) * TwoTo[e]
<1>0. Precision \in Nat /\ Exponents \in Nat /\ 2 * Exponents \in Nat
  BY ConstantsOK
<1> DEFINE T == {e \in Nat : a < TwoTo[Precision + e] * b}
<1>1. 2 * Exponents \in T
  BY <1>0 DEF Representable
<1>2. PICK e \in T : \A k \in T : e <= k
  <2> HIDE DEF T
  <2> QED
    BY <1>1, LeastNat DEF T
<1>3. e \in 0 .. 2 * Exponents
  BY <1>0, <1>1, <1>2
<1>4. IsUlp(a, b, e)
  <2>1. CASE e = 0
    BY <1>2, <2>1 DEF IsUlp
  <2>2. CASE e # 0
    <3>1. e - 1 \in Nat /\ ~(e - 1 \in T)
      BY <1>2, <2>2
    <3>2. Precision + (e - 1) = Precision + e - 1 /\ Precision + (e - 1) \in Nat
      BY <1>0, <2>2, <3>1
    <3>3. TwoTo[Precision + e - 1] * b \in Nat
      BY <3>2, TwoToType
    <3> QED
      BY <1>2, <3>1, <3>2, <3>3 DEF IsUlp
  <2> QED
    BY <2>1, <2>2
<1> HIDE DEF T
<1> DEFINE f == CHOOSE k \in 0 .. 2 * Exponents : IsUlp(a, b, k)
<1>5. f \in 0 .. 2 * Exponents /\ IsUlp(a, b, f)
  BY <1>3, <1>4
<1>6. Nearest(a, b) = HalfEven(a, b * TwoTo[f]) * TwoTo[f]
  BY DEF Nearest
<1>7. TwoTo[f] \in Nat \ {0}
  BY <1>0, <1>5, TwoToType
<1> HIDE DEF f
<1>8. b * TwoTo[f] \in Nat \ {0}
  BY <1>7
<1> QED
  BY <1>5, <1>6, <1>7, <1>8

\* Doubles are whole numbers of least doubles.
LEMMA NearestType ==
    ASSUME NEW a \in Nat, NEW b \in Nat \ {0}, Representable(a, b)
    PROVE  Nearest(a, b) \in Nat
<1>1. PICK e \in 0 .. 2 * Exponents :
        /\ b * TwoTo[e] \in Nat \ {0}
        /\ TwoTo[e] \in Nat \ {0}
        /\ Nearest(a, b) = HalfEven(a, b * TwoTo[e]) * TwoTo[e]
  BY NearestIs
<1>2. HalfEven(a, b * TwoTo[e]) \in Nat
  BY <1>1, HalfEvenNear
<1> QED
  BY <1>1, <1>2

\* With that unit a significand has at most Precision bits, and at least so many
\* when the unit is not the least.
LEMMA SignificandOK ==
    ASSUME NEW a \in Nat, NEW b \in Nat \ {0}, NEW e \in Nat, IsUlp(a, b, e)
    PROVE  /\ HalfEven(a, b * TwoTo[e]) <= TwoTo[Precision]
           /\ e # 0 => TwoTo[Precision - 1] <= HalfEven(a, b * TwoTo[e])
           /\ e # 0 => TwoTo[Precision - 1] * (b * TwoTo[e]) <= a
<1>0. Precision \in Nat /\ Precision - 1 \in Nat
  BY ConstantsOK
<1> DEFINE u == TwoTo[e]
<1>1. /\ u \in Nat \ {0} /\ TwoTo[Precision] \in Nat /\ TwoTo[Precision - 1] \in Nat
  BY <1>0, TwoToType
<1>2. b * u \in Nat \ {0}
  BY <1>1
<1>3. TwoTo[Precision + e] * b = TwoTo[Precision] * (b * u)
  <2>1. TwoTo[Precision + e] = TwoTo[Precision] * u
    BY <1>0, TwoToSum
  <2> QED
    BY <1>1, <2>1
<1>4. a <= TwoTo[Precision] * (b * u)
  <2>1. a < TwoTo[Precision + e] * b
    BY DEF IsUlp
  <2> HIDE DEF u
  <2>2. TwoTo[Precision] * (b * u) \in Nat
    BY <1>1, <1>2
  <2> QED
    BY <1>3, <2>1, <2>2
<1>5. ASSUME e # 0 PROVE TwoTo[Precision - 1] * (b * u) <= a
  <2>1. a >= TwoTo[Precision + e - 1] * b
    BY <1>5 DEF IsUlp
  <2>2. Precision + e - 1 = (Precision - 1) + e
    BY <1>0
  <2>3. TwoTo[Precision + e - 1] = TwoTo[Precision - 1] * u
    BY <1>0, <2>2, TwoToSum
  <2>4. TwoTo[Precision + e - 1] * b = TwoTo[Precision - 1] * (b * u)
    BY <1>1, <2>3
  <2> QED
    BY <2>1, <2>4
<1> HIDE DEF u
<1> QED
  BY <1>1, <1>2, <1>4, <1>5, HalfEvenBounds DEF u

\* Rounding to doubles keeps the order.
LEMMA NearestMonotone ==
    ASSUME NEW a \in Nat, NEW c \in Nat, NEW b \in Nat \ {0}, a <= c,
           Representable(c, b)
    PROVE  Nearest(a, b) <= Nearest(c, b)
<1>0. Precision \in Nat /\ Precision - 1 \in Nat /\ Exponents \in Nat
  BY ConstantsOK
<1>1. Representable(a, b)
  <2>1. TwoTo[Precision + 2 * Exponents] * b \in Nat
    BY <1>0, TwoToType
  <2> QED
    BY <2>1 DEF Representable
<1>2. PICK e \in 0 .. 2 * Exponents :
        /\ IsUlp(a, b, e)
        /\ b * TwoTo[e] \in Nat \ {0}
        /\ TwoTo[e] \in Nat \ {0}
        /\ Nearest(a, b) = HalfEven(a, b * TwoTo[e]) * TwoTo[e]
  BY <1>1, NearestIs
<1>3. PICK f \in 0 .. 2 * Exponents :
        /\ IsUlp(c, b, f)
        /\ b * TwoTo[f] \in Nat \ {0}
        /\ TwoTo[f] \in Nat \ {0}
        /\ Nearest(c, b) = HalfEven(c, b * TwoTo[f]) * TwoTo[f]
  BY NearestIs
<1>4. e \in Nat /\ f \in Nat
  BY <1>0
<1> DEFINE h == HalfEven(a, b * TwoTo[e])
           k == HalfEven(c, b * TwoTo[f])
<1>5. h \in Nat /\ k \in Nat
  BY <1>2, <1>3, HalfEvenNear
<1>6. CASE e = f
  <2>1. h <= k
    BY <1>2, <1>6, HalfEvenMonotone
  <2> HIDE DEF h, k
  <2>2. h * TwoTo[e] <= k * TwoTo[e]
    BY <1>2, <1>5, <2>1, TimesMonotone
  <2> QED
    BY <1>2, <1>3, <1>6, <2>2 DEF h, k
<1>7. CASE e < f
  <2>1. h <= TwoTo[Precision] /\ TwoTo[Precision - 1] <= k
    BY <1>2, <1>3, <1>4, <1>7, SignificandOK
  <2>2. /\ TwoTo[Precision] \in Nat /\ TwoTo[Precision - 1] \in Nat
        /\ TwoTo[Precision] * TwoTo[e] = TwoTo[Precision + e]
        /\ TwoTo[Precision - 1] * TwoTo[f] = TwoTo[(Precision - 1) + f]
    BY <1>0, <1>4, TwoToType, TwoToSum
  <2>3. TwoTo[Precision + e] <= TwoTo[(Precision - 1) + f]
    <3>1. Precision + e \in Nat /\ (Precision - 1) + f \in Nat /\ Precision + e <= (Precision - 1) + f
      BY <1>0, <1>4, <1>7
    <3> QED
      BY <3>1, TwoToGrows
  <2> HIDE DEF h, k
  <2>4. h * TwoTo[e] <= TwoTo[Precision + e]
    BY <1>2, <1>5, <2>1, <2>2, TimesMonotone
  <2>5. TwoTo[(Precision - 1) + f] <= k * TwoTo[f]
    BY <1>3, <1>5, <2>1, <2>2, TimesMonotone
  <2>6. h * TwoTo[e] \in Nat /\ k * TwoTo[f] \in Nat
    BY <1>2, <1>3, <1>5
  <2>7. TwoTo[Precision + e] \in Nat /\ TwoTo[(Precision - 1) + f] \in Nat
    BY <1>0, <1>4, TwoToType
  <2>8. h * TwoTo[e] <= k * TwoTo[f]
    BY <2>3, <2>4, <2>5, <2>6, <2>7
  <2> QED
    BY <1>2, <1>3, <2>8 DEF h, k
<1>8. CASE f < e
  <2>1. c < TwoTo[Precision + f] * b /\ a >= TwoTo[Precision + e - 1] * b
    BY <1>2, <1>3, <1>4, <1>8 DEF IsUlp
  <2>2. Precision + f \in Nat /\ Precision + e - 1 \in Nat /\ Precision + f <= Precision + e - 1
    BY <1>0, <1>4, <1>8
  <2>3. /\ TwoTo[Precision + f] <= TwoTo[Precision + e - 1]
        /\ TwoTo[Precision + f] \in Nat /\ TwoTo[Precision + e - 1] \in Nat
    BY <2>2, TwoToGrows, TwoToType
  <2>4. TwoTo[Precision + f] * b <= TwoTo[Precision + e - 1] * b
    BY <2>3, TimesMonotone
  <2>5. TwoTo[Precision + f] * b \in Nat /\ TwoTo[Precision + e - 1] * b \in Nat
    BY <2>3
  <2> QED
    BY <2>1, <2>4, <2>5
<1> QED
  BY <1>4, <1>6, <1>7, <1>8

\* Up to a power of two means up to it after rounding, too.
LEMMA NearestWithin ==
    ASSUME NEW a \in Nat, NEW k \in Nat, a <= TwoTo[k], Representable(a, 1)
    PROVE  Nearest(a, 1) <= TwoTo[k]
<1>0. Precision \in Nat /\ Precision - 1 \in Nat /\ 2 <= Precision /\ Exponents \in Nat
  BY ConstantsOK
<1>1. PICK e \in 0 .. 2 * Exponents :
        /\ IsUlp(a, 1, e)
        /\ 1 * TwoTo[e] \in Nat \ {0}
        /\ TwoTo[e] \in Nat \ {0}
        /\ Nearest(a, 1) = HalfEven(a, 1 * TwoTo[e]) * TwoTo[e]
  BY NearestIs
<1>2. e \in Nat
  BY <1>0
<1>3. e <= k
  <2> SUFFICES ASSUME k < e PROVE FALSE
    BY <1>2
  <2>1. a >= TwoTo[Precision + e - 1] * 1
    BY <1>1, <1>2 DEF IsUlp
  <2>2. k + 1 \in Nat /\ Precision + e - 1 \in Nat /\ k + 1 <= Precision + e - 1
    BY <1>0, <1>2
  <2>3. /\ TwoTo[k + 1] <= TwoTo[Precision + e - 1]
        /\ TwoTo[k] \in Nat \ {0} /\ TwoTo[k + 1] \in Nat
        /\ TwoTo[Precision + e - 1] \in Nat
    BY <2>2, TwoToGrows, TwoToType
  <2>4. TwoTo[k + 1] = 2 * TwoTo[k]
    BY TwoToUnfold
  <2> QED
    BY <2>1, <2>3, <2>4
<1>4. k - e \in Nat /\ TwoTo[k] = TwoTo[k - e] * TwoTo[e]
  BY <1>2, <1>3, TwoToGrows
<1>5. TwoTo[k - e] \in Nat
  BY <1>4, TwoToType
<1>6. 1 * TwoTo[e] = TwoTo[e]
  BY <1>1
<1>7. HalfEven(a, TwoTo[e]) <= TwoTo[k - e] /\ HalfEven(a, TwoTo[e]) \in Nat
  <2>1. HalfEven(a, TwoTo[e]) \in Nat
    BY <1>1, HalfEvenNear
  <2>2. a <= TwoTo[k - e] * TwoTo[e]
    BY <1>4
  <2> QED
    BY <1>1, <1>5, <2>1, <2>2, HalfEvenBounds
<1>8. HalfEven(a, TwoTo[e]) * TwoTo[e] <= TwoTo[k - e] * TwoTo[e]
  BY <1>1, <1>5, <1>7, TimesMonotone
<1> QED
  BY <1>1, <1>4, <1>6, <1>8

\* Below Bound there is a gap: doubles next to it are multiples of more than one
\* quantity, so what llround makes of one that is less is less.
LEMMA RoundedBelowBound ==
    ASSUME NEW a \in Nat, Representable(a, 1), Nearest(a, 1) < Bound * One
    PROVE  Nearest(a, 1) \in Nat /\ Rounded(Nearest(a, 1)) \in 0 .. Bound - 1
<1> DEFINE s == Nearest(a, 1)
<1>0. /\ Precision \in Nat /\ Width \in Nat /\ Fraction \in Nat /\ Exponents \in Nat
      /\ Precision + 2 <= Width /\ 2 <= Precision
      /\ One \in Nat \ {0} /\ Bound \in Nat \ {0}
  BY ConstantsOK
<1>1. PICK e \in 0 .. 2 * Exponents :
        /\ IsUlp(a, 1, e)
        /\ 1 * TwoTo[e] \in Nat \ {0}
        /\ TwoTo[e] \in Nat \ {0}
        /\ s = HalfEven(a, 1 * TwoTo[e]) * TwoTo[e]
  BY NearestIs
<1> DEFINE h == HalfEven(a, 1 * TwoTo[e])
<1>2. e \in Nat
  BY <1>0
<1>3. h \in Nat /\ h <= TwoTo[Precision]
  <2>1. HalfEven(a, 1 * TwoTo[e]) \in Nat
    BY <1>1, HalfEvenNear
  <2>2. HalfEven(a, 1 * TwoTo[e]) <= TwoTo[Precision]
    <3>1. 1 \in Nat \ {0} /\ IsUlp(a, 1, e)
      BY <1>1
    <3> QED
      BY <1>2, <3>1, SignificandOK
  <2> QED
    BY <2>1, <2>2
<1>4. s = h * TwoTo[e] /\ s < Bound * One
  BY <1>1
<1> HIDE DEF s, h
<1>5. s \in Nat
  BY <1>1, <1>3, <1>4
<1>6. 2 * s + One < 2 * (Bound * One)
  <2>1. CASE Fraction <= e
    <3> DEFINE j == h * TwoTo[e - Fraction]
    <3>1. e - Fraction \in Nat /\ TwoTo[e] = TwoTo[e - Fraction] * One
      BY <1>0, <1>2, <2>1, TwoToGrows DEF One
    <3>2. TwoTo[e - Fraction] \in Nat
      BY <3>1, TwoToType
    <3>3. j \in Nat
      BY <1>3, <3>2
    <3>4. s = j * One
      BY <1>0, <1>3, <1>4, <3>1, <3>2
    <3> HIDE DEF j
    <3>5. j < Bound
      <4>1. Bound <= j => Bound * One <= j * One
        BY <1>0, <3>3, TimesMonotone
      <4>2. Bound * One \in Nat /\ j * One \in Nat
        BY <1>0, <3>3
      <4> QED
        BY <1>0, <1>4, <3>3, <3>4, <4>1, <4>2
    <3>6. (j + 1) * One <= Bound * One
      BY <1>0, <3>3, <3>5, TimesMonotone
    <3>7. (j + 1) * One = j * One + One /\ j * One \in Nat /\ Bound * One \in Nat
      BY <1>0, <3>3
    <3> QED
      BY <1>0, <3>4, <3>6, <3>7
  <2>2. CASE e < Fraction
    <3> DEFINE half == TwoTo[Width - 2]
    <3>1. /\ Width - 2 \in Nat /\ half \in Nat \ {0} /\ TwoTo[Precision] \in Nat
          /\ TwoTo[Precision] <= half
      BY <1>0, TwoToType, TwoToGrows
    <3>2. TwoTo[e] <= One
      BY <1>0, <1>2, <2>2, TwoToGrows DEF One
    <3>3. Bound = 2 * half
      <4>1. (Width - 2) + 1 = Width - 1
        BY <1>0
      <4> QED
        BY <3>1, <4>1, TwoToUnfold DEF Bound
    <3> HIDE DEF half
    <3>4. h * TwoTo[e] <= half * TwoTo[e]
      BY <1>1, <1>3, <3>1, TimesMonotone
    <3>5. TwoTo[e] * half <= One * half
      BY <1>0, <1>1, <3>1, <3>2, TimesMonotone
    <3>6. 1 * One <= half * One
      BY <1>0, <3>1, TimesMonotone
    <3>7. /\ half * TwoTo[e] = TwoTo[e] * half /\ One * half = half * One
          /\ half * One \in Nat /\ h * TwoTo[e] \in Nat /\ TwoTo[e] * half \in Nat
          /\ 2 * (Bound * One) = 4 * (half * One)
      BY <1>0, <1>1, <1>3, <3>1, <3>3
    <3> QED
      BY <1>0, <1>4, <1>5, <3>4, <3>5, <3>6, <3>7
  <2> QED
    BY <1>0, <1>2, <2>1, <2>2
<1>7. HalfAway(s, One) \in Nat /\ HalfAway(s, One) < Bound
  BY <1>0, <1>5, <1>6, HalfAwayBounds
<1>8. Rounded(s) \in 0 .. Bound - 1
  BY <1>0, <1>7 DEF Rounded
<1> QED
  BY <1>5, <1>8 DEF s

-----------------------------------------------------------------------------
(* Conversions *)

\* The largest quantity, as a double.
LEMMA LargestOK ==
    /\ (Bound - 1) * One \in Nat
    /\ Representable((Bound - 1) * One, 1)
    /\ Nearest((Bound - 1) * One, 1) <= Bound * One
<1>1. /\ One \in Nat \ {0} /\ Bound \in Nat \ {0}
      /\ Width - 1 + Fraction \in Nat
      /\ Bound * One = TwoTo[Width - 1 + Fraction]
      /\ Bound * One <= TwoTo[Precision + 2 * Exponents]
      /\ Precision + 2 * Exponents \in Nat
  BY ConstantsOK
<1>2. (Bound - 1) * One = Bound * One - One /\ Bound * One \in Nat
  BY <1>1
<1>3. (Bound - 1) * One \in Nat
  BY <1>1
<1>4. TwoTo[Precision + 2 * Exponents] \in Nat
  BY <1>1, TwoToType
<1>5. Representable((Bound - 1) * One, 1)
  BY <1>1, <1>2, <1>4 DEF Representable
<1> QED
  BY <1>1, <1>2, <1>3, <1>5, NearestWithin

\* The product of a double and kScale is within the exponents.
LEMMA DoublesOK ==
    ASSUME NEW x \in Doubles
    PROVE  x \in Nat /\ x * Scale \in Nat /\ Representable(x * Scale, 1)
<1>0. /\ Precision \in Nat /\ Exponents \in Nat /\ Scale \in Nat \ {0}
      /\ Scale <= TwoTo[Exponents]
  BY ConstantsOK, FixedPointAssumption
<1>1. PICK m \in 0 .. TwoTo[Precision] - 1, e \in 0 .. Exponents : x = m * TwoTo[e]
  BY DEF Doubles
<1> DEFINE P == TwoTo[Precision]
           X == TwoTo[Exponents]
           u == TwoTo[e]
<1>2. P \in Nat \ {0} /\ X \in Nat \ {0} /\ u \in Nat \ {0} /\ u <= X /\ m \in Nat /\ m < P
  BY <1>0, <1>1, TwoToType, TwoToGrows
<1>3. TwoTo[Precision + 2 * Exponents] = P * (X * X)
  <2>1. 2 * Exponents = Exponents + Exponents /\ 2 * Exponents \in Nat
    BY <1>0
  <2> QED
    BY <1>0, <2>1, TwoToSum
<1>4. x = m * u
  BY <1>1
<1> HIDE DEF P, X, u
<1>5. x \in Nat /\ x * Scale \in Nat
  BY <1>0, <1>2, <1>4
<1>6. u * Scale <= X * X
  <2>1. u * Scale <= X * Scale /\ Scale * X <= X * X
    BY <1>0, <1>2, TimesMonotone DEF X
  <2>2. X * Scale = Scale * X /\ u * Scale \in Nat /\ X * Scale \in Nat /\ X * X \in Nat
    BY <1>0, <1>2
  <2> QED
    BY <2>1, <2>2
<1>7. x * Scale = m * (u * Scale) /\ u * Scale \in Nat \ {0} /\ X * X \in Nat
  BY <1>0, <1>2, <1>4
<1>8. (m + 1) * (u * Scale) <= P * (u * Scale) /\ (u * Scale) * P <= (X * X) * P
  BY <1>2, <1>6, <1>7, TimesMonotone
<1>9. (m + 1) * (u * Scale) = m * (u * Scale) + u * Scale
  BY <1>2, <1>7
<1>10. P * (u * Scale) = (u * Scale) * P /\ (X * X) * P = P * (X * X)
  BY <1>2, <1>7
<1>11. x * Scale < P * (X * X)
  BY <1>2, <1>5, <1>7, <1>8, <1>9, <1>10
<1>12. P * (X * X) * 1 = P * (X * X)
  BY <1>2, <1>7
<1> QED
  BY <1>3, <1>5, <1>11, <1>12 DEF Representable

\* Of two doubles the larger one is not the smaller quantity, and what is not
\* larger than a double that FromDouble reads is read, too, the one exception being
\* the double that is Bound itself.
ConversionKeepsOrder ==
    LET quantity == [x \in Readable |-> Rounded(Scaled(x))]
    IN  /\ \A x \in Readable : FromDouble(x, quantity[x])
        /\ \A x \in Doubles, y \in Readable :
              x <= y => x \in Readable /\ quantity[x] <= quantity[y]

\* FromDouble keeps order, for every format.
THEOREM OrderKept == ConversionKeepsOrder
<1>0. One \in Nat \ {0} /\ Bound \in Nat \ {0} /\ Scale \in Nat \ {0}
  BY ConstantsOK
<1>1. ASSUME NEW x \in Readable
      PROVE  /\ Scaled(x) \in Nat /\ Rounded(Scaled(x)) \in 0 .. Bound - 1
             /\ FromDouble(x, Rounded(Scaled(x)))
  <2>1. x \in Doubles /\ InRange(Scaled(x)) /\ Scaled(x) # Bound * One
    BY <1>1 DEF Readable
  <2>2. x \in Nat /\ x * Scale \in Nat /\ Representable(x * Scale, 1)
    BY <2>1, DoublesOK
  <2>3. Scaled(x) <= Nearest((Bound - 1) * One, 1) /\ Scaled(x) = Nearest(x * Scale, 1)
    BY <2>1 DEF InRange, Scaled
  <2>4. Nearest(x * Scale, 1) \in Nat /\ Nearest((Bound - 1) * One, 1) \in Nat
    BY <2>2, LargestOK, NearestType
  <2>5. Nearest(x * Scale, 1) < Bound * One
    <3>1. Bound * One \in Nat
      BY <1>0
    <3> QED
      BY <2>1, <2>3, <2>4, <3>1, LargestOK
  <2>6. Rounded(Scaled(x)) \in 0 .. Bound - 1
    BY <2>2, <2>3, <2>5, RoundedBelowBound
  <2> QED
    BY <2>1, <2>2, <2>3, <2>4, <2>6 DEF FromDouble
<1>2. ASSUME NEW x \in Doubles, NEW y \in Readable, x <= y
      PROVE  x \in Readable /\ Rounded(Scaled(x)) <= Rounded(Scaled(y))
  <2>1. y \in Doubles /\ InRange(Scaled(y)) /\ Scaled(y) # Bound * One
    BY <1>2 DEF Readable
  <2>2. /\ x \in Nat /\ x * Scale \in Nat /\ Representable(x * Scale, 1)
        /\ y \in Nat /\ y * Scale \in Nat /\ Representable(y * Scale, 1)
    BY <2>1, DoublesOK
  <2>3. x * Scale <= y * Scale
    BY <1>0, <1>2, <2>2, TimesMonotone
  <2>4. Scaled(x) <= Scaled(y)
    BY <2>2, <2>3, NearestMonotone DEF Scaled
  <2>5. Scaled(x) \in Nat /\ Scaled(y) \in Nat /\ Nearest((Bound - 1) * One, 1) \in Nat
    BY <2>2, LargestOK, NearestType DEF Scaled
  <2>6. Scaled(y) <= Nearest((Bound - 1) * One, 1)
    BY <2>1 DEF InRange
  <2>7. x \in Readable
    <3>1. Bound * One \in Nat
      BY <1>0
    <3> QED
      BY <2>1, <2>4, <2>5, <2>6, <3>1, LargestOK DEF Readable, InRange
  <2>8. HalfAway(Scaled(x), One) <= HalfAway(Scaled(y), One)
    <3> DEFINE m == HalfAway(Scaled(x), One)
               s == Scaled(x)
               r == Scaled(y)
    <3>1. m \in Nat
      BY <1>0, <2>5, HalfAwayBounds
    <3>2. ~(2 * s + One < 2 * (m * One))
      BY <1>0, <2>5, <3>1, HalfAwayBounds
    <3>3. m * One \in Nat
      BY <1>0, <3>1
    <3> HIDE DEF m
    <3>4. 2 * (m * One) <= 2 * r + One
      BY <1>0, <2>4, <2>5, <3>2, <3>3
    <3>5. m <= HalfAway(r, One)
      BY <1>0, <2>5, <3>1, <3>4, HalfAwayBounds
    <3> QED
      BY <3>5 DEF m
  <2> QED
    BY <2>7, <2>8 DEF Rounded
<1> QED
  BY <1>1, <1>2 DEF ConversionKeepsOrder

\* The quantities that are kept, between the constants.
LEMMA SmallOK ==
    ASSUME NEW q \in Nat \ {0}, q <= TwoTo[Precision - 2]
    PROVE  /\ TwoTo[Precision - 2] \in Nat \ {0}
           /\ TwoTo[Precision - 1] = 2 * TwoTo[Precision - 2]
           /\ q + 1 <= Bound - 1
           /\ q * One \in Nat /\ q * One <= TwoTo[Precision - 2] * One
           /\ q * One + One <= (Bound - 1) * One
<1> DEFINE M == TwoTo[Precision - 2]
<1>0. /\ Precision \in Nat /\ Width \in Nat /\ 2 <= Precision /\ Precision + 2 <= Width
      /\ One \in Nat \ {0} /\ Bound \in Nat \ {0}
  BY ConstantsOK
<1>1. Precision - 2 \in Nat /\ Precision - 1 = (Precision - 2) + 1 /\ Precision - 1 \in Nat
      /\ Precision = (Precision - 1) + 1
  BY <1>0
<1>2. M \in Nat \ {0} /\ TwoTo[Precision - 1] = 2 * M
  BY <1>1, TwoToType, TwoToUnfold
<1>3. TwoTo[Precision] = 2 * TwoTo[Precision - 1]
  BY <1>1, TwoToUnfold
<1>4. TwoTo[Precision] <= Bound
  <2>1. Width - 1 \in Nat /\ Precision <= Width - 1
    BY <1>0
  <2> QED
    BY <1>0, <2>1, TwoToGrows DEF Bound
<1> HIDE DEF M
<1>5. q + 1 <= Bound - 1 /\ Bound - 1 \in Nat
  BY <1>0, <1>2, <1>3, <1>4 DEF M
<1>6. q * One <= M * One /\ (q + 1) * One <= (Bound - 1) * One
  BY <1>0, <1>2, <1>5, TimesMonotone DEF M
<1>7. (q + 1) * One = q * One + One /\ q * One \in Nat
  BY <1>0
<1> QED
  BY <1>2, <1>5, <1>6, <1>7 DEF M

\* They are doubles: the conversion of value_ itself rounds nothing.
LEMMA SmallIsExact ==
    ASSUME NEW q \in Nat \ {0}, q <= TwoTo[Precision - 2]
    PROVE  Nearest(q * One, 1) = q * One
<1> DEFINE M == TwoTo[Precision - 2]
           a == q * One
<1>0. /\ Precision \in Nat /\ Exponents \in Nat /\ Fraction \in Nat
      /\ One \in Nat \ {0}
  BY ConstantsOK
<1>1. /\ M \in Nat \ {0} /\ TwoTo[Precision - 1] = 2 * M
      /\ a \in Nat /\ a <= M * One
      /\ a + One <= (Bound - 1) * One
  BY SmallOK
<1>2. Representable(a, 1)
  <2>1. TwoTo[Precision + 2 * Exponents] \in Nat
    BY <1>0, TwoToType
  <2> HIDE DEF a
  <2> QED
    BY <1>0, <1>1, <2>1, LargestOK DEF Representable
<1>3. PICK e \in 0 .. 2 * Exponents :
        /\ IsUlp(a, 1, e)
        /\ TwoTo[e] \in Nat \ {0}
        /\ Nearest(a, 1) = HalfEven(a, 1 * TwoTo[e]) * TwoTo[e]
  BY <1>1, <1>2, NearestIs
<1> DEFINE u == TwoTo[e]
<1>4. e \in Nat /\ u \in Nat \ {0} /\ 1 * u = u
  BY <1>0, <1>3
\* The unit in the last place is not more than One, so it divides q * One.
<1>5. e <= Fraction
  <2>1. CASE e = 0
    BY <1>0, <2>1
  <2>2. CASE e # 0
    <3>1. TwoTo[Precision - 1] * (1 * TwoTo[e]) <= a
      <4>1. 1 \in Nat \ {0} /\ IsUlp(a, 1, e)
        BY <1>3
      <4> QED
        BY <1>1, <1>4, <2>2, <4>1, SignificandOK
    <3>2. (2 * M) * u <= M * One
      <4> HIDE DEF M, u, a
      <4>1. (2 * M) * u \in Nat /\ M * One \in Nat
        BY <1>0, <1>1, <1>4
      <4> QED
        BY <1>0, <1>1, <1>4, <3>1, <4>1 DEF u
    <3>3. u < One
      <4> HIDE DEF M, u
      <4> SUFFICES ASSUME One <= u PROVE FALSE
        BY <1>0, <1>4
      <4>1. One * M <= u * M /\ 1 * One <= M * One
        BY <1>0, <1>1, <1>4, TimesMonotone
      <4>2. One * M = M * One /\ (2 * M) * u = 2 * (u * M)
            /\ M * One \in Nat /\ u * M \in Nat
        BY <1>0, <1>1, <1>4
      <4> QED
        BY <1>0, <3>2, <4>1, <4>2
    <3> SUFFICES ASSUME Fraction <= e PROVE FALSE
      BY <1>0, <1>4
    <3>4. One <= u
      BY <1>0, <1>4, TwoToGrows DEF One
    <3> HIDE DEF u
    <3> QED
      BY <1>0, <1>4, <3>3, <3>4
  <2> QED
    BY <2>1, <2>2
<1>6. PICK d \in Nat : One = d * u
  <2>1. Fraction - e \in Nat /\ One = TwoTo[Fraction - e] * u
    BY <1>0, <1>4, <1>5, TwoToGrows DEF One
  <2> QED
    BY <2>1, TwoToType
<1> HIDE DEF u
<1>7. a = (q * d) * u /\ q * d \in Nat
  BY <1>4, <1>6
<1>8. HalfEven(a, u) = q * d
  <2>1. HalfEven(a, u) \in Nat /\ HalfEven(a, u) <= q * d /\ q * d <= HalfEven(a, u)
    <3> HIDE DEF a
    <3> DEFINE m == q * d
    <3>1. m \in Nat /\ a <= m * u /\ m * u <= a
      BY <1>1, <1>7
    <3> HIDE DEF m
    <3>2. HalfEven(a, u) <= m /\ m <= HalfEven(a, u)
      BY <1>1, <1>4, <3>1, HalfEvenBounds
    <3> QED
      BY <1>1, <1>4, <3>2, HalfEvenNear DEF m
  <2> QED
    BY <1>7, <2>1
<1> QED
  BY <1>3, <1>4, <1>7, <1>8 DEF u

\* ToDouble(q) is within a quarter of q, counted in quantities.
LEMMA DoubleIsNear ==
    ASSUME NEW q \in Nat \ {0}, q <= TwoTo[Precision - 2]
    PROVE  /\ ToDouble(q) \in Nat
           /\ ToDouble(q) * Scale \in Nat
           /\ 4 * (ToDouble(q) * Scale) <= 4 * (q * One) + One
           /\ 4 * (q * One) <= 4 * (ToDouble(q) * Scale) + One
<1> DEFINE M == TwoTo[Precision - 2]
<1>0. /\ Precision \in Nat /\ Exponents \in Nat /\ Scale \in Nat \ {0}
      /\ One \in Nat \ {0} /\ Bound \in Nat \ {0}
      /\ 2 * Scale <= One /\ Bound * One <= TwoTo[Precision + 2 * Exponents]
  BY ConstantsOK
<1>1. /\ M \in Nat \ {0} /\ TwoTo[Precision - 1] = 2 * M
      /\ q * One \in Nat /\ q * One <= M * One
      /\ q * One + One <= (Bound - 1) * One
  BY SmallOK
<1> HIDE DEF M
<1>2. Representable(q * One, Scale)
  <2> DEFINE R == TwoTo[Precision + 2 * Exponents]
  <2>1. R \in Nat
    BY <1>0, TwoToType
  <2>2. q * One < R
    <3>1. (Bound - 1) * One = Bound * One - One /\ Bound * One \in Nat
      BY <1>0
    <3> QED
      BY <1>0, <1>1, <2>1, <3>1
  <2> HIDE DEF R
  <2>3. 1 * R <= Scale * R /\ Scale * R = R * Scale /\ R * Scale \in Nat
    BY <1>0, <2>1, TimesMonotone
  <2> QED
    BY <1>1, <2>1, <2>2, <2>3 DEF Representable, R
<1>3. PICK e \in 0 .. 2 * Exponents :
        /\ IsUlp(q * One, Scale, e)
        /\ Scale * TwoTo[e] \in Nat \ {0}
        /\ TwoTo[e] \in Nat \ {0}
        /\ Nearest(q * One, Scale) = HalfEven(q * One, Scale * TwoTo[e]) * TwoTo[e]
  BY <1>0, <1>1, <1>2, NearestIs
<1> DEFINE u == TwoTo[e]
           b == Scale * u
           h == HalfEven(q * One, b)
<1>4. e \in Nat
  BY <1>0
<1>5. h \in Nat /\ 2 * (h * b) <= 2 * (q * One) + b /\ 2 * (q * One) <= 2 * (h * b) + b
  BY <1>1, <1>3, HalfEvenNear
<1>6. 2 * b <= One
  <2>1. CASE e = 0
    BY <1>0, <2>1, TwoToUnfold
  <2>2. CASE e # 0
    <3>1. TwoTo[Precision - 1] * b <= q * One
      BY <1>0, <1>1, <1>3, <1>4, <2>2, SignificandOK
    <3> HIDE DEF b
    <3>2. b \in Nat
      BY <1>3 DEF b
    <3>3. TwoTo[Precision - 1] * b = (2 * b) * M /\ (2 * b) * M \in Nat
      BY <1>1, <3>2
    <3>4. One + 1 <= 2 * b => (One + 1) * M <= (2 * b) * M
      BY <1>0, <1>1, <3>2, TimesMonotone
    <3>5. (One + 1) * M = M * One + M /\ M * One \in Nat
      BY <1>0, <1>1
    <3> QED
      BY <1>0, <1>1, <3>1, <3>2, <3>3, <3>4, <3>5
  <2> QED
    BY <2>1, <2>2
<1>7. ToDouble(q) = h * u
  BY <1>3, SmallIsExact DEF ToDouble
<1>8. u \in Nat /\ b \in Nat /\ b = Scale * u
  BY <1>3
<1> HIDE DEF h, b, u
<1>9. ToDouble(q) * Scale = h * b /\ h * b \in Nat /\ ToDouble(q) \in Nat
  BY <1>0, <1>5, <1>7, <1>8
<1> QED
  BY <1>0, <1>1, <1>5, <1>6, <1>8, <1>9

\* A product within a quarter of q is read as q.  That is where half a unit of the
\* product is a quarter of a quantity, too, and a tie goes to the even
\* significand, which is the one of q.
LEMMA NearIsRead ==
    ASSUME NEW q \in Nat \ {0}, q <= TwoTo[Precision - 2], NEW a \in Nat,
           4 * a <= 4 * (q * One) + One, 4 * (q * One) <= 4 * a + One
    PROVE  InRange(Nearest(a, 1)) /\ Rounded(Nearest(a, 1)) = q
<1> DEFINE M == TwoTo[Precision - 2]
           Q == q * One
           s == Nearest(a, 1)
<1>0. /\ Precision \in Nat /\ Exponents \in Nat /\ Fraction \in Nat
      /\ One \in Nat \ {0} /\ Bound \in Nat \ {0}
  BY ConstantsOK
<1>1. /\ M \in Nat \ {0} /\ TwoTo[Precision - 1] = 2 * M
      /\ Q \in Nat /\ Q <= M * One
      /\ Q + One <= (Bound - 1) * One
  BY SmallOK
<1>2. a <= (Bound - 1) * One
  <2>1. (Bound - 1) * One \in Nat
    BY LargestOK
  <2> HIDE DEF Q
  <2> QED
    BY <1>0, <1>1, <2>1 DEF Q
<1>3. InRange(s)
  BY <1>2, LargestOK, NearestMonotone DEF InRange
<1>4. Representable(a, 1)
  <2>1. TwoTo[Precision + 2 * Exponents] \in Nat
    BY <1>0, TwoToType
  <2> QED
    BY <1>2, <2>1, LargestOK DEF Representable
<1>5. PICK e \in 0 .. 2 * Exponents :
        /\ IsUlp(a, 1, e)
        /\ 1 * TwoTo[e] \in Nat \ {0}
        /\ TwoTo[e] \in Nat \ {0}
        /\ s = HalfEven(a, 1 * TwoTo[e]) * TwoTo[e]
  BY <1>4, NearestIs
<1> DEFINE v == TwoTo[e]
           k == HalfEven(a, v)
<1>6. e \in Nat /\ v \in Nat \ {0} /\ 1 * v = v
  BY <1>0, <1>5
<1>7. k \in Nat /\ 2 * (k * v) <= 2 * a + v /\ 2 * a <= 2 * (k * v) + v
  BY <1>6, HalfEvenNear
<1>8. s = k * v /\ s \in Nat
  BY <1>5, <1>6, <1>7
<1>9. 2 * Q <= 2 * s + One /\ 2 * s < 2 * Q + One
  <2>1. CASE e = 0
    <3>1. v = 1
      BY <2>1, TwoToUnfold
    <3>2. k * v = k
      BY <1>7, <3>1
    <3>3. s = a
      <4> HIDE DEF s, k, v
      <4> QED
        BY <1>7, <1>8, <3>1, <3>2
    <3> HIDE DEF s, Q
    <3> QED
      BY <1>0, <1>1, <3>3 DEF Q
  <2>2. CASE e # 0
    <3>1. 2 * (M * v) <= a
      <4>1. 1 \in Nat \ {0} /\ IsUlp(a, 1, e)
        BY <1>5
      <4>2. TwoTo[Precision - 1] * (1 * TwoTo[e]) <= a
        BY <1>6, <2>2, <4>1, SignificandOK
      <4>3. TwoTo[Precision - 1] * v <= a
        BY <1>6, <4>2
      <4> HIDE DEF M, v
      <4>4. (2 * M) * v = 2 * (M * v)
        BY <1>1, <1>6
      <4> QED
        BY <1>1, <4>3, <4>4
    <3>2. v < One
      <4> SUFFICES ASSUME One <= v PROVE FALSE
        BY <1>0, <1>6
      <4> HIDE DEF M, v, Q
      <4>1. One * M <= v * M /\ 1 * One <= M * One
        BY <1>0, <1>1, <1>6, TimesMonotone
      <4>2. One * M = M * One /\ v * M = M * v /\ M * One \in Nat /\ M * v \in Nat
        BY <1>0, <1>1, <1>6
      <4> QED
        BY <1>0, <1>1, <3>1, <4>1, <4>2 DEF Q
    <3>3. e < Fraction
      <4> SUFFICES ASSUME Fraction <= e PROVE FALSE
        BY <1>0, <1>6
      <4>1. One <= v
        BY <1>0, <1>6, TwoToGrows DEF One
      <4> HIDE DEF v
      <4> QED
        BY <1>0, <1>6, <3>2, <4>1
    <3>4. TwoTo[e + 1] = 2 * v
      BY <1>6, TwoToUnfold
    <3>5. CASE e + 1 = Fraction
      <4>1. One = 2 * v
        BY <3>4, <3>5 DEF One
      <4>2. 2 * q \in Nat /\ (2 * q) % 2 = 0 /\ Q = (2 * q) * v
        <5> HIDE DEF v
        <5> QED
          BY <1>6, <4>1
      <4>3. 2 * a <= 2 * ((2 * q) * v) + v
        <5> HIDE DEF v, Q
        <5> QED
          BY <1>0, <1>1, <1>6, <4>1, <4>2 DEF Q
      <4>4. k <= 2 * q
        BY <1>6, <4>2, <4>3, HalfEvenBounds
      <4>5. s <= Q
        BY <1>6, <1>7, <1>8, <4>2, <4>4, TimesMonotone
      <4> HIDE DEF s, Q, k, v
      <4> QED
        BY <1>0, <1>1, <1>6, <1>7, <1>8, <4>1, <4>5 DEF Q
    <3>6. CASE e + 1 # Fraction
      <4>1. (e + 1) + 1 \in Nat /\ (e + 1) + 1 <= Fraction
        BY <1>0, <1>6, <3>3, <3>6
      <4>2. TwoTo[(e + 1) + 1] <= One
        BY <1>0, <4>1, TwoToGrows DEF One
      <4>3. TwoTo[(e + 1) + 1] = 2 * TwoTo[e + 1]
        BY <1>6, TwoToUnfold
      <4>4. 4 * v <= One
        BY <1>0, <1>6, <3>4, <4>2, <4>3
      <4> HIDE DEF s, Q, k, v
      <4> QED
        BY <1>0, <1>1, <1>6, <1>7, <1>8, <4>4 DEF Q
    <3> QED
      BY <3>5, <3>6
  <2> QED
    BY <2>1, <2>2
<1>10. HalfAway(s, One) = q
  <2>1. 2 * (q * One) <= 2 * s + One
    BY <1>9
  <2>2. 2 * s + One < 2 * ((q + 1) * One)
    <3>1. (q + 1) * One = Q + One
      BY <1>0
    <3> HIDE DEF s, Q
    <3> QED
      BY <1>0, <1>1, <1>8, <1>9, <3>1
  <2>3. q <= HalfAway(s, One) /\ HalfAway(s, One) < q + 1 /\ HalfAway(s, One) \in Nat
    <3> HIDE DEF s
    <3>1. q + 1 \in Nat /\ q \in Nat
      OBVIOUS
    <3> QED
      BY <1>0, <1>8, <2>1, <2>2, <3>1, HalfAwayBounds
  <2> QED
    BY <2>3
<1> QED
  BY <1>3, <1>10 DEF Rounded

\* A quantity that is written is read as itself, and as nothing else.
LEMMA ReadAsWritten ==
    ASSUME NEW q \in Nat \ {0}, q <= TwoTo[Precision - 2], NEW p
    PROVE  FromDouble(ToDouble(q), p) <=> p = q
<1>1. /\ ToDouble(q) \in Nat
      /\ ToDouble(q) * Scale \in Nat
      /\ 4 * (ToDouble(q) * Scale) <= 4 * (q * One) + One
      /\ 4 * (q * One) <= 4 * (ToDouble(q) * Scale) + One
  BY DoubleIsNear
<1>2. InRange(Scaled(ToDouble(q))) /\ Rounded(Scaled(ToDouble(q))) = q
  BY <1>1, NearIsRead DEF Scaled
<1>3. Bound \in Nat /\ q \in 0 .. Bound - 1 /\ ~(q >= Bound) /\ ToDouble(q) >= 0
  BY <1>1, ConstantsOK, SmallOK
<1> QED
  BY <1>2, <1>3 DEF FromDouble

\* Sets of quantities of up to a quarter of 2^Precision mean the same on both sides
\* of a message or of a Python dictionary.
WireKeepsQuantities ==
    \A s \in [Resources -> 0 .. TwoTo[Precision - 2]], p \in [Resources -> 0 .. Bound - 1] :
        /\ FromProto(ToProto(s), p) <=> p = s
        /\ ResourceRequestFromDict(ToProto(s), p) <=> p = s

\* ToProto and FromProto, and ResourceRequestFromDict, agree on them.
THEOREM QuantitiesKept == WireKeepsQuantities
<1> SUFFICES ASSUME NEW s \in [Resources -> 0 .. TwoTo[Precision - 2]],
                    NEW p \in [Resources -> 0 .. Bound - 1]
             PROVE  IsSetTo(ToProto(s), p) <=> p = s
  BY DEF WireKeepsQuantities, FromProto, ResourceRequestFromDict
<1> DEFINE d == ToProto(s)
<1>1. TwoTo[Precision - 2] \in Nat
  <2>1. Precision - 2 \in Nat
    BY ConstantsOK
  <2> QED
    BY <2>1, TwoToType
<1>2. DOMAIN d = {r \in Resources : s[r] # 0} /\ \A r \in DOMAIN d : d[r] = ToDouble(s[r])
  BY DEF ToProto
<1>3. \A r \in Resources : s[r] \in Nat /\ s[r] <= TwoTo[Precision - 2]
  BY <1>1
<1>4. \A r \in DOMAIN d : FromDouble(d[r], p[r]) <=> p[r] = s[r]
  <2> SUFFICES ASSUME NEW r \in DOMAIN d PROVE FromDouble(d[r], p[r]) <=> p[r] = s[r]
    OBVIOUS
  <2>1. d[r] = ToDouble(s[r]) /\ s[r] \in Nat \ {0} /\ s[r] <= TwoTo[Precision - 2]
    BY <1>2, <1>3
  <2> QED
    BY <2>1, ReadAsWritten
<1>5. \A r \in Resources \ DOMAIN d : s[r] = 0
  BY <1>2
<1> HIDE DEF d
<1>6. DOMAIN d \subseteq Resources
  BY <1>2
<1>7. IsSetTo(d, p) <=> \A r \in Resources : p[r] = s[r]
  BY <1>4, <1>5, <1>6 DEF IsSetTo
<1>8. (\A r \in Resources : p[r] = s[r]) <=> p = s
  OBVIOUS
<1> QED
  BY <1>7, <1>8 DEF d

-----------------------------------------------------------------------------
(* Requests and capacities on their way *)

QuantitySets == [Resources -> 0 .. Bound - 1]

TransferTypeOK ==
    /\ written \in [Kinds -> UNION {[N -> Doubles] : N \in SUBSET Resources}]
    /\ held \in [Kinds -> QuantitySets \cup {Nothing}]
    /\ message \in [Kinds -> {ToProto(s) : s \in QuantitySets} \cup {Nothing}]
    /\ received \in [Kinds -> QuantitySets \cup {Nothing}]

\* Everything was read from what came before it.
Travelled(k) ==
    /\ held[k] # Nothing => ResourceRequestFromDict(written[k], held[k])
    /\ message[k] # Nothing => held[k] # Nothing /\ message[k] = ToProto(held[k])
    /\ received[k] # Nothing => message[k] # Nothing /\ FromProto(message[k], received[k])

TransferInv == TransferTypeOK /\ \A k \in Kinds : Travelled(k)

\* At first only decimals are there.
LEMMA TransferInitOK == TransferInit => TransferInv
<1> SUFFICES ASSUME TransferInit PROVE TransferInv
  OBVIOUS
<1>1. PICK r \in Dictionaries["request"], c \in Dictionaries["capacity"] :
        written = [k \in Kinds |-> IF k = "request" THEN r ELSE c]
  BY DEF TransferInit
<1> DEFINE D == UNION {[N -> Doubles] : N \in SUBSET Resources}
<1>2. r \in D /\ c \in D
  BY <1>1, TransferAssumption DEF Kinds
<1> HIDE DEF D
<1>3. written \in [Kinds -> D]
  BY <1>1, <1>2
<1> QED
  BY <1>3 DEF TransferInit, TransferInv, TransferTypeOK, Travelled, D

\* Each reading is of what is there, and a message that is sent again is the same.
LEMMA TransferStepOK == TransferInv /\ [TransferNext]_transferVars => TransferInv'
<1> SUFFICES ASSUME TransferInv, [TransferNext]_transferVars PROVE TransferInv'
  OBVIOUS
<1> USE DEF TransferInv
<1>1. ASSUME NEW k \in Kinds, Read(k) PROVE TransferInv'
  <2>1. PICK s \in QuantitySets :
          ResourceRequestFromDict(written[k], s) /\ held' = [held EXCEPT ![k] = s]
    BY <1>1 DEF Read, QuantitySets
  <2>2. held[k] = Nothing /\ UNCHANGED <<written, message, received>>
    BY <1>1 DEF Read
  <2>3. TransferTypeOK'
    BY <2>1, <2>2 DEF TransferTypeOK
  <2>4. ASSUME NEW j \in Kinds PROVE Travelled(j)'
    <3>1. CASE j = k
      BY <2>1, <2>2, <3>1 DEF Travelled, TransferTypeOK
    <3>2. CASE j # k
      BY <2>1, <2>2, <3>2 DEF Travelled, TransferTypeOK
    <3> QED
      BY <3>1, <3>2
  <2> QED
    BY <2>3, <2>4
<1>2. ASSUME NEW k \in Kinds, Send(k) PROVE TransferInv'
  <2>1. /\ held[k] # Nothing /\ message' = [message EXCEPT ![k] = ToProto(held[k])]
        /\ UNCHANGED <<written, held, received>>
    BY <1>2 DEF Send
  <2>2. TransferTypeOK'
    BY <2>1 DEF TransferTypeOK
  <2>3. ASSUME NEW j \in Kinds PROVE Travelled(j)'
    <3>1. CASE j = k
      BY <2>1, <3>1 DEF Travelled, TransferTypeOK
    <3>2. CASE j # k
      BY <2>1, <3>2 DEF Travelled, TransferTypeOK
    <3> QED
      BY <3>1, <3>2
  <2> QED
    BY <2>2, <2>3
<1>3. ASSUME NEW k \in Kinds, Receive(k) PROVE TransferInv'
  <2>1. PICK s \in QuantitySets :
          FromProto(message[k], s) /\ received' = [received EXCEPT ![k] = s]
    BY <1>3 DEF Receive, Readings, QuantitySets
  <2>2. message[k] # Nothing /\ UNCHANGED <<written, held, message>>
    BY <1>3 DEF Receive
  <2>3. TransferTypeOK'
    BY <2>1, <2>2 DEF TransferTypeOK
  <2>4. ASSUME NEW j \in Kinds PROVE Travelled(j)'
    <3>1. CASE j = k
      BY <2>1, <2>2, <3>1 DEF Travelled, TransferTypeOK
    <3>2. CASE j # k
      BY <2>1, <2>2, <3>2 DEF Travelled, TransferTypeOK
    <3> QED
      BY <3>1, <3>2
  <2> QED
    BY <2>3, <2>4
<1>4. CASE UNCHANGED transferVars
  BY <1>4 DEF transferVars, TransferTypeOK, Travelled
<1> QED
  BY <1>1, <1>2, <1>3, <1>4 DEF TransferNext

\* What is held and received has been read from what was written and sent.
THEOREM TransferInvariant == TransferSpec => []TransferInv
BY TransferInitOK, TransferStepOK, PTL DEF TransferSpec

\* QuantitiesAreKept, from WireKeepsQuantities for the dictionary and the message.
LEMMA KeptInState == TransferInv => QuantitiesAreKept
<1> SUFFICES ASSUME TransferInv, NEW k \in Kinds,
                    NEW s \in [Resources -> 0 .. TwoTo[Precision - 2]]
             PROVE  /\ held[k] # Nothing /\ written[k] = ToProto(s) => held[k] = s
                    /\ held[k] = s /\ message[k] # Nothing =>
                          Readings(message[k]) = {s} /\ received[k] \in {Nothing, s}
  BY DEF QuantitiesAreKept
<1>1. \A p \in QuantitySets : /\ FromProto(ToProto(s), p) <=> p = s
                              /\ ResourceRequestFromDict(ToProto(s), p) <=> p = s
  BY QuantitiesKept DEF WireKeepsQuantities, QuantitySets
<1>2. held[k] \in QuantitySets \cup {Nothing} /\ received[k] \in QuantitySets \cup {Nothing}
  BY DEF TransferInv, TransferTypeOK
<1>3. Travelled(k)
  BY DEF TransferInv
<1>4. held[k] # Nothing /\ written[k] = ToProto(s) => held[k] = s
  BY <1>1, <1>2, <1>3 DEF Travelled
<1>5. ASSUME held[k] = s, message[k] # Nothing
      PROVE  Readings(message[k]) = {s} /\ received[k] \in {Nothing, s}
  <2>1. message[k] = ToProto(s)
    BY <1>3, <1>5 DEF Travelled
  <2>2. s \in QuantitySets
    <3>1. s # Nothing
      BY <1>3, <1>5 DEF Travelled
    <3> QED
      BY <1>2, <1>5, <3>1
  <2>3. Readings(message[k]) = {s}
    BY <1>1, <2>1, <2>2 DEF Readings, QuantitySets
  <2>4. received[k] \in {Nothing, s}
    BY <1>1, <1>2, <1>3, <2>1 DEF Travelled
  <2> QED
    BY <2>3, <2>4
<1> QED
  BY <1>4, <1>5

\* QuantitiesAreKept: requests, capacities and reservations of up to a quarter of
\* 2^Precision mean the same in a program, the control plane and a worker.
THEOREM SameEverywhere == TransferSpec => []QuantitiesAreKept
BY TransferInvariant, KeptInState, PTL

\* A zero is read as zero.
LEMMA ZeroIsRead == \A q : FromDouble(0, q) <=> q = 0
<1>0. One \in Nat \ {0} /\ Bound \in Nat \ {0} /\ Scale \in Nat \ {0}
      /\ Precision \in Nat /\ Exponents \in Nat
  BY ConstantsOK
<1>1. Representable(0, 1)
  <2>1. Precision + 2 * Exponents \in Nat
    BY <1>0
  <2>2. TwoTo[Precision + 2 * Exponents] \in Nat \ {0}
    BY <2>1, TwoToType
  <2> QED
    BY <2>2 DEF Representable
<1>2. PICK e \in 0 .. 2 * Exponents :
        /\ 1 * TwoTo[e] \in Nat \ {0}
        /\ TwoTo[e] \in Nat \ {0}
        /\ Nearest(0, 1) = HalfEven(0, 1 * TwoTo[e]) * TwoTo[e]
  BY <1>1, NearestIs
<1>3. \A b \in Nat \ {0} : HalfEven(0, b) = 0
  BY DEF HalfEven
<1>4. Scaled(0) = 0
  BY <1>0, <1>2, <1>3 DEF Scaled
<1>5. InRange(0)
  BY LargestOK, NearestType DEF InRange
<1>6. Rounded(0) = 0
  BY <1>0 DEF Rounded, HalfAway
<1> QED
  BY <1>0, <1>4, <1>5, <1>6 DEF FromDouble

\* OrderIsKept, from ConversionKeepsOrder for each entry.
LEMMA OrderInState == TransferInv => OrderIsKept
<1> DEFINE request == written["request"]
           capacity == written["capacity"]
<1> SUFFICES ASSUME TransferInv,
                    \A r \in DOMAIN capacity : capacity[r] \in Readable,
                    \A r \in Resources : Entry(request, r) <= Entry(capacity, r)
             PROVE  /\ Readings(request) # {}
                    /\ held["request"] # Nothing /\ held["capacity"] # Nothing
                          => CanFit(held["capacity"], held["request"])
  BY DEF OrderIsKept
<1>0. Bound \in Nat \ {0}
  BY ConstantsOK
<1>1. /\ DOMAIN request \subseteq Resources
      /\ DOMAIN capacity \subseteq Resources
      /\ \A r \in DOMAIN request : request[r] \in Doubles /\ request[r] \in Nat
  <2>1. "request" \in Kinds /\ "capacity" \in Kinds
    BY DEF Kinds
  <2>2. PICK N \in SUBSET Resources : request \in [N -> Doubles]
    BY <2>1 DEF TransferInv, TransferTypeOK
  <2>3. PICK M \in SUBSET Resources : capacity \in [M -> Doubles]
    BY <2>1 DEF TransferInv, TransferTypeOK
  <2> QED
    BY <2>2, <2>3, DoublesOK
<1> DEFINE quantity(x) == Rounded(Scaled(x))
<1>2. \A x \in Readable : /\ FromDouble(x, quantity(x)) /\ quantity(x) \in 0 .. Bound - 1
                          /\ \A q : FromDouble(x, q) => q = quantity(x)
  <2>1. \A x \in Readable : FromDouble(x, quantity(x))
    BY OrderKept DEF ConversionKeepsOrder
  <2> QED
    BY <1>0, <2>1 DEF FromDouble
<1>3. \A x \in Doubles, y \in Readable :
         x <= y => x \in Readable /\ quantity(x) <= quantity(y)
  BY OrderKept DEF ConversionKeepsOrder
<1> HIDE DEF request, capacity, quantity
<1>4. ASSUME NEW r \in DOMAIN request, r \in DOMAIN capacity
      PROVE  /\ FromDouble(request[r], quantity(request[r]))
             /\ quantity(request[r]) \in 0 .. Bound - 1
             /\ \A p, q : FromDouble(request[r], p) /\ FromDouble(capacity[r], q) => p <= q
  <2>1. request[r] <= capacity[r]
    BY <1>1, <1>4 DEF Entry
  <2>2. request[r] \in Doubles /\ capacity[r] \in Readable
    BY <1>1, <1>4
  <2>3. request[r] \in Readable /\ quantity(request[r]) <= quantity(capacity[r])
    BY <1>3, <2>1, <2>2
  <2> QED
    BY <1>2, <2>2, <2>3
<1>5. ASSUME NEW r \in DOMAIN request, r \notin DOMAIN capacity
      PROVE  request[r] = 0
  BY <1>1, <1>5 DEF Entry
<1>6. Readings(request) # {}
  <2> DEFINE s == [r \in Resources |-> IF r \in DOMAIN request /\ r \in DOMAIN capacity
                                       THEN quantity(request[r]) ELSE 0]
  <2>1. s \in [Resources -> 0 .. Bound - 1]
    BY <1>0, <1>1, <1>4
  <2>2. \A r \in DOMAIN request : FromDouble(request[r], s[r])
    BY <1>1, <1>4, <1>5, ZeroIsRead
  <2>3. \A r \in Resources \ DOMAIN request : s[r] = 0
    OBVIOUS
  <2> HIDE DEF s
  <2>4. IsSetTo(request, s)
    BY <1>1, <2>2, <2>3 DEF IsSetTo
  <2> QED
    BY <2>1, <2>4 DEF Readings, FromProto
<1>7. ASSUME held["request"] # Nothing, held["capacity"] # Nothing
      PROVE  CanFit(held["capacity"], held["request"])
  <2> DEFINE p == held["request"]
             q == held["capacity"]
  <2>1. /\ IsSetTo(request, p) /\ IsSetTo(capacity, q)
        /\ p \in QuantitySets /\ q \in QuantitySets
    BY <1>7 DEF TransferInv, TransferTypeOK, Travelled, Kinds, ResourceRequestFromDict,
       request, capacity
  <2> HIDE DEF p, q
  <2> SUFFICES ASSUME NEW r \in Resources PROVE p[r] <= q[r]
    BY DEF CanFit, p, q
  <2>2. p[r] \in Nat /\ q[r] \in Nat
    BY <1>0, <2>1 DEF QuantitySets
  <2>3. CASE r \in DOMAIN request /\ r \in DOMAIN capacity
    BY <1>4, <2>1, <2>3 DEF IsSetTo
  <2>4. CASE r \in DOMAIN request /\ r \notin DOMAIN capacity
    BY <1>5, <2>1, <2>2, <2>4, ZeroIsRead DEF IsSetTo
  <2>5. CASE r \notin DOMAIN request
    BY <2>1, <2>2, <2>5 DEF IsSetTo
  <2> QED
    BY <2>3, <2>4, <2>5
<1> QED
  BY <1>6, <1>7 DEF request

\* OrderIsKept: a request that is written as no more than a capacity fits it.
THEOREM FitsAsWritten == TransferSpec => []OrderIsKept
BY TransferInvariant, OrderInState, PTL
=============================================================================
