----------------------------- MODULE FixedPoint -----------------------------
(***************************************************************************)
(* Quantities of resources and the doubles they are written as, in Python  *)
(* dictionaries and in protocol buffers: ResourceQuantity and              *)
(* ResourceSet::Set (src/cpp/src/dar/core/resource.cpp), and the           *)
(* conversions of src/cpp/src/dar/serialization and of the bindings.       *)
(*                                                                         *)
(* A real number is the integer that counts its multiples of 1 / One, the  *)
(* least positive double.  Precision, Width and Scale are 53, 64 and 10000 *)
(* in the code; the instances have smaller ones.                           *)
(***************************************************************************)
EXTENDS ResourcePool

CONSTANTS Precision,   \* bits of a double's significand
          Width,       \* bits of ResourceQuantity::value_
          Scale,       \* ResourceQuantity::kScale
          Fraction,    \* binary digits after the point of the least double
          Exponents    \* bound: exponents of the doubles that are tried

\* 2 ^ n, as a recursion that proofs can unfold.
TwoTo[n \in Nat] == IF n = 0 THEN 1 ELSE 2 * TwoTo[n - 1]

One == TwoTo[Fraction]
Bound == TwoTo[Width - 1]    \* the first integer that does not fit value_

\* Quantities have fewer bits than the exponents of doubles, and more than
\* their significands.
ASSUME FixedPointAssumption ==
    /\ {Precision, Width, Scale, Fraction, Exponents} \subseteq Nat \ {0}
    /\ 2 <= Precision /\ Precision < Width - 1
    /\ 2 * Scale <= One
    /\ Scale <= TwoTo[Exponents]
    /\ Width - 1 + Fraction <= Precision + 2 * Exponents

Doubles == {m * TwoTo[e] : m \in 0 .. TwoTo[Precision] - 1, e \in 0 .. Exponents}

HalfEven(a, b) ==
    LET q == a \div b
        r == 2 * (a % b)
    IN  IF r < b \/ (r = b /\ q % 2 = 0) THEN q ELSE q + 1

\* std::llround of a / b, without its overflow.
HalfAway(a, b) == (2 * a + b) \div (2 * b)

\* The unit in the last place of the double next to a / b is 2 ^ e least doubles.
IsUlp(a, b, e) ==
    /\ a < TwoTo[Precision + e] * b
    /\ e = 0 \/ a >= TwoTo[Precision + e - 1] * b

\* The double a floating-point operation gives for a / b.
Nearest(a, b) ==
    LET ulp == TwoTo[CHOOSE e \in 0 .. 2 * Exponents : IsUlp(a, b, e)]
    IN  HalfEven(a, b * ulp) * ulp

-----------------------------------------------------------------------------
(* ResourceQuantity *)

Scaled(x) == Nearest(x * Scale, 1)

AlwaysInRange(scaled) == TRUE    \* variant: no check
InRange(scaled) == scaled <= Nearest((Bound - 1) * One, 1)

Truncated(scaled) == scaled \div One    \* variant: a cast instead of llround
Rounded(scaled) == HalfAway(scaled, One)

\* FromDouble reads x as the quantity q.  A result that does not fit is any
\* value of the type; ResourceSet::Set then refuses the negative ones.
FromDouble(x, q) ==
    /\ x >= 0
    /\ InRange(Scaled(x))
    /\ \/ q = Rounded(Scaled(x))
       \/ Rounded(Scaled(x)) >= Bound
    /\ q \in 0 .. Bound - 1

\* value_ is rounded to a double, and the quotient once more.
ToDouble(q) == Nearest(Nearest(q * One, 1), Scale)

-----------------------------------------------------------------------------
(* Sets of resources: d maps names to doubles.  One entry that is refused    *)
(* refuses them all; a name that is absent, or given as zero, counts zero.    *)

IsSetTo(d, s) ==
    /\ DOMAIN d \subseteq Resources
    /\ \A r \in DOMAIN d : FromDouble(d[r], s[r])
    /\ \A r \in Resources \ DOMAIN d : s[r] = 0

\* Of a Python dictionary, of a message, and into a message.
ResourceRequestFromDict(d, s) == IsSetTo(d, s)
FromProto(d, s) == IsSetTo(d, s)
ToProto(s) == [r \in {name \in Resources : s[name] # 0} |-> ToDouble(s[r])]

-----------------------------------------------------------------------------
\* The doubles FromDouble accepts and can convert: of those it accepts only the one
\* that is Bound itself overflows.
Readable == {x \in Doubles : InRange(Scaled(x)) /\ Scaled(x) # Bound * One}
=============================================================================
