-------------------------- MODULE ArithmeticProofs --------------------------
(***************************************************************************)
(* What the proofs about the components need of numbers: induction, the    *)
(* arithmetic of pools, and sums over finite sets, by the fold of the      *)
(* community modules, for the control plane's pools: a sum is its value at *)
(* one element, whichever, and the sum over the others.                    *)
(*                                                                         *)
(* The fold is a recursive function on the subsets of a set.  Induction on *)
(* their cardinality shows that it exists and what it computes; as the     *)
(* provers do not instantiate theorems about operators, the induction is   *)
(* over a set of numbers (SetInduction).                                   *)
(***************************************************************************)
EXTENDS ResourcePool, Functions, FiniteSetTheorems, WellFoundedInduction, TLAPS

(* Induction *)

\* Every non-empty set of natural numbers has a least element.
LEMMA LeastNat ==
    ASSUME NEW T, T \subseteq Nat, T # {}
    PROVE  \E m \in T : \A k \in T : m <= k
<1> DEFINE Less == {ss \in Nat \X Nat : ss[1] < ss[2]}
<1>1. IsWellFoundedOn(Less, Nat)
  BY NatLessThanWellFounded DEF OpToRel
<1> HIDE DEF Less
<1>2. PICK m \in T : \A k \in T : ~(<<k, m>> \in Less)
  BY <1>1, WFMin
<1>3. \A k \in T : ~(k < m)
  BY <1>2 DEF Less
<1> QED
  BY <1>3

\* Induction, for a property given by the set of numbers that have it.
LEMMA SetInduction ==
    ASSUME NEW P, 0 \in P, \A n \in Nat : n \in P => n + 1 \in P
    PROVE  Nat \subseteq P
<1> SUFFICES ASSUME Nat \ P # {} PROVE FALSE
  OBVIOUS
<1>1. PICK m \in Nat \ P : \A k \in Nat \ P : m <= k
  BY LeastNat
<1>2. m - 1 \in Nat /\ m - 1 \in P
  BY <1>1
<1> QED
  BY <1>1, <1>2

-----------------------------------------------------------------------------
(* Pools *)

\* Acquire keeps a pool a vector of naturals when CanFit was checked.
LEMMA AcquireType ==
    ASSUME NEW a \in Quantities, NEW r \in Quantities, CanFit(a, r)
    PROVE  Acquire(a, r) \in Quantities
BY DEF Quantities, CanFit, Acquire

\* Release does, whatever it is asked to return.
LEMMA ReleaseType ==
    ASSUME NEW c \in Quantities, NEW a \in Quantities, NEW r \in Quantities
    PROVE  Release(c, a, r) \in Quantities
BY DEF Quantities, Release, CanRelease

\* Acquire after its check leaves no more than there was.
LEMMA AcquireWithin ==
    ASSUME NEW c \in Quantities, NEW a \in Quantities, NEW r \in Quantities,
           CanFit(a, r), Within(c, a)
    PROVE  Within(c, Acquire(a, r))
BY DEF Quantities, CanFit, Acquire, Within

\* The invariant ResourcePool::Release documents: the pool never has more than
\* its total, whatever it is asked to take back.
LEMMA ReleaseWithin ==
    ASSUME NEW c \in Quantities, NEW a \in Quantities, NEW r \in Quantities,
           Within(c, a)
    PROVE  Within(c, Release(c, a, r))
BY DEF Quantities, CanFit, Release, CanRelease, Within

-----------------------------------------------------------------------------
(* What SumFunctionOnSet computes *)

\* The element that the fold takes next.
Pick(s) == CHOOSE x \in s : TRUE

\* g is the recursive function in the definition of the fold.
Unfold(g, f, s) == IF s = {} THEN 0 ELSE f[Pick(s)] + g[s \ {Pick(s)}]
Run(g, f, S) == g = [s \in SUBSET S |-> Unfold(g, f, s)]

\* Taking an element away makes a finite set smaller.
LEMMA PickSmaller ==
    ASSUME NEW s, IsFiniteSet(s), s # {}
    PROVE  /\ Pick(s) \in s
           /\ IsFiniteSet(s \ {Pick(s)})
           /\ Cardinality(s) \in Nat
           /\ Cardinality(s \ {Pick(s)}) = Cardinality(s) - 1
<1>1. Pick(s) \in s
  BY DEF Pick
<1> QED
  BY <1>1, FS_RemoveElement, FS_CardinalityType

\* The recursion has a solution.
LEMMA RunExists ==
    ASSUME NEW f, NEW S, IsFiniteSet(S)
    PROVE  \E g : Run(g, f, S)
<1> DEFINE Upto(n) == {s \in SUBSET S : Cardinality(s) <= n}
           Part(g, n) == g = [s \in Upto(n) |-> Unfold(g, f, s)]
           P == {n \in Nat : \E g : Part(g, n)}
<1>0. \A s \in SUBSET S : IsFiniteSet(s) /\ Cardinality(s) \in Nat
  BY FS_Subset, FS_CardinalityType
<1>1. 0 \in P
  <2> DEFINE g == [s \in Upto(0) |-> 0]
  <2>1. \A s \in Upto(0) : s = {}
    BY <1>0, FS_EmptySet
  <2>2. Part(g, 0)
    BY <2>1 DEF Unfold
  <2> QED
    BY <2>2
<1>2. ASSUME NEW n \in Nat, n \in P PROVE n + 1 \in P
  <2>1. PICK g : Part(g, n)
    BY <1>2
  <2> DEFINE h == [s \in Upto(n + 1) |-> IF s \in Upto(n) THEN g[s] ELSE Unfold(g, f, s)]
  <2>2. ASSUME NEW s \in Upto(n + 1), s # {} PROVE s \ {Pick(s)} \in Upto(n)
    <3>1. /\ Cardinality(s) \in Nat /\ Cardinality(s) <= n + 1
          /\ Cardinality(s \ {Pick(s)}) = Cardinality(s) - 1
      BY <1>0, <2>2, PickSmaller
    <3>2. Cardinality(s \ {Pick(s)}) <= n /\ s \ {Pick(s)} \in SUBSET S
      BY <3>1
    <3> QED
      BY <3>2
  <2>3. Upto(n) \subseteq Upto(n + 1)
    BY <1>0
  <2>4. \A s \in Upto(n) : g[s] = Unfold(g, f, s)
    BY <2>1
  <2>5. \A s \in Upto(n) : h[s] = g[s]
    BY <2>3
  <2>6. \A s \in Upto(n + 1) : h[s] = Unfold(g, f, s)
    BY <2>4
  <2>7. h = [s \in Upto(n + 1) |-> h[s]]
    OBVIOUS
  <2> HIDE DEF Upto, h
  <2>8. \A s \in Upto(n + 1) : Unfold(h, f, s) = Unfold(g, f, s)
    BY <2>2, <2>5 DEF Unfold
  <2>9. Part(h, n + 1)
    BY <2>6, <2>7, <2>8
  <2> QED
    BY <2>9
<1>3. Nat \subseteq P
  <2> HIDE DEF P
  <2> QED
    BY <1>1, <1>2, SetInduction
<1>4. Cardinality(S) \in Nat /\ Upto(Cardinality(S)) = SUBSET S
  BY FS_CardinalityType, FS_Subset
<1> QED
  BY <1>3, <1>4 DEF Run

\* Solutions agree on the sets they share.
LEMMA RunUnique ==
    ASSUME NEW f, NEW S, NEW T, NEW g, NEW h, Run(g, f, S), Run(h, f, T),
           NEW s, s \subseteq S, s \subseteq T, IsFiniteSet(s)
    PROVE  g[s] = h[s]
<1> DEFINE P == {n \in Nat : \A u \in SUBSET s : Cardinality(u) = n => g[u] = h[u]}
<1>0. \A u \in SUBSET s : /\ IsFiniteSet(u) /\ Cardinality(u) \in Nat
                          /\ g[u] = Unfold(g, f, u) /\ h[u] = Unfold(h, f, u)
  BY FS_Subset, FS_CardinalityType DEF Run
<1>1. 0 \in P
  BY <1>0, FS_EmptySet DEF Unfold
<1>2. ASSUME NEW n \in Nat, n \in P PROVE n + 1 \in P
  <2> SUFFICES ASSUME NEW u \in SUBSET s, Cardinality(u) = n + 1 PROVE g[u] = h[u]
    OBVIOUS
  <2>1. u # {}
    BY FS_EmptySet
  <2>2. u \ {Pick(u)} \in SUBSET s /\ Cardinality(u \ {Pick(u)}) = n
    BY <1>0, <2>1, PickSmaller
  <2>3. g[u \ {Pick(u)}] = h[u \ {Pick(u)}]
    BY <1>2, <2>2
  <2> QED
    BY <1>0, <2>1, <2>3 DEF Unfold
<1>3. Nat \subseteq P
  <2> HIDE DEF P
  <2> QED
    BY <1>1, <1>2, SetInduction
<1> QED
  BY <1>0, <1>3

\* The fold is a solution.
LEMMA SumIsRun ==
    ASSUME NEW f, NEW S, IsFiniteSet(S)
    PROVE  \E g : Run(g, f, S) /\ SumFunctionOnSet(f, S) = g[S]
<1> DEFINE it == CHOOSE g : g = [s \in SUBSET S |->
                   IF s = {} THEN 0
                   ELSE f[CHOOSE x \in s : TRUE] + g[s \ {CHOOSE x \in s : TRUE}]]
<1>1. SumFunctionOnSet(f, S) = it[S]
  BY DEF SumFunctionOnSet, FoldFunctionOnSet, MapThenFoldSet
<1>2. it = CHOOSE g : Run(g, f, S)
  BY DEF Run, Unfold, Pick
<1> HIDE DEF it
<1>3. Run(it, f, S)
  BY <1>2, RunExists
<1> QED
  BY <1>1, <1>3

-----------------------------------------------------------------------------
(* Sums *)

\* The sum over no element.
LEMMA SumEmpty ==
    ASSUME NEW f
    PROVE  SumFunctionOnSet(f, {}) = 0
<1>1. PICK g : Run(g, f, {}) /\ SumFunctionOnSet(f, {}) = g[{}]
  BY FS_EmptySet, SumIsRun
<1> QED
  BY <1>1 DEF Run, Unfold

\* The sum over a set, by the element the fold takes first.
LEMMA SumUnfold ==
    ASSUME NEW f, NEW S, IsFiniteSet(S), S # {}
    PROVE  SumFunctionOnSet(f, S) = f[Pick(S)] + SumFunctionOnSet(f, S \ {Pick(S)})
<1> DEFINE R == S \ {Pick(S)}
<1>1. IsFiniteSet(R)
  BY PickSmaller
<1>2. PICK g : Run(g, f, S) /\ SumFunctionOnSet(f, S) = g[S]
  BY SumIsRun
<1>3. PICK h : Run(h, f, R) /\ SumFunctionOnSet(f, R) = h[R]
  BY <1>1, SumIsRun
<1>4. g[R] = h[R]
  BY <1>1, <1>2, <1>3, RunUnique
<1>5. g[S] = f[Pick(S)] + g[R]
  BY <1>2 DEF Run, Unfold
<1> QED
  BY <1>2, <1>3, <1>4, <1>5

\* Sums of natural numbers are natural numbers.
LEMMA SumType ==
    ASSUME NEW f, NEW S, IsFiniteSet(S), \A x \in S : f[x] \in Nat
    PROVE  SumFunctionOnSet(f, S) \in Nat
<1> DEFINE P == {n \in Nat : \A T \in SUBSET S :
                    Cardinality(T) = n => SumFunctionOnSet(f, T) \in Nat}
<1>0. \A T \in SUBSET S : IsFiniteSet(T) /\ Cardinality(T) \in Nat
  BY FS_Subset, FS_CardinalityType
<1>1. 0 \in P
  BY <1>0, FS_EmptySet, SumEmpty
<1>2. ASSUME NEW n \in Nat, n \in P PROVE n + 1 \in P
  <2> SUFFICES ASSUME NEW T \in SUBSET S, Cardinality(T) = n + 1
               PROVE  SumFunctionOnSet(f, T) \in Nat
    OBVIOUS
  <2>1. T # {}
    BY FS_EmptySet
  <2>2. Pick(T) \in S /\ T \ {Pick(T)} \in SUBSET S /\ Cardinality(T \ {Pick(T)}) = n
    BY <1>0, <2>1, PickSmaller
  <2>3. f[Pick(T)] \in Nat /\ SumFunctionOnSet(f, T \ {Pick(T)}) \in Nat
    BY <1>2, <2>2
  <2>4. SumFunctionOnSet(f, T) = f[Pick(T)] + SumFunctionOnSet(f, T \ {Pick(T)})
    BY <1>0, <2>1, SumUnfold
  <2> QED
    BY <2>3, <2>4
<1>3. Nat \subseteq P
  <2> HIDE DEF P
  <2> QED
    BY <1>1, <1>2, SetInduction
<1> QED
  BY <1>0, <1>3

\* Any element may be taken out first: the order of the fold does not matter.
LEMMA SumRemove ==
    ASSUME NEW f, NEW S, IsFiniteSet(S), \A x \in S : f[x] \in Nat, NEW a \in S
    PROVE  SumFunctionOnSet(f, S) = f[a] + SumFunctionOnSet(f, S \ {a})
<1> DEFINE Sum(T) == SumFunctionOnSet(f, T)
           P == {n \in Nat : \A T \in SUBSET S : \A x \in T :
                    Cardinality(T) = n => Sum(T) = f[x] + Sum(T \ {x})}
<1>0. \A T \in SUBSET S : IsFiniteSet(T) /\ Cardinality(T) \in Nat /\ Sum(T) \in Nat
  BY FS_Subset, FS_CardinalityType, SumType
<1>1. 0 \in P
  BY <1>0, FS_EmptySet
<1>2. ASSUME NEW n \in Nat, n \in P PROVE n + 1 \in P
  <2> SUFFICES ASSUME NEW T \in SUBSET S, NEW x \in T, Cardinality(T) = n + 1
               PROVE  Sum(T) = f[x] + Sum(T \ {x})
    OBVIOUS
  <2> DEFINE c == Pick(T)
  <2>1. T # {} /\ c \in T /\ Cardinality(T \ {c}) = n
    BY <1>0, PickSmaller
  <2>2. Sum(T) = f[c] + Sum(T \ {c})
    BY <1>0, <2>1, SumUnfold
  <2>3. Cardinality(T \ {x}) = n
    <3>1. Cardinality(T \ {x}) = Cardinality(T) - 1
      BY <1>0, FS_RemoveElement
    <3> QED
      BY <3>1
  <2> HIDE DEF c, Sum
  <2>4. CASE c = x
    BY <2>2, <2>4
  <2>5. CASE c # x
    <3>1. Sum(T \ {c}) = f[x] + Sum((T \ {c}) \ {x})
      BY <1>2, <2>1, <2>5
    <3>2. Sum(T \ {x}) = f[c] + Sum((T \ {x}) \ {c})
      BY <1>2, <2>1, <2>3, <2>5
    <3>3. (T \ {c}) \ {x} = (T \ {x}) \ {c}
      OBVIOUS
    <3>4. f[x] \in Nat /\ f[c] \in Nat /\ Sum((T \ {x}) \ {c}) \in Nat
      BY <1>0, <2>1
    <3> QED
      BY <2>2, <3>1, <3>2, <3>3, <3>4
  <2> QED
    BY <2>4, <2>5
<1>3. Nat \subseteq P
  <2> HIDE DEF P
  <2> QED
    BY <1>1, <1>2, SetInduction
<1> QED
  BY <1>0, <1>3
=============================================================================
