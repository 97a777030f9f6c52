------------------------------ MODULE FoldFacts ------------------------------
(***************************************************************************)
(* Numbers, and the folds of the models: FoldLeft takes the elements of a  *)
(* list in a recursive function on the sets of its positions, the largest  *)
(* position first.  Here: that such a function exists, and that its values *)
(* on 1..0, 1..1, 1..2, ... are those of a loop over the list.             *)
(***************************************************************************)
EXTENDS Integers, FiniteSetsExt, FiniteSetTheorems, TLAPS

\* A set of numbers that is not empty has a least one.
LEMMA Least ==
    ASSUME NEW T \in SUBSET Nat, T # {}
    PROVE  \E x \in T : \A y \in T : x <= y
  <1> DEFINE R == OpToRel(<, Nat)
  <1>1. \A x, y \in Nat : <<x, y>> \in R <=> x < y
    BY Zenon DEF OpToRel
  <1>2. IsWellFoundedOn(R, Nat)
    BY NatLessThanWellFounded
  <1> HIDE DEF R
  <1>3. PICK x \in T : \A y \in T : ~ (<<y, x>> \in R)
    BY <1>2, WFMin
  <1>4. \A y \in T : y \in Nat /\ x \in Nat /\ ~(y < x)
    BY <1>1, <1>3
  <1>5. \A y \in T : x <= y
    BY <1>4
  <1> QED
    BY <1>5

\* Induction, for a set of numbers.
LEMMA Induct ==
    ASSUME NEW T, 0 \in T, \A n \in Nat : n \in T => n + 1 \in T
    PROVE  Nat \subseteq T
  <1> DEFINE B == Nat \ T
  <1>1. SUFFICES ASSUME B # {} PROVE FALSE
    OBVIOUS
  <1>2. PICK x \in B : \A y \in B : x <= y
    BY <1>1, Least
  <1>3. x \in Nat /\ x # 0 /\ x - 1 \in Nat /\ x - 1 \in T
    BY <1>2
  <1> QED
    BY <1>2, <1>3

-----------------------------------------------------------------------------
(* Folds.                                                                   *)

LEMMA UptoFinite ==
    ASSUME NEW n \in Nat, NEW s \in SUBSET (1..n)
    PROVE  IsFiniteSet(s) /\ Cardinality(s) \in Nat
  <1>1. IsFiniteSet(1..n)
    BY FS_Interval
  <1> QED
    BY <1>1, FS_Subset, FS_CardinalityType

Topmost(s) == Max(s)

LEMMA LastOfSome ==
    ASSUME NEW n \in Nat, NEW s \in SUBSET (1..n), s # {}
    PROVE  /\ Topmost(s) \in s /\ s \ {Topmost(s)} \in SUBSET (1..n)
           /\ IsFiniteSet(s) /\ IsFiniteSet(s \ {Topmost(s)})
           /\ Cardinality(s \ {Topmost(s)}) \in Nat
           /\ Cardinality(s) = Cardinality(s \ {Topmost(s)}) + 1
  <1>1. IsFiniteSet(s)
    BY UptoFinite
  <1>2. Topmost(s) \in s
    <2> DEFINE T == {n + 1 - x : x \in s}
    <2>1. T \in SUBSET Nat /\ T # {}
      <3>1. \A x \in s : n + 1 - x \in Nat
        OBVIOUS
      <3> QED
        BY <3>1
    <2>2. PICK y \in T : \A z \in T : y <= z
      BY <2>1, Least
    <2>3. PICK x \in s : y = n + 1 - x
      OBVIOUS
    <2>4. \A z \in s : n + 1 - z \in T
      OBVIOUS
    <2>5. \A z \in s : x >= z
      <3>1. \A z \in s : n + 1 - x <= n + 1 - z
        BY <2>2, <2>3, <2>4
      <3> QED
        BY <3>1
    <2> QED
      BY <2>5 DEF Topmost, Max
  <1>3. IsFiniteSet(s \ {Topmost(s)}) /\ Cardinality(s \ {Topmost(s)}) = Cardinality(s) - 1
    BY <1>1, <1>2, FS_RemoveElement
  <1>4. Cardinality(s) \in Nat /\ Cardinality(s \ {Topmost(s)}) \in Nat
    BY <1>1, <1>3, FS_CardinalityType
  <1>5. Cardinality(s) = Cardinality(s \ {Topmost(s)}) + 1
    BY <1>3, <1>4
  <1>6. s \ {Topmost(s)} \in SUBSET (1..n)
    OBVIOUS
  <1> QED
    BY <1>1, <1>2, <1>3, <1>4, <1>5, <1>6

LEMMA LastOfFirst ==
    ASSUME NEW n \in Nat
    PROVE  /\ 1..0 = {}
           /\ Topmost(1..(n + 1)) = n + 1 /\ (1..(n + 1)) \ {n + 1} = 1..n
           /\ 1..(n + 1) # {}
  <1>1. n + 1 \in 1..(n + 1) /\ \A y \in 1..(n + 1) : n + 1 >= y
    OBVIOUS
  <1>2. \A x \in 1..(n + 1) : (\A y \in 1..(n + 1) : x >= y) => x = n + 1
    BY <1>1
  <1>3. Topmost(1..(n + 1)) = n + 1
    BY <1>1, <1>2 DEF Topmost, Max
  <1> QED
    BY <1>1, <1>3

FoldsTo(it, n, S, base, F) ==
    /\ it \in [SUBSET (1..n) -> S]
    /\ it[{}] = base
    /\ \A s \in SUBSET (1..n) : s # {} => it[s] = F[Topmost(s)][it[s \ {Topmost(s)}]]

\* Folding steps that stay among the values can be done.
LEMMA FoldMade ==
    ASSUME NEW n \in Nat, NEW S, NEW base \in S, NEW F \in [1..n -> [S -> S]]
    PROVE  \E it : FoldsTo(it, n, S, base, F)
  <1> DEFINE D == SUBSET (1..n)
             Folds(g, s) == g[s] = IF s = {} THEN base ELSE F[Topmost(s)][g[s \ {Topmost(s)}]]
             Upto(g, k) == g \in [D -> S] /\ \A s \in D : Cardinality(s) <= k => Folds(g, s)
             P(k) == \E g : Upto(g, k)
             T == {k \in Nat : P(k)}
  <1>0. \A s \in D : IsFiniteSet(s) /\ Cardinality(s) \in Nat /\ (Cardinality(s) = 0 => s = {})
    <2>1. \A s \in D : IsFiniteSet(s) /\ Cardinality(s) \in Nat
      BY UptoFinite
    <2> QED
      BY <2>1, FS_EmptySet
  <1>1. P(0)
    <2>1. \A s \in D : Cardinality(s) <= 0 => s = {}
      BY <1>0
    <2>2. Upto([s \in D |-> base], 0)
      BY <2>1
    <2> QED
      BY <2>2
  <1>2. ASSUME NEW k \in Nat, P(k) PROVE P(k + 1)
    <2>1. PICK g : Upto(g, k)
      BY <1>2
    <2> DEFINE h == [s \in D |-> IF s = {} THEN base ELSE F[Topmost(s)][g[s \ {Topmost(s)}]]]
    <2>2. \A s \in D : s # {} => Topmost(s) \in 1..n /\ s \ {Topmost(s)} \in D /\
                                 Cardinality(s) = Cardinality(s \ {Topmost(s)}) + 1 /\
                                 Cardinality(s \ {Topmost(s)}) \in Nat
      BY LastOfSome
    <2>3. h \in [D -> S]
      <3>1. g \in [D -> S]
        BY <2>1
      <3>2. ASSUME NEW s \in D, s # {} PROVE F[Topmost(s)][g[s \ {Topmost(s)}]] \in S
        <4>1. F[Topmost(s)] \in [S -> S] /\ g[s \ {Topmost(s)}] \in S
          BY ONLY <2>2, <3>1, <3>2, F \in [1..n -> [S -> S]]
        <4> QED
          BY ONLY <4>1
      <3>3. \A s \in D : (IF s = {} THEN base ELSE F[Topmost(s)][g[s \ {Topmost(s)}]]) \in S
        BY ONLY <3>2, base \in S
      <3> QED
        BY ONLY <3>3
    <2>4. ASSUME NEW s \in D, Cardinality(s) <= k + 1 PROVE Folds(h, s)
      <3>1. CASE s = {}
        BY <3>1
      <3>2. CASE s # {}
        <4> DEFINE r == s \ {Topmost(s)}
        <4>1. r \in D /\ Cardinality(r) <= k
          BY <2>2, <2>4, <3>2
        <4>2. h[r] = g[r]
          BY <2>1, <4>1
        <4> QED
          BY <3>2, <4>2
      <3> QED
        BY <3>1, <3>2
    <2>5. Upto(h, k + 1)
      BY <2>3, <2>4
    <2> HIDE DEF Upto, h
    <2> QED
      BY <2>5
  <1> HIDE DEF P
  <1>3. Nat \subseteq T
    <2>1. 0 \in T /\ \A k \in Nat : k \in T => k + 1 \in T
      BY <1>1, <1>2
    <2> HIDE DEF T
    <2> QED
      BY <2>1, Induct
  <1>4. IsFiniteSet(1..n) /\ Cardinality(1..n) \in Nat
    BY <1>0
  <1>5. PICK g : Upto(g, Cardinality(1..n))
    BY <1>3, <1>4 DEF P
  <1>6. \A s \in D : Cardinality(s) <= Cardinality(1..n)
    BY <1>4, FS_Subset, FS_CardinalityType
  <1>7. g \in [D -> S] /\ \A s \in D : Folds(g, s)
    BY <1>5, <1>6
  <1> QED
    BY <1>7 DEF FoldsTo

\* A loop of n steps.
Runs(acc, n, base, F) ==
    acc[0] = base /\ \A k \in 0..(n - 1) : acc[k + 1] = F[k + 1][acc[k]]

\* What is known of a function that is chosen to fold.
Folding(it, n, S, base, F) ==
    /\ it[{}] = base
    /\ \A s \in SUBSET (1..n) : s # {} /\ it[s \ {Topmost(s)}] \in S
          => it[s] = F[Topmost(s)][it[s \ {Topmost(s)}]]

\* The recursive function of a fold holds the states of the loop.
LEMMA FoldRuns ==
    ASSUME NEW n \in Nat, NEW S, NEW base \in S, NEW F \in [1..n -> [S -> S]], NEW it,
           Folding(it, n, S, base, F)
    PROVE  \E acc \in [0..n -> S] : Runs(acc, n, base, F) /\ it[1..n] = acc[n]
  <1> DEFINE acc == [k \in 0..n |-> it[1..k]]
             T == {k \in Nat : k <= n => it[1..k] \in S}
  <1>1. \A k \in 0..(n - 1) : it[1..k] \in S => it[1..(k + 1)] = F[k + 1][it[1..k]]
    <2> SUFFICES ASSUME NEW k \in 0..(n - 1), it[1..k] \in S
                 PROVE  it[1..(k + 1)] = F[k + 1][it[1..k]]
      OBVIOUS
    <2>1. k \in Nat /\ 1..(k + 1) \in SUBSET (1..n)
      OBVIOUS
    <2>2. Topmost(1..(k + 1)) = k + 1 /\ (1..(k + 1)) \ {k + 1} = 1..k /\ 1..(k + 1) # {}
      BY <2>1, LastOfFirst
    <2> QED
      BY <2>1, <2>2 DEF Folding
  <1>2. 0 \in T
    <2>1. 1..0 = {}
      OBVIOUS
    <2> QED
      BY <2>1 DEF Folding
  <1>3. ASSUME NEW k \in Nat, k \in T PROVE k + 1 \in T
    <2>1. ASSUME k + 1 <= n PROVE it[1..(k + 1)] \in S
      <3>1. k \in 0..(n - 1) /\ k + 1 \in 1..n /\ it[1..k] \in S
        BY <1>3, <2>1
      <3>2. F[k + 1] \in [S -> S]
        BY <3>1
      <3> QED
        BY <1>1, <3>1, <3>2
    <2> QED
      BY <2>1
  <1> HIDE DEF T
  <1>4. Nat \subseteq T
    BY <1>2, <1>3, Induct
  <1>5. \A k \in 0..n : it[1..k] \in S
    BY <1>4 DEF T
  <1>6. acc \in [0..n -> S] /\ acc[n] = it[1..n]
    BY <1>5
  <1>7. acc[0] = base
    <2>1. 1..0 = {} /\ 0 \in 0..n
      OBVIOUS
    <2> QED
      BY <2>1 DEF Folding
  <1>8. \A k \in 0..(n - 1) : acc[k + 1] = F[k + 1][acc[k]]
    <2>1. \A k \in 0..(n - 1) : k \in 0..n /\ k + 1 \in 0..n
      OBVIOUS
    <2> QED
      BY <1>1, <1>5, <2>1
  <1> QED
    BY <1>6, <1>7, <1>8 DEF Runs

\* Loops that take the same steps are in the same states.
LEMMA SameRuns ==
    ASSUME NEW n \in Nat, NEW m \in Nat, n <= m, NEW base, NEW F, NEW G,
           NEW acc, Runs(acc, n, base, F), NEW bcc, Runs(bcc, m, base, G),
           \A k \in 1..n : F[k] = G[k]
    PROVE  acc[n] = bcc[n]
  <1> DEFINE T == {k \in Nat : k <= n => acc[k] = bcc[k]}
  <1>1. 0 \in T
    BY DEF Runs
  <1>2. ASSUME NEW k \in Nat, k \in T PROVE k + 1 \in T
    <2>1. ASSUME k + 1 <= n PROVE acc[k + 1] = bcc[k + 1]
      <3>1. k \in 0..(n - 1) /\ k \in 0..(m - 1) /\ k + 1 \in 1..n /\ acc[k] = bcc[k]
        BY <1>2, <2>1
      <3> QED
        BY <3>1 DEF Runs
    <2> QED
      BY <2>1
  <1> HIDE DEF T
  <1>3. Nat \subseteq T
    BY <1>1, <1>2, Induct
  <1> QED
    BY <1>3 DEF T
=============================================================================
