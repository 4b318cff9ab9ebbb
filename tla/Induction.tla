------------------------------ MODULE Induction ------------------------------
(***************************************************************************)
(* Induction over the natural numbers and the values of functions defined  *)
(* by recursion on them, stated with sets so that the provers can use it.  *)
(***************************************************************************)
EXTENDS Integers, WellFoundedInduction, TLAPS

\* A set of natural numbers has a least element.
LEMMA LeastNatural ==
    ASSUME NEW T, T \subseteq Nat, T # {}
    PROVE  \E m \in T : \A k \in T : m <= k
<1>. DEFINE R == OpToRel(<, Nat)
<1>1. IsWellFoundedOn(R, Nat)
    BY NatLessThanWellFounded
<1>2. \A a, b \in Nat : a < b => <<a, b>> \in R
    BY DEF OpToRel
<1>. HIDE DEF R
<1>3. \E m \in T : \A k \in T : ~(<<k, m>> \in R)
    BY <1>1, WFMin, Zenon
<1>4. PICK m \in T : \A k \in T : ~(<<k, m>> \in R)
    BY <1>3
<1>5. ASSUME NEW k \in T  PROVE m <= k
    <2>1. m \in Nat /\ k \in Nat /\ ~(<<k, m>> \in R)
        BY <1>4
    <2>2. ~(k < m)
        BY <1>2, <2>1
    <2>. QED  BY <2>1, <2>2
<1>. QED  BY <1>5

\* Induction up to a bound.
LEMMA UpTo ==
    ASSUME NEW N \in Nat, NEW T, 0 \in T, \A n \in 1..N : n - 1 \in T => n \in T
    PROVE  0..N \subseteq T
<1>. DEFINE Missing == (0..N) \ T
<1>1. SUFFICES ASSUME Missing # {}  PROVE FALSE
    OBVIOUS
<1>2. Missing \subseteq Nat
    OBVIOUS
<1>. HIDE DEF Missing
<1>3. PICK m \in Missing : \A k \in Missing : m <= k
    BY <1>1, <1>2, LeastNatural, Zenon
<1>4. m \in 1..N /\ m - 1 \in 0..N /\ m \notin T
    BY <1>3 DEF Missing
<1>5. m - 1 \in T
    BY <1>3, <1>4 DEF Missing
<1>. QED  BY <1>4, <1>5

\* f follows the steps from the first value on.
Steps(f, n, first, step) ==
    /\ f[0] = first
    /\ \A i \in 1..n : f[i] = step[i][f[i - 1]]

\* Recursion up to a bound: there is a function that follows the steps.
LEMMA Recursion ==
    ASSUME NEW N \in Nat, NEW S, NEW first \in S, NEW step \in [1..N -> [S -> S]]
    PROVE  \E f \in [0..N -> S] : Steps(f, N, first, step)
<1>. DEFINE T == {n \in 0..N : \E f \in [0..n -> S] : Steps(f, n, first, step)}
<1>1. 0 \in T
    <2>1. [i \in 0..0 |-> first] \in [0..0 -> S] /\ Steps([i \in 0..0 |-> first], 0, first, step)
        BY DEF Steps
    <2>. QED  BY <2>1
<1>2. ASSUME NEW n \in 1..N, n - 1 \in T  PROVE n \in T
    <2>1. PICK f \in [0..(n - 1) -> S] : Steps(f, n - 1, first, step)
        BY <1>2
    <2>. DEFINE g == [i \in 0..n |-> IF i = n THEN step[n][f[n - 1]] ELSE f[i]]
    <2>2. g \in [0..n -> S]
        BY <2>1
    <2>3. \A i \in 1..n : g[i] = step[i][g[i - 1]]
        BY <2>1 DEF Steps
    <2>4. g[0] = first
        BY <2>1 DEF Steps
    <2>5. Steps(g, n, first, step)
        BY <2>3, <2>4 DEF Steps
    <2>. QED  BY <2>2, <2>5
<1>3. N \in T
    <2>. HIDE DEF T
    <2>1. \A n \in 1..N : n - 1 \in T => n \in T
        BY <1>2
    <2>2. 0..N \subseteq T
        BY <1>1, <2>1, UpTo
    <2>. QED  BY <2>2
<1>. QED  BY <1>3
=============================================================================
