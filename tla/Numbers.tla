--------------------------------- MODULE Numbers ---------------------------------
(***************************************************************************)
(* Least and greatest numbers of sets, and functions that are defined by   *)
(* recursion, for the modules of proofs.  The least-number principle comes *)
(* from the well-foundedness of < on Nat, and stands in for induction,     *)
(* which would take an operator as a parameter.                            *)
(***************************************************************************)
EXTENDS Integers, FiniteSetsExt, WellFoundedInduction, TLAPS

LEMMA LeastNat ==
    ASSUME NEW S, S \subseteq Nat, S # {}
    PROVE  \E x \in S : \A y \in S : x <= y
<1> DEFINE R == OpToRel(<, Nat)
<1>1. IsWellFoundedOn(R, Nat)
  BY NatLessThanWellFounded
<1>2. \A x, y \in Nat : y < x => <<y, x>> \in R
  BY DEF OpToRel
<1> HIDE DEF R
<1>3. PICK x \in S : \A y \in S : ~(<<y, x>> \in R)
  BY <1>1, WFMin
<1>4. ASSUME NEW y \in S
      PROVE  x <= y
  <2>1. x \in Nat /\ y \in Nat
    OBVIOUS
  <2>2. ~(y < x)
    BY <1>2, <1>3, <2>1
  <2> QED
    BY <2>1, <2>2
<1> QED
  BY <1>4

\* Max is what its name says where it is used.
LEMMA MaxOf ==
    ASSUME NEW n \in Nat, NEW S, S \subseteq 1 .. n, S # {}
    PROVE  Max(S) \in S /\ \A i \in S : i <= Max(S)
<1> DEFINE T == {n - i : i \in S}
<1>1. T \subseteq Nat /\ T # {}
  <2>1. \A i \in 1 .. n : n - i \in Nat
    OBVIOUS
  <2> QED
    BY <2>1
<1>2. PICK x \in T : \A y \in T : x <= y
  BY <1>1, LeastNat
<1>3. PICK m \in S : x = n - m
  BY <1>2
<1>4. \A i \in S : m >= i
  <2> SUFFICES ASSUME NEW i \in S PROVE m >= i
    OBVIOUS
  <2>1. n - i \in T /\ n - m <= n - i
    BY <1>2, <1>3
  <2> QED
    BY <2>1
<1>5. Max(S) \in S /\ \A i \in S : Max(S) >= i
  BY <1>4 DEF Max
<1> QED
  BY <1>5

LEMMA MaxIs ==
    ASSUME NEW n \in Nat, NEW S, S \subseteq 1 .. n, NEW m \in S, \A i \in S : i <= m
    PROVE  Max(S) = m
<1>1. Max(S) \in S /\ \A i \in S : i <= Max(S)
  BY MaxOf
<1>2. m <= Max(S) /\ Max(S) <= m /\ m \in 1 .. n /\ Max(S) \in 1 .. n
  BY <1>1
<1> QED
  BY <1>2

\* A function on 0 .. n into D with first value d and steps G.
Recursive(D, d, n, G) ==
    \E f \in [0 .. n -> D] : f[0] = d /\ \A i \in 1 .. n : f[i] = G[<<i, f[i - 1]>>]

\* A function on 0 .. n is defined by its first value and the step to the next.
LEMMA Recursion ==
    ASSUME NEW D, NEW d \in D, NEW n \in Nat, NEW G \in [(1 .. n) \X D -> D]
    PROVE  Recursive(D, d, n, G)
<1> USE DEF Recursive
<1> DEFINE Solves(f, m) == f[0] = d /\ \A i \in 1 .. m : f[i] = G[<<i, f[i - 1]>>]
           Bad == {m \in 0 .. n : ~\E f \in [0 .. m -> D] : Solves(f, m)}
<1>0. Bad \subseteq 0 .. n /\ \A m \in 0 .. n : m \notin Bad => \E f \in [0 .. m -> D] : Solves(f, m)
  BY Zenon
<1> HIDE DEF Bad
<1> SUFFICES ASSUME Bad # {} PROVE FALSE
  <2>1. n \in 0 .. n
    OBVIOUS
  <2>2. n \notin Bad => \E f \in [0 .. n -> D] : Solves(f, n)
    BY <1>0, <2>1
  <2> QED
    BY <2>2
<1>1. PICK m \in Bad : \A k \in Bad : m <= k
  <2>1. 0 .. n \subseteq Nat
    OBVIOUS
  <2>2. Bad \subseteq Nat
    BY <2>1, <1>0
  <2> QED
    BY <2>2, LeastNat
<1>2. m \in 0 .. n /\ ~\E f \in [0 .. m -> D] : Solves(f, m)
  BY Zenon DEF Bad
<1>3. m # 0
  <2> DEFINE f == [i \in 0 .. 0 |-> d]
  <2>1. f \in [0 .. 0 -> D] /\ Solves(f, 0)
    OBVIOUS
  <2> QED
    BY <1>2, <2>1
<1>4. m - 1 \in 0 .. n /\ m \in 1 .. n /\ ~(m <= m - 1)
  BY <1>2, <1>3
<1>5. PICK f \in [0 .. m - 1 -> D] : Solves(f, m - 1)
  <2>1. m - 1 \notin Bad
    BY <1>1, <1>4
  <2> QED
    BY <2>1, <1>0, <1>4
<1> DEFINE g == [i \in 0 .. m |-> IF i = m THEN G[<<m, f[m - 1]>>] ELSE f[i]]
<1>6. m - 1 \in 0 .. m - 1 /\ f[m - 1] \in D
  BY <1>4, <1>5
<1>7. G[<<m, f[m - 1]>>] \in D
  BY <1>4, <1>6
<1>8. g \in [0 .. m -> D]
  BY <1>4, <1>7
<1>9. Solves(g, m)
  <2>1. g[0] = d
    BY <1>4, <1>5
  <2>2. ASSUME NEW i \in 1 .. m PROVE g[i] = G[<<i, g[i - 1]>>]
    <3>1. g[i - 1] = f[i - 1] /\ i - 1 \in 0 .. m - 1
      BY <1>4
    <3>2. CASE i = m
      <4>1. m \in 0 .. m /\ g[m] = G[<<m, f[m - 1]>>]
        BY <1>4
      <4>2. g[m - 1] = f[m - 1]
        BY <3>1, <3>2
      <4> QED
        BY <4>1, <4>2, <3>2, Zenon
    <3>3. CASE i # m
      <4>1. i \in 1 .. m - 1
        BY <3>3, <1>4
      <4>2. f[i] = G[<<i, f[i - 1]>>] /\ g[i] = f[i]
        BY <4>1, <1>4, <1>5, <3>3
      <4> QED
        BY <4>2, <3>1
    <3> QED
      BY <3>2, <3>3
  <2> QED
    BY <2>1, <2>2
<1> QED
  BY <1>2, <1>8, <1>9
\* What holds of 0, and of each number with the one before it, holds up to n.
LEMMA NatSteps ==
    ASSUME NEW n \in Nat, NEW S, 0 \in S, \A i \in 1 .. n : i - 1 \in S => i \in S
    PROVE  \A i \in 0 .. n : i \in S
<1> DEFINE Bad == {i \in 0 .. n : i \notin S}
<1> SUFFICES ASSUME Bad # {} PROVE FALSE
  OBVIOUS
<1>1. Bad \subseteq Nat
  OBVIOUS
<1>2. PICK m \in Bad : \A k \in Bad : m <= k
  BY <1>1, LeastNat
<1>3. m \in 1 .. n /\ m - 1 \in 0 .. n /\ ~(m <= m - 1)
  OBVIOUS
<1>4. m - 1 \in S
  BY <1>2, <1>3
<1> QED
  BY <1>3, <1>4
================================================================================
