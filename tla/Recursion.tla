----------------------------- MODULE Recursion -----------------------------
(***************************************************************************)
(* Facts about the natural numbers behind the recursive definitions of     *)
(* FollowLoad and SchemaRequests: there is a least element, and a function *)
(* may be defined by recursion.  They are stated with sets and functions   *)
(* in the place of operators, so that they can be cited.                   *)
(***************************************************************************)
EXTENDS Integers, WellFoundedInduction, TLAPS

\* Every set of natural numbers that is not empty has a least element.
LEMMA Least ==
  ASSUME NEW T \in SUBSET Nat, T # {}
  PROVE  \E m \in T : \A n \in T : m <= n
<1> DEFINE R == OpToRel(<, Nat)
<1>1. \A x, y \in Nat : x < y => <<x, y>> \in R
  BY DEF OpToRel
<1>2. IsWellFoundedOn(R, Nat)
  BY NatLessThanWellFounded
<1> HIDE DEF R
<1>3. \E x \in T : \A y \in T : ~(<<y, x>> \in R)
  BY <1>2, WFMin
<1>4. PICK m \in T : \A y \in T : ~(<<y, m>> \in R)
  BY <1>3
<1>5. ASSUME NEW n \in T PROVE m <= n
  <2>1. ~(<<n, m>> \in R) /\ n \in Nat /\ m \in Nat
    BY <1>4
  <2>2. ~(n < m)
    BY <2>1, <1>1
  <2> QED
    BY <2>1, <2>2
<1> QED
  BY <1>5

\* What holds of 0, and of n + 1 if it holds of n, holds up to any bound.
LEMMA Induction ==
  ASSUME NEW m \in Nat, NEW T, 0 \in T, \A n \in 0..m : n < m /\ n \in T => n + 1 \in T
  PROVE  0..m \subseteq T
<1> DEFINE Bad == {n \in 0..m : n \notin T}
<1>1. ASSUME Bad # {} PROVE FALSE
  <2>1. Bad \in SUBSET Nat
    OBVIOUS
  <2>2. PICK b \in Bad : \A n \in Bad : b <= n
    BY <1>1, <2>1, Least
  <2>3. b \in 0..m /\ b \notin T /\ b # 0
    OBVIOUS
  <2>4. b - 1 \in 0..m /\ b - 1 < m /\ b - 1 \notin Bad /\ (b - 1) + 1 = b
    BY <2>2, <2>3
  <2>5. b - 1 \in T
    BY <2>4
  <2> QED
    BY <2>3, <2>4, <2>5
<1> QED
  BY <1>1

\* The functions on 0..m whose values come one from the other.
Recursive(S, first, step, m) ==
  {f \in [0..m -> S] : f[0] = first /\ \A d \in 1..m : f[d] = step[f[d - 1]]}

\* There is one.
LEMMA RecursiveFunction ==
  ASSUME NEW S, NEW first \in S, NEW step \in [S -> S], NEW m \in Nat
  PROVE  Recursive(S, first, step, m) # {}
<1> DEFINE Solution(n) == {f \in [0..n -> S] : f[0] = first /\ \A d \in 1..n : f[d] = step[f[d - 1]]}
           Solved == {n \in Nat : Solution(n) # {}}
<1>1. 0 \in Solved
  <2>1. [d \in 0..0 |-> first] \in Solution(0)
    OBVIOUS
  <2> QED
    BY <2>1
<1>2. ASSUME NEW n \in 0..m, n \in Solved PROVE n + 1 \in Solved
  <2>1. PICK g : g \in Solution(n)
    BY <1>2
  <2> DEFINE h == [d \in 0..(n + 1) |-> IF d = n + 1 THEN step[g[n]] ELSE g[d]]
  <2>2. h \in [0..(n + 1) -> S]
    <3>1. \A d \in 0..n : g[d] \in S
      BY <2>1
    <3>2. step[g[n]] \in S
      BY <3>1
    <3> QED
      BY <3>1, <3>2
  <2>3. h[0] = first
    BY <2>1
  <2>4. ASSUME NEW d \in 1..(n + 1) PROVE h[d] = step[h[d - 1]]
    <3>1. CASE d = n + 1
      <4>1. d - 1 = n /\ n \in 0..(n + 1) /\ n # n + 1 /\ d \in 0..(n + 1)
        BY <3>1
      <4> QED
        BY <3>1, <4>1
    <3>2. CASE d # n + 1
      <4>1. d \in 1..n /\ d - 1 \in 0..(n + 1) /\ d - 1 # n + 1 /\ d \in 0..(n + 1)
        BY <3>2
      <4>2. g[d] = step[g[d - 1]]
        BY <2>1, <4>1
      <4> QED
        BY <3>2, <4>1, <4>2
    <3> QED
      BY <3>1, <3>2
  <2>5. h \in Solution(n + 1)
    BY <2>2, <2>3, <2>4
  <2> QED
    BY <2>5
<1>3. 0..m \subseteq Solved
  <2> HIDE DEF Solved
  <2> QED
    BY <1>1, <1>2, Induction
<1>4. m \in Solved
  BY <1>3
<1> QED
  BY <1>4 DEF Recursive


\* Every set of natural numbers up to a bound that is not empty has a greatest element.
LEMMA Greatest ==
  ASSUME NEW n \in Nat, NEW T \in SUBSET (1..n), T # {}
  PROVE  \E m \in T : \A i \in T : i <= m
<1> DEFINE U == {d \in 0..n : n - d \in T}
<1>1. U \in SUBSET Nat /\ U # {}
  <2>1. PICK i \in T : TRUE
    OBVIOUS
  <2>2. i \in 1..n /\ n - i \in 0..n /\ n - (n - i) = i
    BY <2>1
  <2>3. n - i \in U
    BY <2>1, <2>2
  <2>4. U \in SUBSET Nat
    OBVIOUS
  <2> QED
    BY <2>3, <2>4
<1>2. PICK d \in U : \A e \in U : d <= e
  <2> HIDE DEF U
  <2> QED
    BY <1>1, Least
<1>3. ASSUME NEW i \in T PROVE i <= n - d
  <2>1. i \in 1..n /\ n - i \in 0..n /\ n - (n - i) = i
    OBVIOUS
  <2>2. n - i \in U
    BY <2>1
  <2> QED
    BY <1>2, <2>1, <2>2
<1> QED
  BY <1>2, <1>3

=============================================================================
