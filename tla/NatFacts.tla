------------------------------ MODULE NatFacts ------------------------------
(***************************************************************************)
(* Facts about sets of naturals that the other proofs cite: what Min and   *)
(* Max of FiniteSetsExt pick.                                              *)
(***************************************************************************)
EXTENDS Integers, FiniteSetsExt, FiniteSetTheorems, TLAPS

\* A set of naturals that is not empty has a least element.
LEMMA LeastLemma ==
  ASSUME NEW T, T \subseteq Nat, T # {}
  PROVE  \E x \in T : \A y \in T : x <= y
<1> DEFINE R == {ss \in Nat \X Nat : ss[1] < ss[2]}
<1>1. IsWellFoundedOn(OpToRel(<, Nat), Nat)
  BY NatLessThanWellFounded
<1>2. OpToRel(<, Nat) = R
  BY DEF OpToRel
<1>3. IsWellFoundedOn(R, Nat)
  BY <1>1, <1>2
<1> HIDE DEF R
<1>4. PICK x \in T : \A y \in T : ~(<<y, x>> \in R)
  BY <1>3, WFMin
<1>5. \A m, n \in Nat : m < n => <<m, n>> \in R
  BY DEF R
<1>6. \A y \in T : x <= y
  <2> TAKE y \in T
  <2>1. x \in Nat /\ y \in Nat /\ ~(y < x)
    BY <1>4, <1>5
  <2> QED BY <2>1
<1> QED BY <1>6

\* Min is that element.
LEMMA MinLemma ==
  ASSUME NEW T, T \subseteq Nat, T # {}
  PROVE  Min(T) \in T /\ \A y \in T : Min(T) <= y
<1>1. \E x \in T : \A y \in T : x <= y
  BY LeastLemma
<1> QED BY <1>1 DEF Min

\* Max of a bounded set is its greatest element.
LEMMA BoundedMaxLemma ==
  ASSUME NEW T, T \subseteq Nat, T # {}, NEW b \in Nat, \A x \in T : x <= b
  PROVE  Max(T) \in T /\ \A y \in T : y <= Max(T)
<1> DEFINE D == {b - x : x \in T}
<1>1. D \subseteq Nat /\ D # {}
  <2>1. \A x \in T : b - x \in Nat
    OBVIOUS
  <2> QED BY <2>1
<1>2. PICK d \in D : \A e \in D : d <= e
  BY <1>1, LeastLemma
<1>3. PICK x \in T : d = b - x
  OBVIOUS
<1>4. \A y \in T : y <= x
  <2> TAKE y \in T
  <2>1. b - x <= b - y /\ x \in Nat /\ y \in Nat
    BY <1>2, <1>3
  <2> QED BY <2>1
<1>5. \E z \in T : \A y \in T : z >= y
  <2>1. \A y \in T : x >= y
    BY <1>4
  <2> QED BY <2>1
<1>6. Max(T) \in T /\ \A y \in T : Max(T) >= y
  BY <1>5 DEF Max
<1> QED BY <1>6

\* A finite set of naturals is bounded.
LEMMA FiniteBoundLemma ==
  ASSUME NEW T, T \subseteq Nat, IsFiniteSet(T)
  PROVE  \E b \in Nat : \A x \in T : x <= b
<1> DEFINE Bounded(U) == \E b \in Nat : \A x \in U : x <= b
           Bad == {n \in Nat : \E U \in SUBSET T : Cardinality(U) = n /\ ~Bounded(U)}
<1> SUFFICES ASSUME ~Bounded(T) PROVE FALSE
  OBVIOUS
<1>1. \A U \in SUBSET T : IsFiniteSet(U) /\ Cardinality(U) \in Nat
  BY FS_Subset, FS_CardinalityType
<1>2. Bad # {} /\ Bad \subseteq Nat
  <2>1. Cardinality(T) \in Bad
    BY <1>1
  <2> QED BY <2>1
<1>3. PICK n \in Bad : \A m \in Bad : n <= m
  BY <1>2, LeastLemma
<1>4. PICK U \in SUBSET T : Cardinality(U) = n /\ ~Bounded(U)
  OBVIOUS
<1>5. U # {}
  BY <1>4
<1>6. PICK u \in U : TRUE
  BY <1>5
<1>7. Cardinality(U \ {u}) = n - 1 /\ U \ {u} \in SUBSET T /\ n - 1 \in Nat
  <2>1. Cardinality(U \ {u}) = n - 1
    BY <1>1, <1>4, FS_RemoveElement
  <2> QED BY <1>1, <2>1
<1>8. Bounded(U \ {u})
  <2> HIDE DEF Bounded
  <2> SUFFICES ASSUME ~Bounded(U \ {u}) PROVE FALSE
    OBVIOUS
  <2>1. n - 1 \in Bad
    BY <1>7
  <2> QED BY <1>3, <1>7, <2>1
<1>9. PICK b \in Nat : \A x \in U \ {u} : x <= b
  BY <1>8
<1>10. u \in Nat
  OBVIOUS
<1>11. \A x \in U : x <= b + u
  <2> TAKE x \in U
  <2>1. x \in Nat /\ (x = u \/ x <= b)
    BY <1>9
  <2> QED BY <1>10, <2>1
<1>12. b + u \in Nat
  BY <1>10
<1> QED BY <1>4, <1>11, <1>12

\* Max of a finite set of naturals is its greatest element.
LEMMA FiniteMaxLemma ==
  ASSUME NEW T, T \subseteq Nat, T # {}, IsFiniteSet(T)
  PROVE  Max(T) \in T /\ \A y \in T : y <= Max(T)
BY FiniteBoundLemma, BoundedMaxLemma
=============================================================================
