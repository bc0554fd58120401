---------------------------- MODULE NaturalFacts ----------------------------
(***************************************************************************)
(* What several proofs need of the natural numbers.                        *)
(***************************************************************************)
EXTENDS Integers, FiniteSetTheorems, TLAPS

\* A set of natural numbers that is not empty has a least one, by the
\* library's order on finite sets.
LEMMA LeastNatural ==
  ASSUME NEW T, T \subseteq Nat, T # {}
  PROVE  \E x \in T : \A y \in T : x <= y
<1> DEFINE Below == {0..x : x \in T}
<1>1. Below \subseteq FiniteSubsetsOf(Nat) /\ Below # {}
  <2>1. \A x \in Nat : IsFiniteSet(0..x) /\ 0..x \subseteq Nat
    BY FS_Interval
  <2> QED
    BY <2>1 DEF FiniteSubsetsOf
<1>2. PICK s \in Below : \A t \in Below : ~(<<t, s>> \in StrictSubsetOrdering(Nat))
  <2> HIDE DEF Below
  <2> QED
    BY <1>1, FS_StrictSubsetOrderingWellFounded, WFMin
<1>3. PICK x \in T : s = 0..x
  OBVIOUS
<1>4. ASSUME NEW y \in T, y < x PROVE FALSE
  <2>1. x \in 0..x /\ ~(x \in 0..y) /\ 0..y \subseteq 0..x
    BY <1>4
  <2>2. 0..y \in Below /\ 0..y \in SUBSET Nat /\ 0..x \in SUBSET Nat
    OBVIOUS
  <2> HIDE DEF Below
  <2>3. <<0..y, 0..x>> \in StrictSubsetOrdering(Nat)
    BY <2>1, <2>2 DEF StrictSubsetOrdering
  <2> QED
    BY <1>2, <1>3, <2>2, <2>3
<1> QED
  BY <1>4

\* There is one way to divide by a positive number with a remainder below it.
LEMMA QuotientUnique ==
  ASSUME NEW w \in Nat \ {0}, NEW q \in Int, NEW r \in 0 .. w - 1
  PROVE  (w * q + r) % w = r /\ (w * q + r) \div w = q
OBVIOUS

\* The order in which a loop over several counters makes progress: one of them
\* goes down and those before it stay.
Descends(new, old) ==
  \E n \in DOMAIN old : /\ new[n] < old[n]
                        /\ \A m \in 1 .. n - 1 : new[m] = old[m]

Quads == Nat \X Nat \X Nat \X Nat

\* Nothing goes on descending for ever: a set of quadruples of natural numbers
\* has one below which none of the others is.
LEMMA LeastQuad ==
  ASSUME NEW T, T \subseteq Quads, T # {}
  PROVE  \E x \in T : \A y \in T : ~Descends(y, x)
<1>1. ASSUME NEW S, S \subseteq T, S # {}, NEW n \in 1 .. 4
      PROVE  \E x \in S : \A y \in S : x[n] <= y[n]
  <2> DEFINE V == {x[n] : x \in S}
  <2>1. V \subseteq Nat /\ V # {}
    <3>1. \A x \in Quads : x[n] \in Nat
      BY DEF Quads
    <3>2. QED
      BY <1>1, <3>1
  <2>2. \E v \in V : \A w \in V : v <= w
    <3> HIDE DEF V
    <3> QED BY <2>1, LeastNatural
  <2>3. QED
    BY <2>2
<1> DEFINE First(S, n) == {x \in S : \A y \in S : x[n] <= y[n]}
           T1 == First(T, 1)
           T2 == First(T1, 2)
           T3 == First(T2, 3)
           T4 == First(T3, 4)
<1>2. ASSUME NEW S, S \subseteq T, S # {}, NEW n \in 1 .. 4
      PROVE  First(S, n) \subseteq S /\ First(S, n) # {}
  BY <1>1, <1>2
<1>3. T1 \subseteq T /\ T1 # {}
  <2>1. 1 \in 1 .. 4
    OBVIOUS
  <2> HIDE DEF First
  <2> QED BY <1>2, <2>1
<1>4. T2 \subseteq T1 /\ T2 # {}
  <2>1. 2 \in 1 .. 4
    OBVIOUS
  <2> HIDE DEF First, T1
  <2> QED BY <1>2, <1>3, <2>1
<1>5. T3 \subseteq T2 /\ T3 # {}
  <2>1. 3 \in 1 .. 4
    OBVIOUS
  <2> HIDE DEF First, T1, T2
  <2> QED BY <1>2, <1>3, <1>4, <2>1
<1>6. T4 \subseteq T3 /\ T4 # {}
  <2>1. 4 \in 1 .. 4
    OBVIOUS
  <2> HIDE DEF First, T1, T2, T3
  <2> QED BY <1>2, <1>3, <1>4, <1>5, <2>1
<1>7. PICK x \in T4 : TRUE
  BY <1>6
<1>8. x \in T /\ x \in T1 /\ x \in T2 /\ x \in T3
  BY <1>3, <1>4, <1>5, <1>6, <1>7
<1>9. ASSUME NEW y \in T, Descends(y, x) PROVE FALSE
  <2>1. x \in Quads /\ y \in Quads
    BY <1>8, <1>9
  <2>2. DOMAIN x = 1 .. 4
    BY <2>1 DEF Quads
  <2>3. PICK n \in 1 .. 4 : y[n] < x[n] /\ \A m \in 1 .. n - 1 : y[m] = x[m]
    BY <1>9, <2>2 DEF Descends
  <2>4. \A m \in 1 .. 4 : x[m] \in Nat /\ y[m] \in Nat
    BY <2>1 DEF Quads
  <2>5. ~(x[n] <= y[n])
    BY <2>3, <2>4
  <2>6. CASE n = 1
    BY <1>8, <2>5, <2>6
  <2>7. CASE n = 2
    <3>1. y[1] = x[1]
      BY <2>3, <2>7
    <3>2. y \in T1
      BY <1>8, <3>1
    <3>3. QED
      BY <1>8, <2>5, <2>7, <3>2
  <2>8. CASE n = 3
    <3>1. y[1] = x[1] /\ y[2] = x[2]
      BY <2>3, <2>8
    <3>2. y \in T1
      BY <1>8, <3>1
    <3>3. y \in T2
      BY <1>8, <3>1, <3>2
    <3>4. QED
      BY <1>8, <2>5, <2>8, <3>3
  <2>9. CASE n = 4
    <3>1. y[1] = x[1] /\ y[2] = x[2] /\ y[3] = x[3]
      BY <2>3, <2>9
    <3>2. y \in T1
      BY <1>8, <3>1
    <3>3. y \in T2
      BY <1>8, <3>1, <3>2
    <3>4. y \in T3
      BY <1>8, <3>1, <3>3
    <3>5. QED
      BY <1>7, <2>5, <2>9, <3>4
  <2>10. QED
    BY <2>6, <2>7, <2>8, <2>9
<1>10. QED
  BY <1>8, <1>9

=============================================================================
