----------------------------- MODULE Induction ------------------------------
(***************************************************************************)
(* Induction and recursion on natural numbers, stated with sets and        *)
(* functions instead of operators, so that the facts can be cited for the  *)
(* recursive functions of the models.                                      *)
(***************************************************************************)
EXTENDS Integers, WellFoundedInduction, TLAPS

\* Every set of natural numbers that is not empty has a least element.
LEMMA LeastNumber ==
    ASSUME NEW S, S \subseteq Nat, S # {}
    PROVE  \E m \in S : \A n \in S : m <= n
  <1> DEFINE R == {p \in Nat \X Nat : p[1] < p[2]}
  <1>1. OpToRel(<, Nat) = R
    BY DEF OpToRel
  <1>2. IsWellFoundedOn(R, Nat)
    BY <1>1, NatLessThanWellFounded
  <1> HIDE DEF R
  <1>3. PICK m \in S : \A n \in S : ~(<<n, m>> \in R)
    BY <1>2, WFMin
  <1>4. ASSUME NEW n \in S PROVE m <= n
    <2>1. m \in Nat /\ n \in Nat /\ <<n, m>> \in Nat \X Nat
      OBVIOUS
    <2>2. ~(n < m)
      BY <1>3, <2>1 DEF R
    <2> QED
      BY <2>1, <2>2
  <1> QED
    BY <1>4

\* Every set of natural numbers below a bound has a greatest element.
LEMMA GreatestNumber ==
    ASSUME NEW S, S # {}, NEW b \in Nat, S \subseteq 0 .. b
    PROVE  \E m \in S : \A n \in S : n <= m
  <1> DEFINE T == {k \in Nat : \E n \in S : k = b - n}
  <1>1. T # {}
    <2>1. PICK n \in S : TRUE
      OBVIOUS
    <2>2. n \in 0 .. b /\ b - n \in Nat
      OBVIOUS
    <2> QED
      BY <2>2
  <1>2. T \subseteq Nat
    OBVIOUS
  <1> HIDE DEF T
  <1>3. PICK k \in T : \A j \in T : k <= j
    BY <1>1, <1>2, LeastNumber
  <1>4. PICK m \in S : k = b - m
    BY DEF T
  <1>5. ASSUME NEW n \in S PROVE n <= m
    <2>1. n \in 0 .. b /\ m \in 0 .. b /\ b - n \in Nat
      OBVIOUS
    <2>2. b - n \in T
      BY <2>1 DEF T
    <2>3. k <= b - n
      BY <1>3, <2>2
    <2> QED
      BY <1>4, <2>1, <2>3
  <1> QED
    BY <1>5

\* A set that holds 0 and, up to b, the successor of each of its numbers
\* holds every number up to b.
LEMMA UpTo ==
    ASSUME NEW b \in Nat, NEW S, 0 \in S,
           \A n \in 0 .. b - 1 : n \in S => n + 1 \in S
    PROVE  0 .. b \subseteq S
  <1> DEFINE T == (0 .. b) \ S
  <1> SUFFICES ASSUME T # {} PROVE FALSE
    OBVIOUS
  <1>1. T \subseteq Nat
    OBVIOUS
  <1> HIDE DEF T
  <1>2. PICK m \in T : \A n \in T : m <= n
    BY <1>1, LeastNumber
  <1>3. m \in 0 .. b /\ m \notin S /\ m # 0
    BY DEF T
  <1>4. m - 1 \in 0 .. b - 1
    BY <1>3
  <1>5. m - 1 \notin T
    BY <1>2, <1>3, <1>4
  <1>6. m - 1 \in S
    BY <1>4, <1>5 DEF T
  <1>7. (m - 1) + 1 \in S
    BY <1>4, <1>6
  <1> QED
    BY <1>3, <1>7

\* f starts with c, and D leads from one value to the next.
Iterates(f, b, c, D) == f[0] = c /\ \A n \in 1 .. b : f[n] = D[<<n, f[n - 1]>>]

\* A function on 0 .. b is defined by its value at 0 and by a step from one value
\* to the next.
LEMMA Recursion ==
    ASSUME NEW b \in Nat, NEW S, NEW c \in S, NEW D \in [Nat \X S -> S]
    PROVE  \E f \in [0 .. b -> S] : Iterates(f, b, c, D)
  <1> DEFINE Fits(f, k) == Iterates(f, k, c, D)
             T == {k \in Nat : \E f \in [0 .. k -> S] : Fits(f, k)}
  <1>1. 0 \in T
    <2> DEFINE f == [n \in 0 .. 0 |-> c]
    <2>1. f \in [0 .. 0 -> S] /\ Fits(f, 0)
      BY DEF Iterates
    <2> HIDE DEF f
    <2> QED
      BY <2>1
  <1>2. ASSUME NEW k \in Nat, k \in T PROVE k + 1 \in T
    <2>1. PICK f \in [0 .. k -> S] : Fits(f, k)
      BY <1>2
    <2> DEFINE g == [n \in 0 .. k + 1 |-> IF n = k + 1 THEN D[<<n, f[k]>>] ELSE f[n]]
    <2>2. f[k] \in S /\ <<k + 1, f[k]>> \in Nat \X S
      OBVIOUS
    <2>3. D[<<k + 1, f[k]>>] \in S
      BY <2>2
    <2>4. g \in [0 .. k + 1 -> S]
      BY <2>3
    <2>5. Fits(g, k + 1)
      BY <2>1 DEF Iterates
    <2> HIDE DEF g
    <2> QED
      BY <2>4, <2>5
  <1>3. b \in T
    <2> HIDE DEF T
    <2>1. 0 .. b \subseteq T
      BY <1>1, <1>2, UpTo
    <2> QED
      BY <2>1
  <1> QED
    BY <1>3
=============================================================================
