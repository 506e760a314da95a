----------------------------- MODULE Induction -----------------------------
(***************************************************************************)
(* Induction on the natural numbers, for the functions that the modules    *)
(* define by recursion.  A statement about every n is put as a set: the    *)
(* numbers of which it is true.                                            *)
(***************************************************************************)
EXTENDS Integers, WellFoundedInduction, TLAPS

LEMMA LessIsWellFounded == IsWellFoundedOn({p \in Nat \X Nat : p[1] < p[2]}, Nat)
BY NatLessThanWellFounded DEF OpToRel

LEMMA NatSetInduction ==
  ASSUME NEW S, 0 \in S, \A n \in Nat : n \in S => n + 1 \in S
  PROVE  Nat \subseteq S
<1> DEFINE R == {p \in Nat \X Nat : p[1] < p[2]}
           T == Nat \ S
<1>1. SUFFICES ASSUME T # {} PROVE FALSE
  OBVIOUS
<1>2. IsWellFoundedOn(R, Nat)
  BY LessIsWellFounded
<1>3. \A x, y \in Nat : <<y, x>> \in R <=> y < x
  OBVIOUS
<1> HIDE DEF R
<1>4. PICK x \in T : \A y \in T : <<y, x>> \notin R
  BY <1>1, <1>2, WFMin
<1>5. x # 0 /\ x - 1 \in Nat /\ x - 1 < x /\ (x - 1) + 1 = x
  BY <1>4
<1>6. x - 1 \in S
  BY <1>3, <1>4, <1>5
<1> QED BY <1>4, <1>5, <1>6

(***************************************************************************)
(* Iterating a function on a set.                                          *)
(***************************************************************************)
Iterates(f, a, g) == f = [n \in Nat |-> IF n = 0 THEN a ELSE g[f[n - 1]]]

LEMMA IterationExists ==
  ASSUME NEW X, NEW a \in X, NEW g \in [X -> X]
  PROVE  \E f \in [Nat -> X] : Iterates(f, a, g)
<1> DEFINE Part(p, n) == /\ p \in [0..n -> X] /\ p[0] = a
                         /\ \A k \in 1..n : p[k] = g[p[k - 1]]
           S == {n \in Nat : \E p : Part(p, n)}
<1>1. 0 \in S
  <2> DEFINE p == [k \in 0..0 |-> a]
  <2>1. Part(p, 0)
    OBVIOUS
  <2> QED BY <2>1
<1>2. ASSUME NEW n \in Nat, n \in S PROVE n + 1 \in S
  <2>1. PICK p : Part(p, n)
    BY <1>2
  <2> DEFINE q == [k \in 0..(n + 1) |-> IF k = n + 1 THEN g[p[n]] ELSE p[k]]
  <2>2. q \in [0..(n + 1) -> X] /\ q[0] = a
    BY <2>1
  <2>3. ASSUME NEW k \in 1..(n + 1) PROVE q[k] = g[q[k - 1]]
    BY <2>1
  <2>4. Part(q, n + 1)
    BY <2>2, <2>3
  <2> HIDE DEF Part, q
  <2> QED BY <2>4
<1>3. ASSUME NEW n \in Nat PROVE \E p : Part(p, n)
  <2>1. Nat \subseteq S
    <3> HIDE DEF S
    <3> QED BY <1>1, <1>2, NatSetInduction
  <2> HIDE DEF Part
  <2> QED BY <2>1
<1>4. ASSUME NEW m \in Nat, NEW n \in Nat, NEW p, NEW q, Part(p, m), Part(q, n)
      PROVE  \A k \in Nat : k <= m /\ k <= n => p[k] = q[k]
  <2> DEFINE E == {k \in Nat : k <= m /\ k <= n => p[k] = q[k]}
  <2>1. 0 \in E
    BY <1>4
  <2>2. ASSUME NEW k \in Nat, k \in E PROVE k + 1 \in E
    <3> SUFFICES ASSUME k + 1 <= m, k + 1 <= n PROVE p[k + 1] = q[k + 1]
      OBVIOUS
    <3>1. k + 1 \in 1..m /\ k + 1 \in 1..n /\ (k + 1) - 1 = k /\ p[k] = q[k]
      BY <2>2
    <3> QED BY <3>1, <1>4
  <2>3. Nat \subseteq E
    <3> HIDE DEF E
    <3> QED BY <2>1, <2>2, NatSetInduction
  <2> QED BY <2>3
<1> DEFINE f == [n \in Nat |-> (CHOOSE p : Part(p, n))[n]]
<1>5. ASSUME NEW n \in Nat PROVE \E p : Part(p, n) /\ \A k \in 0..n : f[k] = p[k]
  <2>1. PICK p : Part(p, n)
    BY <1>3
  <2>2. ASSUME NEW k \in 0..n PROVE f[k] = p[k]
    <3>1. Part(CHOOSE q : Part(q, k), k)
      <4> HIDE DEF Part
      <4>1. \E q : Part(q, k)
        BY <1>3
      <4> QED BY <4>1
    <3> DEFINE q == CHOOSE r : Part(r, k)
    <3>2. f[k] = q[k] /\ Part(q, k) /\ k \in Nat /\ k <= n
      BY <3>1
    <3> HIDE DEF q, Part, f
    <3> QED BY <1>4, <2>1, <3>2
  <2> QED BY <2>1, <2>2
<1>6. ASSUME NEW n \in Nat PROVE f[n] \in X /\ f[n] = IF n = 0 THEN a ELSE g[f[n - 1]]
  <2>1. PICK p : Part(p, n) /\ \A k \in 0..n : f[k] = p[k]
    BY <1>5
  <2>2. n \in 0..n /\ n # 0 => n - 1 \in 0..n /\ n \in 1..n
    OBVIOUS
  <2> HIDE DEF f
  <2> QED BY <2>1, <2>2
<1>7. f \in [Nat -> X]
  BY <1>6
<1>8. f = [n \in Nat |-> f[n]]
  OBVIOUS
<1> HIDE DEF f
<1>9. Iterates(f, a, g)
  BY <1>6, <1>8 DEF Iterates
<1> QED BY <1>7, <1>9
=============================================================================
