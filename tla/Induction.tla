----------------------------- MODULE Induction -----------------------------
(***************************************************************************)
(* Induction and recursion over the naturals as first-order facts, from    *)
(* the well-foundedness of < : a set that 0 is in and successors stay in   *)
(* holds every natural, and a step function has a function that follows    *)
(* it.  The proofs about folds of the data (shape products, ledgers) rest  *)
(* on them.                                                                *)
(***************************************************************************)
EXTENDS Integers, WellFoundedInduction, TLAPS

LEMMA SetInduction ==
  ASSUME NEW S, 0 \in S, \A n \in Nat : n \in S => n + 1 \in S
  PROVE  Nat \subseteq S
<1> DEFINE T == Nat \ S
           R == OpToRel(<, Nat)
<1>1. SUFFICES ASSUME T # {} PROVE FALSE
  OBVIOUS
<1>2. T \subseteq Nat
  OBVIOUS
<1>3. IsWellFoundedOn(R, Nat)
  BY NatLessThanWellFounded
<1>4. PICK x \in T : \A y \in T : ~ (<<y, x>> \in R)
  <2> HIDE DEF T, R
  <2> QED
    BY <1>1, <1>2, <1>3, WFMin
<1>5. x # 0
  OBVIOUS
<1>6. x - 1 \in T
  BY <1>5
<1>7. <<x - 1, x>> \in R
  BY <1>5, <1>6 DEF OpToRel
<1>8. QED
  BY <1>4, <1>6, <1>7

(* f starts at a and follows step up to n.                                  *)
Follows(f, a, step, n) ==
  /\ f[0] = a
  /\ \A i \in 1 .. n : f[i] = step[<<f[i - 1], i>>]

LEMMA RecursionExists ==
  ASSUME NEW V, NEW a \in V, NEW n \in Nat, NEW step \in [V \X (1 .. n) -> V]
  PROVE  \E f \in [0 .. n -> V] : Follows(f, a, step, n)
<1> DEFINE S == {m \in Nat : m <= n => \E f \in [0 .. m -> V] : Follows(f, a, step, m)}
<1>1. 0 \in S
  <2> DEFINE f == [i \in 0 .. 0 |-> a]
  <2>1. f \in [0 .. 0 -> V] /\ Follows(f, a, step, 0)
    BY DEF Follows
  <2>2. QED
    BY <2>1
<1>2. ASSUME NEW m \in Nat, m \in S PROVE m + 1 \in S
  <2>1. SUFFICES ASSUME m + 1 <= n
                 PROVE  \E f \in [0 .. m + 1 -> V] : Follows(f, a, step, m + 1)
    OBVIOUS
  <2>2. PICK f \in [0 .. m -> V] : Follows(f, a, step, m)
    BY <1>2, <2>1
  <2> DEFINE g == [i \in 0 .. m + 1 |-> IF i <= m THEN f[i] ELSE step[<<f[m], m + 1>>]]
  <2>3. f[m] \in V /\ m + 1 \in 1 .. n
    BY <2>1
  <2>4. step[<<f[m], m + 1>>] \in V
    BY <2>3
  <2>5. g \in [0 .. m + 1 -> V]
    BY <2>4
  <2>6. g[0] = a
    BY <2>2 DEF Follows
  <2>7. \A i \in 1 .. m + 1 : g[i] = step[<<g[i - 1], i>>]
    <3>1. TAKE i \in 1 .. m + 1
    <3>2. CASE i <= m
      BY <2>2, <3>2 DEF Follows
    <3>3. CASE i = m + 1
      <4>1. m \in 0 .. m + 1 /\ m + 1 \in 0 .. m + 1 /\ i - 1 = m /\ ~(m + 1 <= m)
        BY <3>3
      <4>2. g[m] = f[m] /\ g[m + 1] = step[<<f[m], m + 1>>]
        BY <4>1
      <4>3. QED
        BY <3>3, <4>1, <4>2
    <3>4. QED
      BY <3>2, <3>3
  <2>8. Follows(g, a, step, m + 1)
    <3> HIDE DEF g
    <3>1. QED
      BY <2>6, <2>7 DEF Follows
  <2>9. QED
    <3> HIDE DEF g
    <3>1. QED
      BY <2>5, <2>8
<1>3. Nat \subseteq S
  <2> HIDE DEF S
  <2>1. QED
    BY <1>1, <1>2, SetInduction
<1>4. QED
  BY <1>3

=============================================================================
