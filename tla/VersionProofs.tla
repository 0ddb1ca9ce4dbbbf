---------------------------- MODULE VersionProofs ----------------------------
(***************************************************************************)
(* For every alphabet, text and list: the parser finds the reading of the  *)
(* grammar and there is no second one, the canonical list of majors is the *)
(* same for the same majors, and the verdict is the documented one.        *)
(***************************************************************************)
EXTENDS VersionContract, SequenceTheorems, FiniteSetTheorems, Induction, TLAPS

-----------------------------------------------------------------------------
(* Recursion and bounds. *)

(* What the first value has and every step keeps, all values have.          *)
LEMMA StepsStay ==
  ASSUME NEW V, NEW n \in Nat, NEW f, f[0] \in V,
         \A i \in 1 .. n : f[i - 1] \in V => f[i] \in V
  PROVE  \A i \in 0 .. n : f[i] \in V
<1> DEFINE S == {m \in Nat : m <= n => f[m] \in V}
<1>1. 0 \in S
  OBVIOUS
<1>2. ASSUME NEW m \in Nat, m \in S PROVE m + 1 \in S
  <2>1. m + 1 <= n => m + 1 \in 1 .. n /\ (m + 1) - 1 = m
    OBVIOUS
  <2>2. QED
    BY <1>2, <2>1
<1>3. Nat \subseteq S
  <2> HIDE DEF S
  <2>1. QED
    BY <1>1, <1>2, SetInduction
<1>4. QED
  BY <1>3

(* A set of naturals with an element has a least one.                       *)
LEMMA MinIsLeast ==
  ASSUME NEW S \in SUBSET Nat, S # {}
  PROVE  Min(S) \in S /\ \A x \in S : Min(S) <= x
<1> DEFINE R == OpToRel(<, Nat)
<1>1. IsWellFoundedOn(R, Nat)
  BY NatLessThanWellFounded
<1>2. PICK m \in S : \A y \in S : ~ (<<y, m>> \in R)
  <2> HIDE DEF R
  <2>1. QED
    BY <1>1, WFMin
<1>3. \A y \in S : m <= y
  <2>1. TAKE y \in S
  <2>2. y \in Nat /\ m \in Nat /\ ~(y < m)
    BY <1>2 DEF OpToRel
  <2>3. QED
    BY <2>2
<1>4. QED
  BY <1>3 DEF Min

(* A bounded one has a greatest one too.                                    *)
LEMMA MaxIsGreatest ==
  ASSUME NEW n \in Nat, NEW S \in SUBSET (0 .. n), S # {}
  PROVE  Max(S) \in S /\ \A x \in S : Max(S) >= x
<1> DEFINE T == {x \in 0 .. n : n - x \in S}
<1>1. T \in SUBSET Nat /\ T # {}
  <2>1. PICK x \in S : TRUE
    OBVIOUS
  <2>2. x \in 0 .. n
    OBVIOUS
  <2>3. n - x \in 0 .. n /\ n - (n - x) = x
    BY <2>2
  <2>4. n - x \in T
    BY <2>3
  <2>5. T \in SUBSET Nat
    OBVIOUS
  <2>6. QED
    BY <2>4, <2>5
<1>2. Min(T) \in T /\ \A x \in T : Min(T) <= x
  <2> HIDE DEF T
  <2>1. QED
    BY <1>1, MinIsLeast
<1> DEFINE m == n - Min(T)
<1>3. m \in S
  BY <1>2
<1>4. \A y \in S : m >= y
  <2>1. TAKE y \in S
  <2>2. y \in 0 .. n /\ n - (n - y) = y
    OBVIOUS
  <2>3. n - y \in T
    BY <2>2
  <2>4. Min(T) <= n - y /\ Min(T) \in 0 .. n
    BY <1>2, <2>3
  <2> HIDE DEF T
  <2>5. QED
    BY <2>2, <2>4
<1>5. QED
  <2> HIDE DEF m
  <2>1. QED
    BY <1>3, <1>4 DEF Max

(* Where a text is cut.                                                     *)
LEMMA SliceFacts ==
  ASSUME NEW s \in Versions, NEW i \in 1 .. Len(s) + 1, NEW j \in 0 .. Len(s)
  PROVE  /\ SubSeq(s, i, j) \in Versions
         /\ Len(SubSeq(s, i, j)) = IF i <= j THEN j - i + 1 ELSE 0
         /\ \A k \in 1 .. Len(SubSeq(s, i, j)) : SubSeq(s, i, j)[k] = s[i + k - 1]
<1>1. Len(s) \in Nat /\ \A k \in 1 .. Len(s) : s[k] \in Characters
  BY LenProperties, ElementOfSeq DEF Versions
<1>2. \A k \in i .. j : s[k] \in Characters
  BY <1>1
<1>3. i \in Int /\ j \in Int
  BY <1>1
<1>4. /\ SubSeq(s, i, j) \in Seq(Characters)
      /\ Len(SubSeq(s, i, j)) = IF i <= j THEN j - i + 1 ELSE 0
      /\ \A k \in 1 .. j - i + 1 : SubSeq(s, i, j)[k] = s[i + k - 1]
  BY <1>2, <1>3, SubSeqProperties
<1>5. QED
  BY <1>3, <1>4 DEF Versions

LEMMA SliceOfSlice ==
  ASSUME NEW s \in Versions, NEW i \in 1 .. Len(s) + 1, NEW j \in i - 1 .. Len(s),
         NEW m \in 1 .. j - i + 2, NEW n \in 0 .. j - i + 1
  PROVE  SubSeq(SubSeq(s, i, j), m, n) = SubSeq(s, i + m - 1, i + n - 1)
<1> DEFINE t == SubSeq(s, i, j)
           a == SubSeq(t, m, n)
           b == SubSeq(s, i + m - 1, i + n - 1)
<1>1. Len(s) \in Nat
  BY LenProperties DEF Versions
<1>2. t \in Versions /\ Len(t) = j - i + 1 /\ \A k \in 1 .. Len(t) : t[k] = s[i + k - 1]
  <2>1. j \in 0 .. Len(s) /\ (i <= j \/ j - i + 1 = 0)
    BY <1>1
  <2>2. QED
    BY <1>1, <2>1, SliceFacts
<1>3. /\ a \in Versions
      /\ Len(a) = IF m <= n THEN n - m + 1 ELSE 0
      /\ \A k \in 1 .. Len(a) : a[k] = t[m + k - 1]
  <2> HIDE DEF t
  <2>1. m \in 1 .. Len(t) + 1 /\ n \in 0 .. Len(t)
    BY <1>1, <1>2
  <2>2. QED
    BY <1>2, <2>1, SliceFacts
<1>4. /\ b \in Versions
      /\ Len(b) = IF m <= n THEN n - m + 1 ELSE 0
      /\ \A k \in 1 .. Len(b) : b[k] = s[i + m - 1 + k - 1]
  <2>1. i + m - 1 \in 1 .. Len(s) + 1 /\ i + n - 1 \in 0 .. Len(s)
    BY <1>1
  <2>2. (i + m - 1 <= i + n - 1 <=> m <= n) /\ (i + n - 1) - (i + m - 1) + 1 = n - m + 1
    BY <1>1
  <2>3. QED
    BY <2>1, <2>2, SliceFacts
<1>5. Len(a) = Len(b)
  BY <1>3, <1>4
<1>6. \A k \in 1 .. Len(a) : a[k] = b[k]
  <2>1. TAKE k \in 1 .. Len(a)
  <2>2. m <= n /\ k \in 1 .. n - m + 1
    BY <1>1, <1>3
  <2>3. m + k - 1 \in 1 .. Len(t) /\ i + (m + k - 1) - 1 = i + m - 1 + k - 1
    BY <1>1, <1>2, <2>2
  <2> HIDE DEF t, a, b
  <2>4. QED
    BY <1>2, <1>3, <1>4, <1>5, <2>1, <2>3
<1>7. QED
  <2> HIDE DEF t, a, b
  <2>1. a = b
    BY <1>3, <1>4, <1>5, <1>6, SeqEqual DEF Versions
  <2>2. QED
    BY <2>1 DEF t, a, b

(***************************************************************************)
(* Numbers.                                                                *)
(***************************************************************************)

Numeral(s) == s \in Versions /\ AllDigits(s)

(* The values of the digits of a text.                                      *)
LEMMA DigitsHaveValues ==
  ASSUME NEW s, Numeral(s)
  PROVE  Len(s) \in Nat /\ \A i \in 1 .. Len(s) : DigitValue[s[i]] \in Nat
<1>1. Len(s) \in Nat /\ DOMAIN s = 1 .. Len(s)
  BY LenProperties DEF Numeral, Versions
<1>2. QED
  BY <1>1, VersionAssumption DEF Numeral, AllDigits

(* Reading from the left, one digit at a time.                              *)
LEMMA ReadUnfolds ==
  ASSUME NEW s, Numeral(s)
  PROVE  /\ Read(s)[0] = 0
         /\ \A i \in 0 .. Len(s) : Read(s)[i] \in Nat
         /\ \A i \in 1 .. Len(s) : Read(s)[i] = 10 * Read(s)[i - 1] + DigitValue[s[i]]
<1> DEFINE step == [x \in Nat \X (1 .. Len(s)) |-> 10 * x[1] + DigitValue[s[x[2]]]]
           Rec(r) == [i \in 0 .. Len(s) |->
                        IF i = 0 THEN 0 ELSE 10 * r[i - 1] + DigitValue[s[i]]]
           R == Read(s)
<1>1. Len(s) \in Nat /\ \A i \in 1 .. Len(s) : DigitValue[s[i]] \in Nat
  BY DigitsHaveValues
<1>2. step \in [Nat \X (1 .. Len(s)) -> Nat] /\ 0 \in Nat
  BY <1>1
<1>3. PICK f \in [0 .. Len(s) -> Nat] : Follows(f, 0, step, Len(s))
  <2> HIDE DEF step
  <2>1. QED
    BY <1>1, <1>2, RecursionExists
<1>4. f = Rec(f)
  <2>1. SUFFICES ASSUME NEW i \in 1 .. Len(s)
                 PROVE  f[i] = 10 * f[i - 1] + DigitValue[s[i]]
    BY <1>3 DEF Follows
  <2>2. i - 1 \in 0 .. Len(s) /\ f[i - 1] \in Nat
    BY <1>1
  <2>3. <<f[i - 1], i>> \in Nat \X (1 .. Len(s))
    BY <2>2
  <2>4. f[i] = step[<<f[i - 1], i>>]
    <3> HIDE DEF step
    <3>1. QED
      BY <1>3 DEF Follows
  <2>5. QED
    BY <2>3, <2>4
<1>5. R = Rec(R)
  BY <1>4 DEF Read
<1>6. \A i \in 0 .. Len(s) : R[i] = IF i = 0 THEN 0 ELSE 10 * R[i - 1] + DigitValue[s[i]]
  BY <1>5
<1> HIDE DEF R
<1>7. R[0] = 0 /\ \A i \in 1 .. Len(s) : R[i] = 10 * R[i - 1] + DigitValue[s[i]]
  BY <1>1, <1>6
<1>8. \A i \in 1 .. Len(s) : R[i - 1] \in Nat => R[i] \in Nat
  BY <1>1, <1>7
<1>9. \A i \in 0 .. Len(s) : R[i] \in Nat
  <2>1. R[0] \in Nat /\ Len(s) \in Nat
    BY <1>1, <1>7
  <2>2. QED
    BY <1>8, <2>1, StepsStay
<1>10. QED
  BY <1>7, <1>9 DEF R

(* Summing from the right, one place at a time.                             *)
LEMMA PlacesUnfold ==
  ASSUME NEW s, Numeral(s)
  PROVE  /\ Places(s)[0] = [sum |-> 0, unit |-> 1]
         /\ \A k \in 0 .. Len(s) : Places(s)[k] \in [sum : Nat, unit : Nat]
         /\ \A k \in 1 .. Len(s) :
              Places(s)[k] =
                [sum  |-> Places(s)[k - 1].sum
                            + Places(s)[k - 1].unit * DigitValue[s[Len(s) - k + 1]],
                 unit |-> 10 * Places(s)[k - 1].unit]
<1> DEFINE Rows == [sum : Nat, unit : Nat]
           first == [sum |-> 0, unit |-> 1]
           Next2(r, k) == [sum  |-> r.sum + r.unit * DigitValue[s[Len(s) - k + 1]],
                           unit |-> 10 * r.unit]
           step == [x \in Rows \X (1 .. Len(s)) |-> Next2(x[1], x[2])]
           Rec(p) == [k \in 0 .. Len(s) |-> IF k = 0 THEN first ELSE Next2(p[k - 1], k)]
           P == Places(s)
<1>1. Len(s) \in Nat /\ \A i \in 1 .. Len(s) : DigitValue[s[i]] \in Nat
  BY DigitsHaveValues
<1>2. \A k \in 1 .. Len(s) : DigitValue[s[Len(s) - k + 1]] \in Nat
  <2>1. \A k \in 1 .. Len(s) : Len(s) - k + 1 \in 1 .. Len(s)
    BY <1>1
  <2>2. QED
    BY <1>1, <2>1
<1>3. \A r \in Rows, k \in 1 .. Len(s) : Next2(r, k) \in Rows
  <2>1. TAKE r \in Rows, k \in 1 .. Len(s)
  <2>2. r.sum \in Nat /\ r.unit \in Nat /\ DigitValue[s[Len(s) - k + 1]] \in Nat
    BY <1>2
  <2>3. \A a, b, v \in Nat : a + b * v \in Nat /\ 10 * b \in Nat
    OBVIOUS
  <2>4. QED
    BY <2>2, <2>3
<1>4. first \in Rows
  OBVIOUS
<1>5. step \in [Rows \X (1 .. Len(s)) -> Rows]
  <2> HIDE DEF Next2, Rows
  <2>1. QED
    BY <1>3
<1>6. PICK f \in [0 .. Len(s) -> Rows] : Follows(f, first, step, Len(s))
  <2> HIDE DEF step, Rows, first
  <2>1. QED
    BY <1>1, <1>4, <1>5, RecursionExists
<1>7. f = Rec(f)
  <2> HIDE DEF Next2, first, Rows
  <2>1. f[0] = first
    BY <1>6 DEF Follows
  <2>2. ASSUME NEW k \in 1 .. Len(s) PROVE f[k] = Next2(f[k - 1], k)
    <3>1. k - 1 \in 0 .. Len(s)
      BY <1>1
    <3>2. <<f[k - 1], k>> \in Rows \X (1 .. Len(s))
      BY <1>6, <3>1
    <3>3. f[k] = step[<<f[k - 1], k>>]
      <4> HIDE DEF step
      <4>1. QED
        BY <1>6 DEF Follows
    <3>4. QED
      BY <3>2, <3>3
  <2>3. \A k \in 0 .. Len(s) : f[k] = IF k = 0 THEN first ELSE Next2(f[k - 1], k)
    <3>1. TAKE k \in 0 .. Len(s)
    <3>2. CASE k = 0
      BY <3>2, <2>1
    <3>3. CASE k # 0
      <4>1. k \in 1 .. Len(s)
        BY <1>1, <3>3
      <4>2. QED
        BY <3>3, <4>1, <2>2
    <3>4. QED
      BY <3>2, <3>3
  <2>4. f = [k \in 0 .. Len(s) |-> f[k]]
    OBVIOUS
  <2>5. QED
    BY <2>3, <2>4, Zenon
<1>8. P = Rec(P)
  BY <1>7 DEF Places
<1> HIDE DEF P, Next2, first, Rows
<1>9. \A k \in 0 .. Len(s) : P[k] = IF k = 0 THEN first ELSE Next2(P[k - 1], k)
  BY <1>8
<1>10. P[0] = first /\ \A k \in 1 .. Len(s) : P[k] = Next2(P[k - 1], k)
  BY <1>1, <1>9
<1>11. \A k \in 1 .. Len(s) : P[k - 1] \in Rows => P[k] \in Rows
  BY <1>3, <1>10
<1>12. P[0] \in Rows
  BY <1>4, <1>10
<1>13. \A k \in 0 .. Len(s) : P[k] \in Rows
  BY <1>1, <1>11, <1>12, StepsStay
<1>14. QED
  BY <1>10, <1>13 DEF P, Next2, first, Rows

(* Both ways of reading a number agree: with k places summed up, the digits *)
(* left of them make what is missing.                                       *)
LEMMA NumberIsValue ==
  ASSUME NEW s, Numeral(s)
  PROVE  Number(s) = Value(s) /\ Number(s) \in Nat
<1> DEFINE R == Read(s)
           P == Places(s)
           S == {k \in Nat : k <= Len(s) =>
                   R[Len(s)] = R[Len(s) - k] * P[k].unit + P[k].sum}
<1>1. Len(s) \in Nat /\ \A i \in 1 .. Len(s) : DigitValue[s[i]] \in Nat
  BY DigitsHaveValues
<1>2. /\ R[0] = 0
      /\ \A i \in 0 .. Len(s) : R[i] \in Nat
      /\ \A i \in 1 .. Len(s) : R[i] = 10 * R[i - 1] + DigitValue[s[i]]
  BY ReadUnfolds
<1>3. /\ P[0] = [sum |-> 0, unit |-> 1]
      /\ \A k \in 0 .. Len(s) : P[k] \in [sum : Nat, unit : Nat]
      /\ \A k \in 1 .. Len(s) :
           P[k] = [sum  |-> P[k - 1].sum + P[k - 1].unit * DigitValue[s[Len(s) - k + 1]],
                   unit |-> 10 * P[k - 1].unit]
  BY PlacesUnfold
<1> HIDE DEF R, P
<1>4. 0 \in S
  <2>1. Len(s) - 0 = Len(s) /\ R[Len(s)] \in Nat
    BY <1>1, <1>2
  <2>2. P[0].unit = 1 /\ P[0].sum = 0
    BY <1>3
  <2>3. QED
    BY <2>1, <2>2
<1>5. ASSUME NEW k \in Nat, k \in S PROVE k + 1 \in S
  <2>1. SUFFICES ASSUME k + 1 <= Len(s)
                 PROVE  R[Len(s)] = R[Len(s) - (k + 1)] * P[k + 1].unit + P[k + 1].sum
    OBVIOUS
  <2> DEFINE j == Len(s) - k
             d == DigitValue[s[j]]
             a == R[j - 1]
             u == P[k].unit
             z == P[k].sum
  <2>2. /\ j \in 1 .. Len(s) /\ k \in 0 .. Len(s) /\ k + 1 \in 1 .. Len(s)
        /\ (k + 1) - 1 = k /\ Len(s) - (k + 1) + 1 = j /\ Len(s) - (k + 1) = j - 1
        /\ j - 1 \in 0 .. Len(s)
    BY <1>1, <2>1
  <2>3. d \in Nat /\ a \in Nat /\ R[j] = 10 * a + d
    BY <1>1, <1>2, <2>2
  <2>4. u \in Nat /\ z \in Nat /\ P[k + 1] = [sum |-> z + u * d, unit |-> 10 * u]
    <3>1. u \in Nat /\ z \in Nat
      BY <1>3, <2>2
    <3>2. P[k + 1] = [sum |-> P[(k + 1) - 1].sum + P[(k + 1) - 1].unit * DigitValue[s[Len(s) - (k + 1) + 1]],
                      unit |-> 10 * P[(k + 1) - 1].unit]
      BY <1>3, <2>2
    <3>3. QED
      BY <2>2, <3>1, <3>2
  <2>5. R[Len(s)] = R[j] * u + z
    BY <1>5, <2>1, <2>2
  <2>6. P[k + 1].sum = z + u * d /\ P[k + 1].unit = 10 * u
    BY <2>4
  <2> HIDE DEF j, d, a, u, z
  <2>7. (10 * a + d) * u + z = a * (10 * u) + (z + u * d)
    BY <2>3, <2>4
  <2>8. R[Len(s)] = a * (10 * u) + (z + u * d)
    BY <2>3, <2>5, <2>7
  <2>9. R[Len(s) - (k + 1)] = a
    BY <2>2 DEF a
  <2>10. QED
    BY <2>6, <2>8, <2>9
<1>6. Nat \subseteq S
  <2> HIDE DEF S
  <2>1. QED
    BY <1>4, <1>5, SetInduction
<1>7. R[Len(s)] = R[Len(s) - Len(s)] * P[Len(s)].unit + P[Len(s)].sum
  BY <1>1, <1>6
<1>8. /\ Len(s) - Len(s) = 0 /\ Len(s) \in 0 .. Len(s)
  BY <1>1
<1>9. P[Len(s)].unit \in Nat /\ P[Len(s)].sum \in Nat
  BY <1>3, <1>8
<1>10. R[Len(s)] = P[Len(s)].sum
  BY <1>2, <1>7, <1>8, <1>9
<1>11. QED
  BY <1>9, <1>10 DEF Number, Value, R, P

(***************************************************************************)
(* Dotted lists of words.                                                  *)
(***************************************************************************)

(* What the words of a list have in common: they are not empty and hold     *)
(* neither a dot nor a plus.                                                *)
AreWords(s, words) ==
  /\ words \subseteq Within(s)
  /\ \A w \in words : w[1] <= w[2] /\ \A k \in w[1] .. w[2] : s[k] # "." /\ s[k] # "+"

(* The maximal stretches between dots of the first k characters.            *)
StretchTo(s, k, i, j) ==
  /\ i \in 1 .. k + 1 /\ j \in 0 .. k /\ i <= j + 1
  /\ i > 1 => s[i - 1] = "."
  /\ j < k => s[j + 1] = "."
  /\ \A m \in i .. j : s[m] # "."

AllWords(s, words, k) == \A i, j \in Nat : StretchTo(s, k, i, j) => <<i, j>> \in words

(* A list ends at k after its first word or after a list, a dot and a word. *)
LEMMA EndsUnfold ==
  ASSUME NEW s \in Versions, NEW words
  PROVE  /\ Ends(s, words)[0] = {}
         /\ \A k \in 1 .. Len(s) :
              \A e : e \in Ends(s, words)[k] <=>
                \/ e \in Ends(s, words)[k - 1]
                \/ /\ e = k
                   /\ \/ <<1, k>> \in words
                      \/ \E i \in Ends(s, words)[k - 1] :
                           s[i + 1] = "." /\ <<i + 2, k>> \in words
<1> DEFINE V == SUBSET Nat
           Longer(old, j) ==
             IF \/ <<1, j>> \in words
                \/ \E i \in old : s[i + 1] = "." /\ <<i + 2, j>> \in words
             THEN old \cup {j} ELSE old
           step == [x \in V \X (1 .. Len(s)) |-> Longer(x[1], x[2])]
           Rec(f) == [j \in 0 .. Len(s) |-> IF j = 0 THEN {} ELSE Longer(f[j - 1], j)]
           E == Ends(s, words)
<1>1. Len(s) \in Nat /\ {} \in V
  BY LenProperties DEF Versions
<1>2. \A old \in V, j \in 1 .. Len(s) : Longer(old, j) \in V
  <2>1. TAKE old \in V, j \in 1 .. Len(s)
  <2>2. old \cup {j} \in V
    OBVIOUS
  <2> HIDE DEF V
  <2>3. QED
    BY <2>2
<1> HIDE DEF Longer
<1>3. step \in [V \X (1 .. Len(s)) -> V]
  <2> HIDE DEF V
  <2>1. QED
    BY <1>2
<1>4. PICK f \in [0 .. Len(s) -> V] : Follows(f, {}, step, Len(s))
  <2> HIDE DEF step, V
  <2>1. QED
    BY <1>1, <1>3, RecursionExists
<1>5. f = Rec(f)
  <2> HIDE DEF V
  <2>1. f[0] = {}
    BY <1>4 DEF Follows
  <2>2. ASSUME NEW k \in 1 .. Len(s) PROVE f[k] = Longer(f[k - 1], k)
    <3>1. k - 1 \in 0 .. Len(s)
      BY <1>1
    <3>2. <<f[k - 1], k>> \in V \X (1 .. Len(s))
      BY <1>4, <3>1
    <3>3. f[k] = step[<<f[k - 1], k>>]
      <4> HIDE DEF step
      <4>1. QED
        BY <1>4 DEF Follows
    <3>4. QED
      BY <3>2, <3>3
  <2>3. \A j \in 0 .. Len(s) : f[j] = IF j = 0 THEN {} ELSE Longer(f[j - 1], j)
    <3>1. TAKE j \in 0 .. Len(s)
    <3>2. CASE j = 0
      BY <3>2, <2>1
    <3>3. CASE j # 0
      <4>1. j \in 1 .. Len(s)
        BY <1>1, <3>3
      <4>2. QED
        BY <3>3, <4>1, <2>2
    <3>4. QED
      BY <3>2, <3>3
  <2>4. f = [j \in 0 .. Len(s) |-> f[j]]
    OBVIOUS
  <2>5. QED
    BY <2>3, <2>4, Zenon
<1>6. E = Rec(E)
  BY <1>5 DEF Ends, Longer
<1> HIDE DEF E
<1>7. \A k \in 0 .. Len(s) : E[k] = IF k = 0 THEN {} ELSE Longer(E[k - 1], k)
  BY <1>6
<1>8. E[0] = {} /\ \A k \in 1 .. Len(s) : E[k] = Longer(E[k - 1], k)
  BY <1>1, <1>7
<1>9. QED
  BY <1>8 DEF E, Longer

(* A list that ends before k ends within the k characters.                  *)
LEMMA EndsAreWithin ==
  ASSUME NEW s \in Versions, NEW words
  PROVE  \A k \in 0 .. Len(s) :
           \A e : e \in Ends(s, words)[k] <=> e \in 1 .. k /\ e \in Ends(s, words)[e]
<1> DEFINE E == Ends(s, words)
           S == {k \in Nat : k <= Len(s) =>
                   \A e : e \in E[k] <=> e \in 1 .. k /\ e \in E[e]}
<1>1. Len(s) \in Nat
  BY LenProperties DEF Versions
<1>2. 0 \in S
  BY EndsUnfold
<1>3. ASSUME NEW k \in Nat, k \in S PROVE k + 1 \in S
  <2>1. SUFFICES ASSUME k + 1 <= Len(s), NEW e
                 PROVE  e \in E[k + 1] <=> e \in 1 .. k + 1 /\ e \in E[e]
    OBVIOUS
  <2>2. k + 1 \in 1 .. Len(s) /\ (k + 1) - 1 = k
    BY <1>1, <2>1
  <2> HIDE DEF S
  <2>3. \A j \in 1 .. Len(s) : \A x :
          (x \in E[j] => x \in E[j - 1] \/ x = j) /\ (x \in E[j - 1] => x \in E[j])
    <3>1. \A j \in 1 .. Len(s) : \A x : x \in E[j] <=>
                \/ x \in E[j - 1]
                \/ /\ x = j
                   /\ \/ <<1, j>> \in words
                      \/ \E i \in E[j - 1] :
                           s[i + 1] = "." /\ <<i + 2, j>> \in words
      BY EndsUnfold
    <3> HIDE DEF E
    <3>2. QED
      BY <3>1
  <2>4. /\ e \in E[k + 1] => e \in E[k] \/ e = k + 1
        /\ e \in E[k] => e \in E[k + 1]
    BY <2>2, <2>3
  <2> USE DEF S
  <2> HIDE DEF E
  <2>5. e \in E[k] <=> e \in 1 .. k /\ e \in E[e]
    BY <1>3, <2>1
  <2>6. e \in 1 .. k + 1 <=> e \in 1 .. k \/ e = k + 1
    OBVIOUS
  <2>7. QED
    BY <2>4, <2>5, <2>6
<1>4. Nat \subseteq S
  <2> HIDE DEF S
  <2>1. QED
    BY <1>2, <1>3, SetInduction
<1>5. QED
  BY <1>1, <1>4

(* A list ends at k exactly if each stretch of the first k characters is a  *)
(* word, and then it holds no plus.                                         *)
LEMMA EndsWhereAllWords ==
  ASSUME NEW s \in Versions, NEW words, AreWords(s, words)
  PROVE  \A k \in 1 .. Len(s) :
           /\ k \in Ends(s, words)[k] <=> AllWords(s, words, k)
           /\ k \in Ends(s, words)[k] => \A m \in 1 .. k : s[m] # "+"
<1> DEFINE E == Ends(s, words)
           Good(k) == /\ k \in E[k] <=> AllWords(s, words, k)
                      /\ k \in E[k] => \A m \in 1 .. k : s[m] # "+"
           S == {n \in Nat : \A k \in 1 .. n : k <= Len(s) => Good(k)}
<1>1. Len(s) \in Nat
  BY LenProperties DEF Versions
<1>2. 0 \in S
  OBVIOUS
<1>3. ASSUME NEW n \in Nat, n \in S PROVE n + 1 \in S
  <2>1. SUFFICES ASSUME n + 1 <= Len(s) PROVE Good(n + 1)
    <3> HIDE DEF Good
    <3>1. \A k \in 1 .. n + 1 : k \in 1 .. n \/ k = n + 1
      OBVIOUS
    <3>2. QED
      BY <1>3, <3>1
  <2> DEFINE k == n + 1
  <2>2. k \in 1 .. Len(s) /\ k - 1 = n /\ k \in Nat
    BY <1>1, <2>1
  <2>3. \A i : i \in E[n] <=> i \in 1 .. n /\ i \in E[i]
    BY <1>1, <2>1, EndsAreWithin
  <2>4. \A i \in 1 .. n : Good(i)
    BY <1>1, <1>3, <2>1
  <2>5. k \in E[k] <=> \/ <<1, k>> \in words
                       \/ \E i \in E[n] : s[i + 1] = "." /\ <<i + 2, k>> \in words
    <3>1. ~(k \in E[n])
      BY <2>3
    <3>2. QED
      BY <2>2, <3>1, EndsUnfold
  <2> HIDE DEF E, k
  <2>6. CASE <<1, k>> \in words
    <3>1. \A m \in 1 .. k : s[m] # "." /\ s[m] # "+"
      BY <2>6 DEF AreWords
    <3>2. ASSUME NEW i \in Nat, NEW j \in Nat, StretchTo(s, k, i, j) PROVE i = 1 /\ j = k
      <4>1. i \in 1 .. k + 1 /\ j \in 0 .. k /\ i <= j + 1
        BY <3>2 DEF StretchTo
      <4>2. ~(i > 1)
        <5>1. i > 1 => i - 1 \in 1 .. k
          BY <2>2, <4>1
        <5>2. QED
          BY <3>1, <3>2, <5>1 DEF StretchTo
      <4>3. ~(j < k)
        <5>1. j < k => j + 1 \in 1 .. k
          BY <2>2, <4>1
        <5>2. QED
          BY <3>1, <3>2, <5>1 DEF StretchTo
      <4>4. QED
        BY <2>2, <4>1, <4>2, <4>3
    <3>3. AllWords(s, words, k)
      BY <2>6, <3>2 DEF AllWords
    <3>4. QED
      BY <2>5, <2>6, <3>1, <3>3 DEF k
  <2>7. CASE \E i \in E[n] : s[i + 1] = "." /\ <<i + 2, k>> \in words
    <3>1. PICK h \in E[n] : s[h + 1] = "." /\ <<h + 2, k>> \in words
      BY <2>7
    <3>2. h \in 1 .. n /\ h \in E[h] /\ Good(h)
      BY <2>3, <2>4
    <3>3. h + 2 <= k /\ \A m \in h + 2 .. k : s[m] # "." /\ s[m] # "+"
      BY <3>1 DEF AreWords
    <3>4. ASSUME NEW i \in Nat, NEW j \in Nat, StretchTo(s, k, i, j)
          PROVE  <<i, j>> \in words
      <4>1. i \in 1 .. k + 1 /\ j \in 0 .. k /\ i <= j + 1
        BY <3>4 DEF StretchTo
      <4>2. CASE j <= h
        <5>1. StretchTo(s, h, i, j)
          <6>1. i \in 1 .. h + 1 /\ j \in 0 .. h /\ (j < h => j < k)
            BY <2>2, <3>2, <3>3, <4>1, <4>2
          <6>2. QED
            BY <3>4, <6>1 DEF StretchTo
        <5>2. QED
          BY <3>2, <5>1 DEF AllWords
      <4>3. CASE j > h
        <5>1. ~(i <= h + 1)
          <6>1. i <= h + 1 => h + 1 \in i .. j
            BY <3>2, <4>1, <4>3
          <6>2. QED
            BY <3>1, <3>4, <6>1 DEF StretchTo
        <5>2. ~(i > h + 2)
          <6>1. i > h + 2 => i > 1 /\ i - 1 \in h + 2 .. k
            BY <3>2, <4>1, <2>2
          <6>2. QED
            BY <3>3, <3>4, <6>1 DEF StretchTo
        <5>3. ~(j < k)
          <6>1. j < k => j + 1 \in h + 2 .. k
            BY <3>2, <4>1, <4>3, <2>2
          <6>2. QED
            BY <3>3, <3>4, <6>1 DEF StretchTo
        <5>4. i = h + 2 /\ j = k
          BY <2>2, <3>2, <4>1, <5>1, <5>2, <5>3
        <5>5. QED
          BY <3>1, <5>4
      <4>4. QED
        BY <3>2, <4>1, <4>2, <4>3
    <3>5. \A m \in 1 .. k : s[m] # "+"
      <4>1. TAKE m \in 1 .. k
      <4>2. m \in 1 .. h \/ m = h + 1 \/ m \in h + 2 .. k
        BY <3>2, <2>2
      <4>3. m \in 1 .. h => s[m] # "+"
        BY <3>2
      <4>4. m = h + 1 => s[m] # "+"
        BY <3>1
      <4>5. QED
        BY <3>3, <4>2, <4>3, <4>4
    <3>6. AllWords(s, words, k)
      BY <3>4 DEF AllWords
    <3>7. QED
      BY <2>5, <2>7, <3>5, <3>6 DEF k
  <2>8. CASE ~(k \in E[k])
    <3>1. SUFFICES ASSUME AllWords(s, words, k) PROVE FALSE
      BY <2>8 DEF k
    <3> DEFINE D == {m \in 1 .. k : s[m] = "."}
    <3>2. CASE D = {}
      <4>1. StretchTo(s, k, 1, k)
        BY <2>2, <3>2 DEF StretchTo
      <4>2. QED
        BY <2>2, <2>5, <2>8, <3>1, <4>1 DEF AllWords
    <3>3. CASE D # {}
      <4> DEFINE d == Max(D)
      <4>1. d \in D /\ \A m \in D : d >= m
        <5>1. D \in SUBSET (0 .. k)
          BY <2>2
        <5> HIDE DEF D
        <5>2. QED
          BY <2>2, <3>3, <5>1, MaxIsGreatest
      <4> HIDE DEF d
      <4>2. d \in 1 .. k /\ s[d] = "." /\ \A m \in d + 1 .. k : s[m] # "."
        <5>1. d \in 1 .. k /\ s[d] = "."
          BY <4>1
        <5>2. \A m \in d + 1 .. k : m \in 1 .. k /\ ~(d >= m)
          BY <2>2, <5>1
        <5>3. QED
          BY <4>1, <5>1, <5>2
      <4>3. StretchTo(s, k, d + 1, k)
        BY <2>2, <4>2 DEF StretchTo
      <4>4. <<d + 1, k>> \in words
        <5>1. d + 1 \in Nat
          BY <4>2
        <5>2. QED
          BY <2>2, <3>1, <4>3, <5>1 DEF AllWords
      <4>5. d + 1 <= k
        BY <4>4 DEF AreWords
      <4>6. d > 1
        <5>1. d = 1 => StretchTo(s, k, 1, 0)
          BY <2>2, <4>2 DEF StretchTo
        <5>2. ~(<<1, 0>> \in words)
          BY DEF AreWords
        <5>3. d # 1
          BY <3>1, <5>1, <5>2 DEF AllWords
        <5>4. QED
          BY <4>2, <5>3
      <4>7. d - 1 \in 1 .. n /\ d - 1 <= Len(s) /\ d - 1 \in Nat
        BY <2>1, <2>2, <4>2, <4>5, <4>6, <1>1
      <4>8. AllWords(s, words, d - 1)
        <5>1. SUFFICES ASSUME NEW i \in Nat, NEW j \in Nat, StretchTo(s, d - 1, i, j)
                       PROVE  StretchTo(s, k, i, j)
          BY <3>1 DEF AllWords
        <5>2. i \in 1 .. d /\ j \in 0 .. d - 1 /\ i <= j + 1
          BY <4>2, <5>1 DEF StretchTo
        <5>3. i \in 1 .. k + 1 /\ j \in 0 .. k /\ (j < d - 1 \/ j + 1 = d)
          BY <2>2, <4>2, <5>2
        <5>4. s[j + 1] = "."
          BY <4>2, <5>1, <5>3 DEF StretchTo
        <5>5. QED
          BY <5>1, <5>2, <5>3, <5>4 DEF StretchTo
      <4>9. d - 1 \in E[n]
        BY <2>3, <2>4, <4>7, <4>8
      <4>10. (d - 1) + 1 = d /\ (d - 1) + 2 = d + 1
        BY <4>2
      <4>11. QED
        BY <2>5, <2>8, <4>2, <4>4, <4>9, <4>10
    <3>4. QED
      BY <3>2, <3>3
  <2>9. QED
    BY <2>5, <2>6, <2>7, <2>8
<1>4. Nat \subseteq S
  <2> HIDE DEF S
  <2>1. QED
    BY <1>2, <1>3, SetInduction
<1>5. QED
  BY <1>1, <1>4

(* A dotted list of words is a text all of whose stretches are words.       *)
LEMMA DottedIsStretches ==
  ASSUME NEW s \in Versions, NEW words, AreWords(s, words)
  PROVE  /\ Dotted(s, words) <=> s # <<>> /\ Stretches(s) \subseteq words
         /\ Dotted(s, words) => \A m \in 1 .. Len(s) : s[m] # "+"
<1>1. Len(s) \in Nat /\ DOMAIN s = 1 .. Len(s) /\ (s # <<>> <=> Len(s) # 0)
  BY LenProperties, EmptySeq DEF Versions
<1>2. CASE Len(s) = 0
  <2>1. ~Dotted(s, words)
    BY <1>2, EndsUnfold DEF Dotted
  <2>2. QED
    BY <1>1, <1>2, <2>1
<1>3. CASE Len(s) # 0
  <2>1. /\ Dotted(s, words) <=> AllWords(s, words, Len(s))
        /\ Dotted(s, words) => \A m \in 1 .. Len(s) : s[m] # "+"
    <3>1. Len(s) \in 1 .. Len(s)
      BY <1>1, <1>3
    <3>2. QED
      BY <3>1, EndsWhereAllWords DEF Dotted
  <2>2. \A i, j \in Nat : StretchTo(s, Len(s), i, j) <=> <<i, j>> \in Stretches(s)
    <3>1. TAKE i \in Nat, j \in Nat
    <3>2. <<i, j>>[1] = i /\ <<i, j>>[2] = j
      OBVIOUS
    <3>3. QED
      BY <3>2 DEF StretchTo, Stretches
  <2>3. \A b \in Stretches(s) : b = <<b[1], b[2]>> /\ b[1] \in Nat /\ b[2] \in Nat
    BY <1>1 DEF Stretches
  <2>4. QED
    BY <1>1, <1>3, <2>1, <2>2, <2>3 DEF AllWords
<1>4. QED
  BY <1>2, <1>3

(* The words of the contract are the pieces the code accepts.               *)
LEMMA IdentifiersAgree ==
  ASSUME NEW s \in Versions
  PROVE  /\ Alphanumeric(s) <=> IdentifierOk(s)
         /\ PrereleaseIdentifier(s) <=> IdentifierOk(s) /\ ~(AllDigits(s) /\ LeadingZero(s))
         /\ IdentifierOk(s) => \A k \in 1 .. Len(s) : s[k] # "." /\ s[k] # "+"
<1>1. Len(s) \in Nat /\ DOMAIN s = 1 .. Len(s) /\ (s # <<>> <=> Len(s) # 0)
  BY LenProperties, EmptySeq DEF Versions
<1>2. \A k \in 1 .. Len(s) : s[k] \in Characters
  BY ElementOfSeq DEF Versions
<1>3. \A c \in Characters :
        c \in Characters \ (Others \cup {".", "+"}) <=> c \in Digits \cup Letters \cup {"-"}
  BY VersionAssumption DEF Characters
<1>4. ~("." \in Digits \cup Letters \cup {"-"}) /\ ~("+" \in Digits \cup Letters \cup {"-"})
  BY VersionAssumption
<1>5. Alphanumeric(s) <=> IdentifierOk(s)
  BY <1>1, <1>2, <1>3 DEF Alphanumeric, IdentifierOk
<1>6. s # <<>> /\ AllDigits(s) => (Numeric(s) <=> ~LeadingZero(s))
  <2>1. s # <<>> => (Len(s) = 1 <=> ~(Len(s) > 1))
    BY <1>1
  <2>2. QED
    BY <2>1 DEF Numeric, LeadingZero
<1>7. PrereleaseIdentifier(s) <=> IdentifierOk(s) /\ ~(AllDigits(s) /\ LeadingZero(s))
  BY <1>5, <1>6 DEF PrereleaseIdentifier, IdentifierOk, Numeric
<1>8. QED
  BY <1>1, <1>4, <1>5, <1>7 DEF IdentifierOk

(* What is between two dots, or between a dot and an end.                   *)
LEMMA StretchesAreSlices ==
  ASSUME NEW s \in Versions, NEW b \in Stretches(s)
  PROVE  /\ SubSeq(s, b[1], b[2]) \in Versions
         /\ b[1] <= b[2] => b \in Within(s)
         /\ b[1] <= b[2] <=> SubSeq(s, b[1], b[2]) # <<>>
<1>1. Len(s) \in Nat
  BY LenProperties DEF Versions
<1>2. b \in (1 .. Len(s) + 1) \X (0 .. Len(s)) /\ b[1] <= b[2] + 1
  BY DEF Stretches
<1>3. b[1] \in 1 .. Len(s) + 1 /\ b[2] \in 0 .. Len(s) /\ b = <<b[1], b[2]>>
  BY <1>2
<1>4. /\ SubSeq(s, b[1], b[2]) \in Versions
      /\ Len(SubSeq(s, b[1], b[2])) = IF b[1] <= b[2] THEN b[2] - b[1] + 1 ELSE 0
  BY <1>3, SliceFacts
<1>5. b[1] <= b[2] => b \in Within(s)
  <2>1. b[1] <= b[2] => b[1] \in 1 .. Len(s) /\ b[2] \in 1 .. Len(s)
    BY <1>1, <1>3
  <2>2. QED
    BY <1>3, <2>1 DEF Within
<1>6. SubSeq(s, b[1], b[2]) # <<>> <=> Len(SubSeq(s, b[1], b[2])) # 0
  BY <1>4, EmptySeq DEF Versions
<1>7. b[1] <= b[2] <=> SubSeq(s, b[1], b[2]) # <<>>
  <2>1. b[1] <= b[2] => b[2] - b[1] + 1 # 0
    BY <1>3
  <2>2. QED
    BY <1>4, <1>6, <2>1
<1>8. QED
  BY <1>4, <1>5, <1>7

(* A word is not empty and holds neither a dot nor a plus.                  *)
LEMMA WordsAreSolid ==
  ASSUME NEW s \in Versions, NEW w \in Within(s), Alphanumeric(SubSeq(s, w[1], w[2]))
  PROVE  w[1] <= w[2] /\ \A k \in w[1] .. w[2] : s[k] # "." /\ s[k] # "+"
<1> DEFINE t == SubSeq(s, w[1], w[2])
<1>1. Len(s) \in Nat /\ w[1] \in 1 .. Len(s) /\ w[2] \in 1 .. Len(s)
  BY LenProperties DEF Versions, Within
<1>2. /\ t \in Versions
      /\ Len(t) = IF w[1] <= w[2] THEN w[2] - w[1] + 1 ELSE 0
      /\ \A k \in 1 .. Len(t) : t[k] = s[w[1] + k - 1]
  <2>1. w[1] \in 1 .. Len(s) + 1 /\ w[2] \in 0 .. Len(s)
    BY <1>1
  <2>2. QED
    BY <2>1, SliceFacts
<1>3. t # <<>> /\ \A k \in 1 .. Len(t) : t[k] # "." /\ t[k] # "+"
  <2> HIDE DEF t
  <2>1. Alphanumeric(t)
    BY DEF t
  <2>2. QED
    BY <1>2, <2>1, IdentifiersAgree DEF Alphanumeric
<1>4. w[1] <= w[2]
  <2> HIDE DEF t
  <2>1. Len(t) # 0
    BY <1>2, <1>3, EmptySeq DEF Versions
  <2>2. QED
    BY <1>2, <2>1
<1>5. ASSUME NEW k \in w[1] .. w[2] PROVE s[k] # "." /\ s[k] # "+"
  <2>1. k - w[1] + 1 \in 1 .. Len(t) /\ w[1] + (k - w[1] + 1) - 1 = k
    <3> DEFINE a == w[1]
               b == w[2]
               n == Len(t)
    <3>1. a \in Nat /\ b \in Nat /\ n = b - a + 1 /\ k \in a .. b
      BY <1>1, <1>2, <1>4
    <3> HIDE DEF a, b, n, t
    <3>2. k - a + 1 \in 1 .. n /\ a + (k - a + 1) - 1 = k
      BY <3>1
    <3>3. QED
      BY <3>2 DEF a, n
  <2> HIDE DEF t
  <2>2. t[k - w[1] + 1] = s[k]
    BY <1>2, <2>1
  <2>3. QED
    BY <1>3, <2>1, <2>2
<1>6. QED
  BY <1>4, <1>5

(* Build metadata and prerelease, as the code checks them.                  *)
LEMMA BuildAgrees ==
  ASSUME NEW s \in Versions
  PROVE  /\ Build(s) <=> IsValidBuildMetadata(s)
         /\ Build(s) => \A m \in 1 .. Len(s) : s[m] # "+"
<1> DEFINE words == {w \in Within(s) : Alphanumeric(Slice(s, w[1], w[2]))}
<1>1. AreWords(s, words)
  <2>1. SUFFICES ASSUME NEW w \in Within(s), Alphanumeric(Slice(s, w[1], w[2]))
                 PROVE  w[1] <= w[2] /\ \A k \in w[1] .. w[2] : s[k] # "." /\ s[k] # "+"
    BY DEF AreWords
  <2>2. QED
    BY <2>1, WordsAreSolid DEF Slice
<1>2. ASSUME NEW b \in Stretches(s)
      PROVE  b \in words <=> IdentifierOk(SubSeq(s, b[1], b[2]))
  <2>1. /\ SubSeq(s, b[1], b[2]) \in Versions
        /\ b[1] <= b[2] => b \in Within(s)
        /\ b[1] <= b[2] <=> SubSeq(s, b[1], b[2]) # <<>>
    BY StretchesAreSlices
  <2>2. QED
    BY <2>1, IdentifiersAgree DEF Slice, IdentifierOk
<1>3. IsValidBuildMetadata(s) <=> s # <<>> /\ Stretches(s) \subseteq words
  <2> HIDE DEF words
  <2>1. QED
    BY <1>2 DEF IsValidBuildMetadata, Pieces
<1>4. Build(s) <=> Dotted(s, words)
  BY DEF Build
<1>5. QED
  <2> HIDE DEF words
  <2>1. QED
    BY <1>1, <1>3, <1>4, DottedIsStretches

LEMMA PrereleaseAgrees ==
  ASSUME NEW s \in Versions
  PROVE  /\ Prerelease(s) <=> IsValidPrerelease(s)
         /\ Prerelease(s) => \A m \in 1 .. Len(s) : s[m] # "+"
<1> DEFINE words == {w \in Within(s) : PrereleaseIdentifier(Slice(s, w[1], w[2]))}
           Ok(p) == IdentifierOk(p) /\ ~(AllDigits(p) /\ LeadingZero(p))
<1>1. AreWords(s, words)
  <2>1. SUFFICES ASSUME NEW w \in Within(s), PrereleaseIdentifier(Slice(s, w[1], w[2]))
                 PROVE  w[1] <= w[2] /\ \A k \in w[1] .. w[2] : s[k] # "." /\ s[k] # "+"
    BY DEF AreWords
  <2>2. QED
    BY <2>1, WordsAreSolid DEF Slice, PrereleaseIdentifier
<1>2. ASSUME NEW b \in Stretches(s)
      PROVE  b \in words <=> Ok(SubSeq(s, b[1], b[2]))
  <2>1. /\ SubSeq(s, b[1], b[2]) \in Versions
        /\ b[1] <= b[2] => b \in Within(s)
        /\ b[1] <= b[2] <=> SubSeq(s, b[1], b[2]) # <<>>
    BY StretchesAreSlices
  <2>2. QED
    BY <2>1, IdentifiersAgree DEF Slice, IdentifierOk
<1>3. IsValidPrerelease(s) <=> s # <<>> /\ Stretches(s) \subseteq words
  <2> HIDE DEF words
  <2>1. QED
    BY <1>2 DEF IsValidPrerelease, Pieces
<1>4. Prerelease(s) <=> Dotted(s, words)
  BY DEF Prerelease
<1>5. QED
  <2> HIDE DEF words
  <2>1. QED
    BY <1>1, <1>3, <1>4, DottedIsStretches

(***************************************************************************)
(* The parser and the readings of the grammar.                             *)
(***************************************************************************)

(* A component is a number without a leading zero that fits.                *)
LEMMA ComponentAgrees ==
  ASSUME NEW s \in Versions
  PROVE  /\ ParseComponent(s) # Malformed <=> Numeric(s) /\ Value(s) <= U64Max
         /\ ParseComponent(s) # Malformed => ParseComponent(s) = Value(s)
         /\ Numeric(s) => Value(s) \in Nat
<1>1. Len(s) \in Nat /\ (s # <<>> <=> Len(s) # 0)
  BY LenProperties, EmptySeq DEF Versions
<1>2. AllDigits(s) => Number(s) = Value(s) /\ Number(s) \in Nat
  BY NumberIsValue DEF Numeral
<1>3. Numeric(s) <=> s # <<>> /\ AllDigits(s) /\ ~LeadingZero(s)
  BY <1>1 DEF Numeric, LeadingZero
<1>4. U64Max \in Nat /\ Malformed \notin Nat
  BY VersionAssumption
<1>5. CASE Numeric(s) /\ Value(s) <= U64Max
  <2>1. ParseComponent(s) = Value(s) /\ Value(s) \in Nat
    BY <1>2, <1>3, <1>4, <1>5 DEF ParseComponent
  <2>2. QED
    BY <1>4, <1>5, <2>1
<1>6. CASE ~(Numeric(s) /\ Value(s) <= U64Max)
  <2>1. ParseComponent(s) = Malformed
    BY <1>2, <1>3, <1>4, <1>6 DEF ParseComponent
  <2>2. QED
    BY <1>2, <1>3, <1>6, <2>1
<1>7. QED
  BY <1>5, <1>6

(* Where the first c of a text is, or where the text ends.                  *)
IsCutAt(c, s, i) ==
  /\ i \in 1 .. Len(s) + 1
  /\ \A k \in 1 .. i - 1 : s[k] # c
  /\ i <= Len(s) => s[i] = c

LEMMA CutIsFirst ==
  ASSUME NEW s \in Versions, NEW c
  PROVE  \E i : /\ IsCutAt(c, s, i)
                /\ Occurs(c, s) <=> i <= Len(s)
                /\ Before(c, s) = SubSeq(s, 1, i - 1)
                /\ Occurs(c, s) => RightOf(c, s) = SubSeq(s, i + 1, Len(s))
<1> DEFINE I == {i \in 1 .. Len(s) : s[i] = c}
<1>1. Len(s) \in Nat /\ DOMAIN s = 1 .. Len(s) /\ SubSeq(s, 1, Len(s)) = s
  BY LenProperties, SubSeqFull DEF Versions
<1>2. Occurs(c, s) <=> I # {}
  BY <1>1 DEF Occurs
<1>3. CASE I = {}
  <2>1. IsCutAt(c, s, Len(s) + 1)
    BY <1>1, <1>3 DEF IsCutAt
  <2>2. (Len(s) + 1) - 1 = Len(s) /\ ~(Len(s) + 1 <= Len(s))
    BY <1>1
  <2>3. Before(c, s) = SubSeq(s, 1, (Len(s) + 1) - 1)
    BY <1>1, <1>2, <1>3, <2>2 DEF Before
  <2>4. QED
    BY <1>2, <1>3, <2>1, <2>2, <2>3
<1>4. CASE I # {}
  <2> DEFINE i == Min(I)
  <2>1. i \in I /\ \A x \in I : i <= x
    <3>1. I \in SUBSET Nat
      OBVIOUS
    <3> HIDE DEF I
    <3>2. QED
      BY <1>4, <3>1, MinIsLeast
  <2>2. SelectInSeq(s, LAMBDA x : x = c) = i
    BY <1>4 DEF SelectInSeq
  <2>3. Before(c, s) = SubSeq(s, 1, i - 1) /\ RightOf(c, s) = SubSeq(s, i + 1, Len(s))
    BY <1>2, <1>4, <2>2 DEF Before, LeftOf, RightOf
  <2> HIDE DEF i
  <2>4. i \in 1 .. Len(s) /\ s[i] = c
    BY <2>1
  <2>5. \A k \in 1 .. i - 1 : s[k] # c
    <3>1. \A k \in 1 .. i - 1 : k \in 1 .. Len(s) /\ ~(i <= k)
      BY <1>1, <2>4
    <3>2. QED
      BY <2>1, <3>1
  <2>6. IsCutAt(c, s, i) /\ i <= Len(s)
    BY <1>1, <2>4, <2>5 DEF IsCutAt
  <2>7. QED
    BY <1>2, <1>4, <2>3, <2>6
<1>5. QED
  BY <1>3, <1>4

(* The first plus p, and the first hyphen h before it.                      *)
CutsAt(s, p, h) ==
  /\ IsCutAt("+", s, p)
  /\ h \in 1 .. p
  /\ \A k \in 1 .. h - 1 : s[k] # "-"
  /\ h < p => s[h] = "-"

SuffixesOk(s, p, h) ==
  /\ p <= Len(s) => IsValidBuildMetadata(SubSeq(s, p + 1, Len(s)))
  /\ h < p => IsValidPrerelease(SubSeq(s, h + 1, p - 1))

LEMMA ParserCuts ==
  ASSUME NEW s \in Versions
  PROVE  \E p, h :
           /\ CutsAt(s, p, h)
           /\ ParseNirVersion(s) =
                IF SuffixesOk(s, p, h) THEN ParseCore(SubSeq(s, 1, h - 1)) ELSE Malformed
<1>1. Len(s) \in Nat
  BY LenProperties DEF Versions
<1>2. PICK p : /\ IsCutAt("+", s, p)
               /\ Occurs("+", s) <=> p <= Len(s)
               /\ Before("+", s) = SubSeq(s, 1, p - 1)
               /\ Occurs("+", s) => RightOf("+", s) = SubSeq(s, p + 1, Len(s))
  BY CutIsFirst
<1> DEFINE b == SubSeq(s, 1, p - 1)
<1>3. p \in 1 .. Len(s) + 1
  BY <1>2 DEF IsCutAt
<1>4. b \in Versions /\ Len(b) = p - 1 /\ \A k \in 1 .. p - 1 : b[k] = s[k]
  <2>1. p - 1 \in 0 .. Len(s) /\ 1 \in 1 .. Len(s) + 1
    BY <1>1, <1>3
  <2>2. /\ b \in Versions
        /\ Len(b) = IF 1 <= p - 1 THEN (p - 1) - 1 + 1 ELSE 0
        /\ \A k \in 1 .. Len(b) : b[k] = s[1 + k - 1]
    BY <2>1, SliceFacts
  <2>3. Len(b) = p - 1
    BY <1>1, <1>3, <2>2
  <2>4. \A k \in 1 .. p - 1 : 1 + k - 1 = k
    BY <1>3
  <2> HIDE DEF b
  <2>5. QED
    BY <2>2, <2>3, <2>4
<1>5. PICK h : /\ IsCutAt("-", b, h)
               /\ Occurs("-", b) <=> h <= Len(b)
               /\ Before("-", b) = SubSeq(b, 1, h - 1)
               /\ Occurs("-", b) => RightOf("-", b) = SubSeq(b, h + 1, Len(b))
  <2> HIDE DEF b
  <2>1. QED
    BY <1>4, CutIsFirst
<1>6. h \in 1 .. p /\ (h <= Len(b) <=> h < p)
  <2> HIDE DEF b
  <2>1. QED
    BY <1>1, <1>3, <1>4, <1>5 DEF IsCutAt
<1>7. CutsAt(s, p, h)
  <2> HIDE DEF b
  <2>1. \A k \in 1 .. h - 1 : s[k] # "-"
    <3>1. \A k \in 1 .. h - 1 : k \in 1 .. p - 1
      BY <1>3, <1>6
    <3>2. QED
      BY <1>4, <1>5, <3>1 DEF IsCutAt
  <2>2. h < p => s[h] = "-"
    <3>1. h < p => h \in 1 .. p - 1
      BY <1>3, <1>6
    <3>2. QED
      BY <1>4, <1>5, <1>6, <3>1 DEF IsCutAt
  <2>3. QED
    BY <1>2, <1>6, <2>1, <2>2 DEF CutsAt
<1>8. SubSeq(b, 1, h - 1) = SubSeq(s, 1, h - 1)
  <2>1. /\ 1 \in 1 .. Len(s) + 1 /\ p - 1 \in 1 - 1 .. Len(s)
        /\ 1 \in 1 .. (p - 1) - 1 + 2 /\ h - 1 \in 0 .. (p - 1) - 1 + 1
        /\ 1 + 1 - 1 = 1 /\ 1 + (h - 1) - 1 = h - 1
    BY <1>1, <1>3, <1>6
  <2>2. SubSeq(SubSeq(s, 1, p - 1), 1, h - 1) = SubSeq(s, 1 + 1 - 1, 1 + (h - 1) - 1)
    BY <2>1, SliceOfSlice
  <2>3. QED
    BY <2>1, <2>2
<1>9. h < p => SubSeq(b, h + 1, Len(b)) = SubSeq(s, h + 1, p - 1)
  <2>1. SUFFICES ASSUME h < p PROVE SubSeq(b, h + 1, p - 1) = SubSeq(s, h + 1, p - 1)
    BY <1>4
  <2>2. /\ 1 \in 1 .. Len(s) + 1 /\ p - 1 \in 1 - 1 .. Len(s)
        /\ h + 1 \in 1 .. (p - 1) - 1 + 2 /\ p - 1 \in 0 .. (p - 1) - 1 + 1
        /\ 1 + (h + 1) - 1 = h + 1 /\ 1 + (p - 1) - 1 = p - 1
    BY <1>1, <1>3, <1>6, <2>1
  <2>3. SubSeq(SubSeq(s, 1, p - 1), h + 1, p - 1) = SubSeq(s, 1 + (h + 1) - 1, 1 + (p - 1) - 1)
    BY <2>2, SliceOfSlice
  <2>4. QED
    BY <2>2, <2>3
<1>10. BuildOk(s) <=> (p <= Len(s) => IsValidBuildMetadata(SubSeq(s, p + 1, Len(s))))
  BY <1>2 DEF BuildOk
<1>11. PrereleaseOk(b) <=> (h < p => IsValidPrerelease(SubSeq(s, h + 1, p - 1)))
  <2> HIDE DEF b
  <2>1. QED
    BY <1>5, <1>6, <1>9 DEF PrereleaseOk
<1>12. QED
  <2> HIDE DEF b
  <2>1. Before("+", s) = b
    BY <1>2 DEF b
  <2>2. Before("-", b) = SubSeq(s, 1, h - 1)
    BY <1>5, <1>8
  <2>3. QED
    BY <1>7, <1>10, <1>11, <2>1, <2>2 DEF ParseNirVersion, SuffixesOk

(* The only dots of a text.                                                 *)
DotsAre(t, d, e) ==
  /\ d \in 1 .. Len(t) /\ e \in 1 .. Len(t) /\ d < e
  /\ \A k \in 1 .. Len(t) : t[k] = "." <=> k = d \/ k = e

LEMMA TwoDots ==
  ASSUME NEW t \in Versions
  PROVE  LET dots == {i \in DOMAIN t : t[i] = "."}
         IN  /\ Cardinality(dots) = 2 => \E d, e : DotsAre(t, d, e)
             /\ \A d, e : DotsAre(t, d, e) =>
                  Cardinality(dots) = 2 /\ Min(dots) = d /\ Max(dots) = e
<1> DEFINE dots == {i \in DOMAIN t : t[i] = "."}
<1>1. Len(t) \in Nat /\ DOMAIN t = 1 .. Len(t)
  BY LenProperties DEF Versions
<1>2. dots \in SUBSET (0 .. Len(t)) /\ dots \in SUBSET Nat /\ IsFiniteSet(dots)
  <2>1. dots \subseteq 1 .. Len(t)
    BY <1>1
  <2>2. IsFiniteSet(1 .. Len(t))
    BY <1>1, FS_Interval
  <2> HIDE DEF dots
  <2>3. IsFiniteSet(dots)
    BY <2>1, <2>2, FS_Subset
  <2>4. QED
    BY <1>1, <2>1, <2>3
<1>3. ASSUME Cardinality(dots) = 2 PROVE \E d, e : DotsAre(t, d, e)
  <2> DEFINE d == Min(dots)
             e == Max(dots)
  <2> HIDE DEF dots
  <2>1. dots # {}
    BY <1>3, FS_EmptySet
  <2>2. d \in dots /\ e \in dots /\ \A x \in dots : d <= x /\ e >= x
    BY <1>1, <1>2, <2>1, MinIsLeast, MaxIsGreatest
  <2> HIDE DEF d, e
  <2>3. Cardinality(dots \ {d}) = 1 /\ IsFiniteSet(dots \ {d})
    BY <1>2, <1>3, <2>2, FS_RemoveElement
  <2>4. d # e
    <3>1. SUFFICES ASSUME d = e PROVE FALSE
      OBVIOUS
    <3>2. dots \ {d} = {}
      BY <1>2, <2>2, <3>1
    <3>3. QED
      BY <2>3, <3>2, FS_EmptySet
  <2>5. Cardinality((dots \ {d}) \ {e}) = 0 /\ IsFiniteSet((dots \ {d}) \ {e})
    <3> DEFINE T == dots \ {d}
    <3>1. e \in T /\ Cardinality(T) = 1 /\ IsFiniteSet(T)
      BY <2>2, <2>3, <2>4
    <3> HIDE DEF T
    <3>2. IsFiniteSet(T \ {e}) /\ Cardinality(T \ {e}) = Cardinality(T) - 1
      BY <3>1, FS_RemoveElement
    <3>3. IsFiniteSet(T \ {e}) /\ Cardinality(T \ {e}) = 0
      BY <3>1, <3>2
    <3>4. QED
      BY <3>3 DEF T
  <2>6. (dots \ {d}) \ {e} = {}
    BY <2>5, FS_EmptySet
  <2>7. dots = {d, e}
    BY <2>2, <2>6
  <2>8. d < e
    BY <1>2, <2>2, <2>4
  <2>9. DotsAre(t, d, e)
    BY <1>1, <2>7, <2>8 DEF DotsAre, dots
  <2>10. QED
    BY <2>9
<1>4. ASSUME NEW d, NEW e, DotsAre(t, d, e)
      PROVE  Cardinality(dots) = 2 /\ Min(dots) = d /\ Max(dots) = e
  <2>1. dots = {d, e} /\ d \in Nat /\ e \in Nat /\ d < e
    BY <1>1, <1>4 DEF DotsAre
  <2> HIDE DEF dots
  <2>2. Min(dots) \in dots /\ Min(dots) <= d /\ Max(dots) \in dots /\ Max(dots) >= e
    BY <1>1, <1>2, <2>1, MinIsLeast, MaxIsGreatest
  <2>3. Min(dots) = d /\ Max(dots) = e
    BY <2>1, <2>2
  <2>4. Cardinality({d}) = 1 /\ IsFiniteSet({d})
    BY FS_Singleton
  <2>5. Cardinality({d} \cup {e}) = 2
    <3>1. e \notin {d}
      BY <2>1
    <3>2. Cardinality({d} \cup {e}) = Cardinality({d}) + 1
      BY <2>4, <3>1, FS_AddElement
    <3>3. QED
      BY <2>4, <3>2
  <2>6. dots = {d} \cup {e}
    BY <2>1
  <2>7. QED
    BY <2>3, <2>5, <2>6
<1>5. QED
  BY <1>3, <1>4

(* The three numbers around two dots.                                       *)
Parts(t, d, e) ==
  <<SubSeq(t, 1, d - 1), SubSeq(t, d + 1, e - 1), SubSeq(t, e + 1, Len(t))>>

Values3(t, d, e) ==
  <<Value(Parts(t, d, e)[1]), Value(Parts(t, d, e)[2]), Value(Parts(t, d, e)[3])>>

AreNumbers(t, d, e) ==
  Numeric(Parts(t, d, e)[1]) /\ Numeric(Parts(t, d, e)[2]) /\ Numeric(Parts(t, d, e)[3])

LEMMA CoreAgrees ==
  ASSUME NEW t \in Versions
  PROVE  /\ ParseCore(t) # Malformed => \E d, e : DotsAre(t, d, e) /\ AreNumbers(t, d, e)
         /\ \A d, e : DotsAre(t, d, e) /\ AreNumbers(t, d, e) =>
              /\ Values3(t, d, e) \in Nat \X Nat \X Nat
              /\ IF \A i \in 1 .. 3 : Values3(t, d, e)[i] <= U64Max
                 THEN ParseCore(t) = Values3(t, d, e) /\ ParseCore(t) # Malformed
                 ELSE ParseCore(t) = Malformed
<1> DEFINE dots == {i \in DOMAIN t : t[i] = "."}
           parsed(d, e) == <<ParseComponent(SubSeq(t, 1, d - 1)),
                             ParseComponent(SubSeq(t, d + 1, e - 1)),
                             ParseComponent(SubSeq(t, e + 1, Len(t)))>>
<1>1. ParseCore(t) =
        IF Cardinality(dots) = 2 /\ \A i \in 1 .. 3 : parsed(Min(dots), Max(dots))[i] # Malformed
        THEN parsed(Min(dots), Max(dots)) ELSE Malformed
  BY DEF ParseCore
<1>2. /\ Cardinality(dots) = 2 => \E d, e : DotsAre(t, d, e)
      /\ \A d, e : DotsAre(t, d, e) =>
           Cardinality(dots) = 2 /\ Min(dots) = d /\ Max(dots) = e
  BY TwoDots
<1> HIDE DEF dots, parsed
<1>3. ASSUME NEW d, NEW e, DotsAre(t, d, e)
      PROVE  /\ \A i \in 1 .. 3 : Parts(t, d, e)[i] \in Versions
             /\ \A i \in 1 .. 3 : parsed(d, e)[i] = ParseComponent(Parts(t, d, e)[i])
             /\ parsed(d, e) = <<parsed(d, e)[1], parsed(d, e)[2], parsed(d, e)[3]>>
  <2>1. Len(t) \in Nat /\ d \in 1 .. Len(t) /\ e \in 1 .. Len(t)
    BY <1>3, LenProperties DEF Versions, DotsAre
  <2>2. SubSeq(t, 1, d - 1) \in Versions
    <3>1. 1 \in 1 .. Len(t) + 1 /\ d - 1 \in 0 .. Len(t)
      BY <2>1
    <3>2. QED
      BY <3>1, SliceFacts
  <2>3. SubSeq(t, d + 1, e - 1) \in Versions
    <3>1. d + 1 \in 1 .. Len(t) + 1 /\ e - 1 \in 0 .. Len(t)
      BY <2>1
    <3>2. QED
      BY <3>1, SliceFacts
  <2>4. SubSeq(t, e + 1, Len(t)) \in Versions
    <3>1. e + 1 \in 1 .. Len(t) + 1 /\ Len(t) \in 0 .. Len(t)
      BY <2>1
    <3>2. QED
      BY <3>1, SliceFacts
  <2>5. \A i \in 1 .. 3 : i = 1 \/ i = 2 \/ i = 3
    OBVIOUS
  <2>6. QED
    BY <2>2, <2>3, <2>4, <2>5 DEF Parts, parsed
<1>4. ASSUME NEW d, NEW e, DotsAre(t, d, e)
      PROVE  /\ ParseCore(t) = IF \A i \in 1 .. 3 : parsed(d, e)[i] # Malformed
                               THEN parsed(d, e) ELSE Malformed
             /\ \A i \in 1 .. 3 :
                  /\ parsed(d, e)[i] # Malformed <=>
                       Numeric(Parts(t, d, e)[i]) /\ Value(Parts(t, d, e)[i]) <= U64Max
                  /\ parsed(d, e)[i] # Malformed => parsed(d, e)[i] = Value(Parts(t, d, e)[i])
                  /\ Numeric(Parts(t, d, e)[i]) => Value(Parts(t, d, e)[i]) \in Nat
  <2>1. ParseCore(t) = IF \A i \in 1 .. 3 : parsed(d, e)[i] # Malformed
                       THEN parsed(d, e) ELSE Malformed
    BY <1>1, <1>2, <1>4
  <2>2. QED
    BY <1>3, <1>4, <2>1, ComponentAgrees
<1>5. ASSUME ParseCore(t) # Malformed
      PROVE  \E d, e : DotsAre(t, d, e) /\ AreNumbers(t, d, e)
  <2>1. PICK d, e : DotsAre(t, d, e)
    BY <1>1, <1>2, <1>5
  <2>2. \A i \in 1 .. 3 : Numeric(Parts(t, d, e)[i])
    BY <1>4, <1>5, <2>1
  <2>3. AreNumbers(t, d, e)
    BY <2>2 DEF AreNumbers
  <2>4. QED
    BY <2>1, <2>3
<1>6. ASSUME NEW d, NEW e, DotsAre(t, d, e), AreNumbers(t, d, e)
      PROVE  /\ Values3(t, d, e) \in Nat \X Nat \X Nat
             /\ IF \A i \in 1 .. 3 : Values3(t, d, e)[i] <= U64Max
                THEN ParseCore(t) = Values3(t, d, e) /\ ParseCore(t) # Malformed
                ELSE ParseCore(t) = Malformed
  <2>1. \A i \in 1 .. 3 : Numeric(Parts(t, d, e)[i])
    <3>1. \A i \in 1 .. 3 : i = 1 \/ i = 2 \/ i = 3
      OBVIOUS
    <3>2. QED
      BY <1>6, <3>1 DEF AreNumbers
  <2>2. \A i \in 1 .. 3 : Values3(t, d, e)[i] = Value(Parts(t, d, e)[i])
    <3>1. \A i \in 1 .. 3 : i = 1 \/ i = 2 \/ i = 3
      OBVIOUS
    <3>2. QED
      BY <3>1 DEF Values3
  <2>3. \A i \in 1 .. 3 : Value(Parts(t, d, e)[i]) \in Nat
    BY <1>4, <1>6, <2>1
  <2>4. Values3(t, d, e) \in Nat \X Nat \X Nat
    BY <2>3 DEF Values3
  <2>5. CASE \A i \in 1 .. 3 : Values3(t, d, e)[i] <= U64Max
    <3>1. \A i \in 1 .. 3 : parsed(d, e)[i] # Malformed /\ parsed(d, e)[i] = Values3(t, d, e)[i]
      BY <1>4, <1>6, <2>1, <2>2, <2>5
    <3>2. ParseCore(t) = parsed(d, e)
      BY <1>4, <1>6, <3>1
    <3>3. parsed(d, e) = Values3(t, d, e)
      <4>1. parsed(d, e) = <<parsed(d, e)[1], parsed(d, e)[2], parsed(d, e)[3]>>
        BY <1>3, <1>6
      <4>2. Values3(t, d, e) = <<Values3(t, d, e)[1], Values3(t, d, e)[2], Values3(t, d, e)[3]>>
        BY DEF Values3
      <4>3. QED
        BY <3>1, <4>1, <4>2
    <3>4. ParseCore(t) # Malformed
      BY <2>4, <3>2, <3>3, VersionAssumption
    <3>5. QED
      BY <2>4, <2>5, <3>2, <3>3, <3>4
  <2>6. CASE ~(\A i \in 1 .. 3 : Values3(t, d, e)[i] <= U64Max)
    <3>1. ~(\A i \in 1 .. 3 : parsed(d, e)[i] # Malformed)
      BY <1>4, <1>6, <2>2, <2>6
    <3>2. QED
      BY <1>4, <1>6, <2>4, <2>6, <3>1
  <2>7. QED
    BY <2>5, <2>6
<1>7. QED
  BY <1>5, <1>6

(* The suffix of a text, by where it begins.                                *)
BuildAt(s, k) ==
  k = Len(s) \/ (s[k + 1] = "+" /\ IsValidBuildMetadata(SubSeq(s, k + 2, Len(s))))

SuffixAt(s, e) ==
  \/ BuildAt(s, e)
  \/ /\ s[e + 1] = "-"
     /\ \E k \in e + 1 .. Len(s) : IsValidPrerelease(SubSeq(s, e + 2, k)) /\ BuildAt(s, k)

LEMMA BuildSuffixAgrees ==
  ASSUME NEW s \in Versions, NEW k \in 0 .. Len(s)
  PROVE  BuildSuffix(SubSeq(s, k + 1, Len(s))) <=> BuildAt(s, k)
<1> DEFINE t == SubSeq(s, k + 1, Len(s))
<1>1. Len(s) \in Nat
  BY LenProperties DEF Versions
<1>2. t \in Versions /\ Len(t) = Len(s) - k /\ \A j \in 1 .. Len(t) : t[j] = s[k + 1 + j - 1]
  <2>1. k + 1 \in 1 .. Len(s) + 1 /\ Len(s) \in 0 .. Len(s)
    BY <1>1
  <2>2. /\ t \in Versions
        /\ Len(t) = IF k + 1 <= Len(s) THEN Len(s) - (k + 1) + 1 ELSE 0
        /\ \A j \in 1 .. Len(t) : t[j] = s[k + 1 + j - 1]
    BY <2>1, SliceFacts
  <2> HIDE DEF t
  <2>3. QED
    BY <1>1, <2>2
<1>3. CASE k = Len(s)
  <2>1. t = <<>>
    <3> HIDE DEF t
    <3>1. QED
      BY <1>1, <1>2, <1>3, EmptySeq DEF Versions
  <2>2. QED
    BY <1>3, <2>1 DEF BuildSuffix, BuildAt
<1>4. CASE k # Len(s)
  <2>1. Len(t) \in Nat \ {0} /\ t # <<>>
    <3> HIDE DEF t
    <3>1. QED
      BY <1>1, <1>2, <1>4, EmptySeq DEF Versions
  <2>2. t[1] = s[k + 1]
    <3>1. 1 \in 1 .. Len(t) /\ k + 1 + 1 - 1 = k + 1
      BY <2>1
    <3> HIDE DEF t
    <3>2. QED
      BY <1>2, <3>1
  <2>3. Tail(t) = SubSeq(s, k + 2, Len(s))
    <3>1. Tail(t) = SubSeq(t, 2, Len(t))
      <4> HIDE DEF t
      <4>1. QED
        BY <1>2, <2>1, TailIsSubSeq DEF Versions
    <3>2. /\ k + 1 \in 1 .. Len(s) + 1 /\ Len(s) \in (k + 1) - 1 .. Len(s)
          /\ 2 \in 1 .. Len(s) - (k + 1) + 2 /\ Len(s) - k \in 0 .. Len(s) - (k + 1) + 1
          /\ k + 1 + 2 - 1 = k + 2 /\ k + 1 + (Len(s) - k) - 1 = Len(s)
      BY <1>1, <1>4
    <3>3. SubSeq(SubSeq(s, k + 1, Len(s)), 2, Len(s) - k)
            = SubSeq(s, k + 1 + 2 - 1, k + 1 + (Len(s) - k) - 1)
      BY <3>2, SliceOfSlice
    <3>4. QED
      BY <1>2, <3>1, <3>2, <3>3
  <2>4. SubSeq(s, k + 2, Len(s)) \in Versions
    <3>1. k + 2 \in 1 .. Len(s) + 1 /\ Len(s) \in 0 .. Len(s)
      BY <1>1, <1>4
    <3>2. QED
      BY <3>1, SliceFacts
  <2> HIDE DEF t
  <2>5. BuildSuffix(t) <=> BuildAt(s, k)
    BY <1>4, <2>1, <2>2, <2>3, <2>4, BuildAgrees DEF BuildSuffix, BuildAt
  <2>6. QED
    BY <2>5 DEF t
<1>5. QED
  BY <1>3, <1>4

LEMMA SuffixAgrees ==
  ASSUME NEW s \in Versions, NEW e \in 0 .. Len(s)
  PROVE  Suffix(SubSeq(s, e + 1, Len(s))) <=> SuffixAt(s, e)
<1> DEFINE t == SubSeq(s, e + 1, Len(s))
<1>1. Len(s) \in Nat
  BY LenProperties DEF Versions
<1>2. BuildSuffix(t) <=> BuildAt(s, e)
  BY BuildSuffixAgrees
<1>3. CASE e = Len(s)
  BY <1>2, <1>3 DEF Suffix, SuffixAt, BuildAt
<1>4. CASE e # Len(s)
  <2>1. /\ e + 1 \in 1 .. Len(s) + 1 /\ Len(s) \in 0 .. Len(s)
        /\ Len(s) \in (e + 1) - 1 .. Len(s) /\ e + 1 <= Len(s)
    BY <1>1, <1>4
  <2>2. t \in Versions /\ Len(t) = Len(s) - e /\ t[1] = s[e + 1]
    <3>1. /\ t \in Versions
          /\ Len(t) = IF e + 1 <= Len(s) THEN Len(s) - (e + 1) + 1 ELSE 0
          /\ \A j \in 1 .. Len(t) : t[j] = s[e + 1 + j - 1]
      BY <2>1, SliceFacts
    <3> HIDE DEF t
    <3>2. Len(t) = Len(s) - e /\ 1 \in 1 .. Len(t) /\ e + 1 + 1 - 1 = e + 1
      BY <1>1, <2>1, <3>1
    <3>3. QED
      BY <3>1, <3>2
  <2>3. ASSUME NEW k \in 1 .. Len(t)
        PROVE  /\ e + k \in e + 1 .. Len(s)
               /\ Prerelease(Slice(t, 2, k)) <=> IsValidPrerelease(SubSeq(s, e + 2, e + k))
               /\ BuildSuffix(Slice(t, k + 1, Len(t))) <=> BuildAt(s, e + k)
    <3>1. k \in 1 .. Len(s) - e
      BY <2>2
    <3>2. e + k \in e + 1 .. Len(s) /\ e + k \in 0 .. Len(s) /\ e + 2 \in 1 .. Len(s) + 1
      BY <1>1, <2>1, <3>1
    <3>3. SubSeq(t, 2, k) = SubSeq(s, e + 2, e + k)
      <4>1. /\ 2 \in 1 .. Len(s) - (e + 1) + 2 /\ k \in 0 .. Len(s) - (e + 1) + 1
            /\ e + 1 + 2 - 1 = e + 2 /\ e + 1 + k - 1 = e + k
        BY <1>1, <2>1, <3>1
      <4>2. SubSeq(SubSeq(s, e + 1, Len(s)), 2, k) = SubSeq(s, e + 1 + 2 - 1, e + 1 + k - 1)
        BY <2>1, <4>1, SliceOfSlice
      <4>3. QED
        BY <4>1, <4>2
    <3>4. SubSeq(t, k + 1, Len(t)) = SubSeq(s, (e + k) + 1, Len(s))
      <4>1. /\ k + 1 \in 1 .. Len(s) - (e + 1) + 2 /\ Len(s) - e \in 0 .. Len(s) - (e + 1) + 1
            /\ e + 1 + (k + 1) - 1 = (e + k) + 1 /\ e + 1 + (Len(s) - e) - 1 = Len(s)
        BY <1>1, <2>1, <3>1
      <4>2. SubSeq(SubSeq(s, e + 1, Len(s)), k + 1, Len(s) - e)
              = SubSeq(s, e + 1 + (k + 1) - 1, e + 1 + (Len(s) - e) - 1)
        BY <2>1, <4>1, SliceOfSlice
      <4>3. QED
        BY <2>2, <4>1, <4>2
    <3>5. SubSeq(s, e + 2, e + k) \in Versions
      BY <3>2, SliceFacts
    <3> HIDE DEF t
    <3>6. Prerelease(Slice(t, 2, k)) <=> IsValidPrerelease(SubSeq(s, e + 2, e + k))
      BY <3>3, <3>5, PrereleaseAgrees DEF Slice
    <3>7. BuildSuffix(Slice(t, k + 1, Len(t))) <=> BuildAt(s, e + k)
      BY <3>2, <3>4, BuildSuffixAgrees DEF Slice
    <3>8. QED
      BY <3>2, <3>6, <3>7
  <2>4. \A j \in e + 1 .. Len(s) : j - e \in 1 .. Len(t) /\ e + (j - e) = j
    <3> HIDE DEF t
    <3>1. QED
      BY <1>1, <2>1, <2>2
  <2> HIDE DEF t
  <2>5. (\E k \in 1 .. Len(t) : Prerelease(Slice(t, 2, k)) /\ BuildSuffix(Slice(t, k + 1, Len(t))))
        <=> (\E k \in e + 1 .. Len(s) : IsValidPrerelease(SubSeq(s, e + 2, k)) /\ BuildAt(s, k))
    <3>1. ASSUME NEW k \in 1 .. Len(t), Prerelease(Slice(t, 2, k)),
                 BuildSuffix(Slice(t, k + 1, Len(t)))
          PROVE  \E j \in e + 1 .. Len(s) : IsValidPrerelease(SubSeq(s, e + 2, j)) /\ BuildAt(s, j)
      BY <2>3, <3>1
    <3>2. ASSUME NEW j \in e + 1 .. Len(s), IsValidPrerelease(SubSeq(s, e + 2, j)), BuildAt(s, j)
          PROVE  \E k \in 1 .. Len(t) : Prerelease(Slice(t, 2, k)) /\ BuildSuffix(Slice(t, k + 1, Len(t)))
      <4>1. j - e \in 1 .. Len(t) /\ e + (j - e) = j
        BY <2>4, <3>2
      <4>2. /\ Prerelease(Slice(t, 2, j - e)) <=> IsValidPrerelease(SubSeq(s, e + 2, e + (j - e)))
            /\ BuildSuffix(Slice(t, (j - e) + 1, Len(t))) <=> BuildAt(s, e + (j - e))
        BY <2>3, <4>1
      <4>3. QED
        BY <3>2, <4>1, <4>2
    <3>3. QED
      BY <3>1, <3>2
  <2>6. Suffix(t) <=> SuffixAt(s, e)
    BY <1>2, <2>2, <2>5 DEF Suffix, SuffixAt, t
  <2>7. QED
    BY <2>6 DEF t
<1>5. QED
  BY <1>3, <1>4

(* What is cut out of the beginning of a text.                              *)
LEMMA PrefixFacts ==
  ASSUME NEW s \in Versions, NEW h \in 1 .. Len(s) + 1
  PROVE  /\ SubSeq(s, 1, h - 1) \in Versions
         /\ Len(SubSeq(s, 1, h - 1)) = h - 1
         /\ \A k \in 1 .. h - 1 : SubSeq(s, 1, h - 1)[k] = s[k]
         /\ \A i \in 1 .. h, j \in 0 .. h - 1 :
              SubSeq(SubSeq(s, 1, h - 1), i, j) = SubSeq(s, i, j)
<1> DEFINE t == SubSeq(s, 1, h - 1)
<1>1. Len(s) \in Nat
  BY LenProperties DEF Versions
<1>2. 1 \in 1 .. Len(s) + 1 /\ h - 1 \in 0 .. Len(s) /\ h - 1 \in 1 - 1 .. Len(s)
  BY <1>1
<1>3. /\ t \in Versions
      /\ Len(t) = IF 1 <= h - 1 THEN (h - 1) - 1 + 1 ELSE 0
      /\ \A k \in 1 .. Len(t) : t[k] = s[1 + k - 1]
  BY <1>2, SliceFacts
<1>4. Len(t) = h - 1 /\ \A k \in 1 .. h - 1 : t[k] = s[k]
  <2> HIDE DEF t
  <2>1. Len(t) = h - 1 /\ \A k \in 1 .. h - 1 : 1 + k - 1 = k
    BY <1>1, <1>3
  <2>2. QED
    BY <1>3, <2>1
<1>5. ASSUME NEW i \in 1 .. h, NEW j \in 0 .. h - 1
      PROVE  SubSeq(t, i, j) = SubSeq(s, i, j)
  <2>1. /\ i \in 1 .. (h - 1) - 1 + 2 /\ j \in 0 .. (h - 1) - 1 + 1
        /\ 1 + i - 1 = i /\ 1 + j - 1 = j
    BY <1>1
  <2>2. SubSeq(SubSeq(s, 1, h - 1), i, j) = SubSeq(s, 1 + i - 1, 1 + j - 1)
    BY <1>2, <2>1, SliceOfSlice
  <2>3. QED
    BY <2>1, <2>2
<1>6. QED
  BY <1>3, <1>4, <1>5

LEMMA NumericSlice ==
  ASSUME NEW s \in Versions, NEW i \in 1 .. Len(s) + 1, NEW j \in 0 .. Len(s),
         Numeric(SubSeq(s, i, j))
  PROVE  i <= j /\ \A k \in i .. j : s[k] \in Digits
<1> DEFINE t == SubSeq(s, i, j)
<1>1. Len(s) \in Nat
  BY LenProperties DEF Versions
<1>2. /\ t \in Versions
      /\ Len(t) = IF i <= j THEN j - i + 1 ELSE 0
      /\ \A k \in 1 .. Len(t) : t[k] = s[i + k - 1]
  BY SliceFacts
<1>3. t # <<>> /\ \A k \in DOMAIN t : t[k] \in Digits
  BY DEF Numeric, AllDigits
<1> HIDE DEF t
<1>4. Len(t) # 0 /\ DOMAIN t = 1 .. Len(t)
  BY <1>2, <1>3, EmptySeq, LenProperties DEF Versions
<1>5. i <= j
  BY <1>2, <1>4
<1>6. ASSUME NEW k \in i .. j PROVE s[k] \in Digits
  <2>1. k - i + 1 \in 1 .. Len(t) /\ i + (k - i + 1) - 1 = k
    BY <1>1, <1>2, <1>5
  <2>2. t[k - i + 1] = s[k]
    BY <1>2, <2>1
  <2>3. QED
    BY <1>3, <1>4, <2>1, <2>2
<1>7. QED
  BY <1>5, <1>6

(* A reading: two dots, the end of the core and what must hold around them. *)
IsReading(s, d, e, f) ==
  /\ d \in 1 .. Len(s) /\ e \in 1 .. Len(s) /\ f \in 1 .. Len(s)
  /\ d < e /\ e < f /\ s[d] = "." /\ s[e] = "."
  /\ Numeric(SubSeq(s, 1, d - 1))
  /\ Numeric(SubSeq(s, d + 1, e - 1))
  /\ Numeric(SubSeq(s, e + 1, f))
  /\ SuffixAt(s, f)

ValuesOf(s, d, e, f) ==
  <<Value(SubSeq(s, 1, d - 1)), Value(SubSeq(s, d + 1, e - 1)), Value(SubSeq(s, e + 1, f))>>

LEMMA ReadingsByCuts ==
  ASSUME NEW s \in Versions
  PROVE  \A r : r \in Readings(s) <=>
           \E d, e, f : IsReading(s, d, e, f) /\ r = ValuesOf(s, d, e, f)
<1> DEFINE Dots == {i \in DOMAIN s : s[i] = "."}
           ok(c) == /\ c[1] < c[2] /\ c[2] < c[3]
                    /\ Numeric(Slice(s, 1, c[1] - 1))
                    /\ Numeric(Slice(s, c[1] + 1, c[2] - 1))
                    /\ Numeric(Slice(s, c[2] + 1, c[3]))
                    /\ Suffix(Slice(s, c[3] + 1, Len(s)))
           val(c) == <<Value(Slice(s, 1, c[1] - 1)), Value(Slice(s, c[1] + 1, c[2] - 1)),
                       Value(Slice(s, c[2] + 1, c[3]))>>
           Cuts == {x \in Dots \X Dots \X DOMAIN s : ok(x)}
<1>1. Len(s) \in Nat /\ DOMAIN s = 1 .. Len(s)
  BY LenProperties DEF Versions
<1>2. Readings(s) = {val(c) : c \in Cuts}
  BY DEF Readings
<1>3. \A d, e, f : <<d, e, f>> \in Cuts <=> IsReading(s, d, e, f)
  <2>1. TAKE d, e, f
  <2>2. <<d, e, f>>[1] = d /\ <<d, e, f>>[2] = e /\ <<d, e, f>>[3] = f
    OBVIOUS
  <2>3. <<d, e, f>> \in Dots \X Dots \X DOMAIN s <=>
          /\ d \in 1 .. Len(s) /\ s[d] = "." /\ e \in 1 .. Len(s) /\ s[e] = "."
          /\ f \in 1 .. Len(s)
    BY <1>1
  <2>4. f \in 1 .. Len(s) => (Suffix(SubSeq(s, f + 1, Len(s))) <=> SuffixAt(s, f))
    <3>1. f \in 1 .. Len(s) => f \in 0 .. Len(s)
      BY <1>1
    <3>2. QED
      BY <3>1, SuffixAgrees
  <2>5. <<d, e, f>> \in Cuts <=>
          /\ <<d, e, f>> \in Dots \X Dots \X DOMAIN s
          /\ d < e /\ e < f
          /\ Numeric(SubSeq(s, 1, d - 1)) /\ Numeric(SubSeq(s, d + 1, e - 1))
          /\ Numeric(SubSeq(s, e + 1, f)) /\ Suffix(SubSeq(s, f + 1, Len(s)))
    BY <2>2 DEF Slice
  <2> HIDE DEF Cuts, Dots
  <2>6. QED
    BY <2>3, <2>4, <2>5 DEF IsReading
<1>4. \A d, e, f : val(<<d, e, f>>) = ValuesOf(s, d, e, f)
  BY DEF ValuesOf, Slice
<1>5. \A c \in Cuts : c = <<c[1], c[2], c[3]>>
  <2>1. \A c \in Dots \X Dots \X DOMAIN s : c = <<c[1], c[2], c[3]>>
    OBVIOUS
  <2>2. QED
    BY <2>1
<1> HIDE DEF Cuts, val
<1>6. ASSUME NEW r, r \in Readings(s)
      PROVE  \E d, e, f : IsReading(s, d, e, f) /\ r = ValuesOf(s, d, e, f)
  <2>1. PICK c \in Cuts : r = val(c)
    BY <1>2, <1>6
  <2>2. c = <<c[1], c[2], c[3]>>
    BY <1>5
  <2>3. r = ValuesOf(s, c[1], c[2], c[3])
    BY <1>4, <2>1, <2>2
  <2>4. IsReading(s, c[1], c[2], c[3])
    BY <1>3, <2>1, <2>2
  <2>5. QED
    BY <2>3, <2>4
<1>7. ASSUME NEW d, NEW e, NEW f, IsReading(s, d, e, f)
      PROVE  ValuesOf(s, d, e, f) \in Readings(s)
  <2>1. <<d, e, f>> \in Cuts
    BY <1>3, <1>7
  <2>2. QED
    BY <1>2, <1>4, <2>1
<1>8. QED
  BY <1>6, <1>7

(* The code's cuts make the only reading there is.                          *)
LEMMA ReadingIsTheCut ==
  ASSUME NEW s \in Versions, NEW p, NEW h, CutsAt(s, p, h), NEW d, NEW e, NEW f,
         IsReading(s, d, e, f)
  PROVE  /\ f = h - 1 /\ SuffixesOk(s, p, h)
         /\ DotsAre(SubSeq(s, 1, h - 1), d, e) /\ AreNumbers(SubSeq(s, 1, h - 1), d, e)
         /\ Values3(SubSeq(s, 1, h - 1), d, e) = ValuesOf(s, d, e, f)
<1>1. Len(s) \in Nat
  BY LenProperties DEF Versions
<1>2. /\ d \in 1 .. Len(s) /\ e \in 1 .. Len(s) /\ f \in 1 .. Len(s)
      /\ d < e /\ e < f /\ s[d] = "." /\ s[e] = "."
  BY DEF IsReading
<1>3. /\ 1 <= d - 1 /\ \A k \in 1 .. d - 1 : s[k] \in Digits
      /\ d + 1 <= e - 1 /\ \A k \in d + 1 .. e - 1 : s[k] \in Digits
      /\ e + 1 <= f /\ \A k \in e + 1 .. f : s[k] \in Digits
  <2>1. /\ 1 \in 1 .. Len(s) + 1 /\ d - 1 \in 0 .. Len(s)
        /\ d + 1 \in 1 .. Len(s) + 1 /\ e - 1 \in 0 .. Len(s)
        /\ e + 1 \in 1 .. Len(s) + 1 /\ f \in 0 .. Len(s)
    BY <1>1, <1>2
  <2>2. QED
    BY <2>1, NumericSlice DEF IsReading
<1>4. \A k \in 1 .. f : /\ s[k] # "+" /\ s[k] # "-"
                        /\ s[k] = "." <=> k = d \/ k = e
  <2>1. TAKE k \in 1 .. f
  <2>2. ~("." \in Digits) /\ ~("+" \in Digits) /\ ~("-" \in Digits)
    BY VersionAssumption
  <2>3. \/ k \in 1 .. d - 1 \/ k = d \/ k \in d + 1 .. e - 1 \/ k = e \/ k \in e + 1 .. f
    BY <1>1, <1>2
  <2>4. CASE s[k] \in Digits
    <3>1. k # d /\ k # e
      BY <1>2, <2>2, <2>4
    <3>2. QED
      BY <2>2, <2>4, <3>1
  <2>5. CASE k = d \/ k = e
    BY <1>2, <2>5
  <2>6. QED
    BY <1>3, <2>3, <2>4, <2>5
<1>5. /\ p \in 1 .. Len(s) + 1 /\ h \in 1 .. p
      /\ \A k \in 1 .. p - 1 : s[k] # "+"
      /\ p <= Len(s) => s[p] = "+"
      /\ \A k \in 1 .. h - 1 : s[k] # "-"
      /\ h < p => s[h] = "-"
  BY DEF CutsAt, IsCutAt
<1>6. p > f /\ h > f
  <2>1. p > f
    <3>1. p <= f => p \in 1 .. f /\ p <= Len(s)
      BY <1>1, <1>2, <1>5
    <3>2. ~(p <= f)
      BY <1>4, <1>5, <3>1
    <3>3. QED
      BY <1>2, <1>5, <3>2
  <2>2. h <= f => h \in 1 .. f /\ h < p
    BY <1>2, <1>5, <2>1
  <2>3. ~(h <= f)
    BY <1>4, <1>5, <2>2
  <2>4. QED
    BY <1>2, <1>5, <2>1, <2>3
<1>7. f = h - 1 /\ SuffixesOk(s, p, h)
  <2>1. CASE f = Len(s)
    <3>1. p = Len(s) + 1 /\ h = p
      BY <1>1, <1>5, <1>6, <2>1
    <3>2. QED
      BY <1>1, <2>1, <3>1 DEF SuffixesOk
  <2>2. CASE f # Len(s) /\ s[f + 1] = "+" /\ IsValidBuildMetadata(SubSeq(s, f + 2, Len(s)))
    <3>1. ~(p > f + 1)
      <4>1. p > f + 1 => f + 1 \in 1 .. p - 1
        BY <1>2, <1>5
      <4>2. QED
        BY <1>5, <2>2, <4>1
    <3>2. p = f + 1 /\ h = p /\ p + 1 = f + 2 /\ f = h - 1 /\ ~(h < p)
      BY <1>2, <1>5, <1>6, <3>1
    <3>3. QED
      BY <2>2, <3>2 DEF SuffixesOk
  <2>3. CASE /\ s[f + 1] = "-"
             /\ \E k \in f + 1 .. Len(s) : IsValidPrerelease(SubSeq(s, f + 2, k)) /\ BuildAt(s, k)
    <3>1. PICK k \in f + 1 .. Len(s) : IsValidPrerelease(SubSeq(s, f + 2, k)) /\ BuildAt(s, k)
      BY <2>3
    <3>2. f + 2 \in 1 .. Len(s) + 1 /\ k \in 0 .. Len(s) /\ k \in Nat
      BY <1>1, <1>2
    <3>3. \A m \in f + 2 .. k : s[m] # "+"
      <4> DEFINE t == SubSeq(s, f + 2, k)
      <4>1. /\ t \in Versions
            /\ Len(t) = IF f + 2 <= k THEN k - (f + 2) + 1 ELSE 0
            /\ \A m \in 1 .. Len(t) : t[m] = s[f + 2 + m - 1]
        BY <3>2, SliceFacts
      <4> HIDE DEF t
      <4>2. \A m \in 1 .. Len(t) : t[m] # "+"
        BY <3>1, <4>1, PrereleaseAgrees DEF t
      <4>3. TAKE m \in f + 2 .. k
      <4>4. m - (f + 2) + 1 \in 1 .. Len(t) /\ f + 2 + (m - (f + 2) + 1) - 1 = m
        BY <1>1, <1>2, <4>1
      <4>5. t[m - (f + 2) + 1] = s[m]
        BY <4>1, <4>4
      <4>6. QED
        BY <4>2, <4>4, <4>5
    <3>4. ~(p <= k)
      <4>1. p <= k => p = f + 1 \/ p \in f + 2 .. k
        BY <1>2, <1>5, <1>6
      <4>2. p <= k => p <= Len(s) /\ s[p] = "+"
        BY <1>1, <1>5
      <4>3. QED
        BY <2>3, <3>3, <4>1, <4>2
    <3>5. p = k + 1
      <4>1. CASE k = Len(s)
        BY <1>1, <1>5, <3>4, <4>1
      <4>2. CASE k # Len(s)
        <5>1. s[k + 1] = "+"
          BY <3>1, <4>2 DEF BuildAt
        <5>2. p > k + 1 => k + 1 \in 1 .. p - 1
          BY <1>5, <3>2
        <5>3. ~(p > k + 1)
          BY <1>5, <5>1, <5>2
        <5>4. QED
          BY <1>5, <3>2, <3>4, <5>3
      <4>3. QED
        BY <4>1, <4>2
    <3>6. h = f + 1 /\ h < p
      <4>1. h > f + 1 => f + 1 \in 1 .. h - 1
        BY <1>2, <1>5
      <4>2. ~(h > f + 1)
        BY <1>5, <2>3, <4>1
      <4>3. h = f + 1
        BY <1>2, <1>5, <1>6, <4>2
      <4>4. QED
        BY <1>2, <3>2, <3>5, <4>3
    <3>7. h + 1 = f + 2 /\ p - 1 = k /\ p + 1 = k + 2 /\ f = h - 1
      BY <1>2, <3>2, <3>5, <3>6
    <3>8. p <= Len(s) => IsValidBuildMetadata(SubSeq(s, k + 2, Len(s)))
      <4>1. p <= Len(s) => k # Len(s)
        BY <1>1, <3>2, <3>5
      <4>2. QED
        BY <3>1, <4>1 DEF BuildAt
    <3>9. QED
      BY <3>1, <3>7, <3>8 DEF SuffixesOk
  <2>4. SuffixAt(s, f)
    BY DEF IsReading
  <2>5. QED
    BY <2>1, <2>2, <2>3, <2>4 DEF SuffixAt, BuildAt
<1> DEFINE t == SubSeq(s, 1, h - 1)
<1>8. Len(t) = f /\ \A k \in 1 .. f : t[k] = s[k]
  BY <1>5, <1>7, PrefixFacts
<1>9. /\ SubSeq(t, 1, d - 1) = SubSeq(s, 1, d - 1)
      /\ SubSeq(t, d + 1, e - 1) = SubSeq(s, d + 1, e - 1)
      /\ SubSeq(t, e + 1, f) = SubSeq(s, e + 1, f)
  <2>1. /\ d - 1 \in 0 .. h - 1 /\ e - 1 \in 0 .. h - 1 /\ f \in 0 .. h - 1
        /\ 1 \in 1 .. h /\ d + 1 \in 1 .. h /\ e + 1 \in 1 .. h /\ h \in 1 .. Len(s) + 1
    BY <1>1, <1>2, <1>5, <1>7
  <2>2. QED
    BY <2>1, PrefixFacts
<1>10. DotsAre(t, d, e)
  <2> HIDE DEF t
  <2>1. d \in 1 .. f /\ e \in 1 .. f
    BY <1>2
  <2>2. QED
    BY <1>2, <1>4, <1>8, <2>1 DEF DotsAre
<1>11. Parts(t, d, e) = <<SubSeq(s, 1, d - 1), SubSeq(s, d + 1, e - 1), SubSeq(s, e + 1, f)>>
  <2> HIDE DEF t
  <2>1. QED
    BY <1>8, <1>9 DEF Parts
<1>12. AreNumbers(t, d, e) /\ Values3(t, d, e) = ValuesOf(s, d, e, f)
  <2> HIDE DEF t
  <2>1. QED
    BY <1>11 DEF AreNumbers, Values3, ValuesOf, IsReading
<1>13. QED
  BY <1>7, <1>10, <1>12

LEMMA CutIsAReading ==
  ASSUME NEW s \in Versions, NEW p, NEW h, CutsAt(s, p, h), SuffixesOk(s, p, h),
         NEW d, NEW e, DotsAre(SubSeq(s, 1, h - 1), d, e),
         AreNumbers(SubSeq(s, 1, h - 1), d, e)
  PROVE  IsReading(s, d, e, h - 1)
<1> DEFINE t == SubSeq(s, 1, h - 1)
<1>1. Len(s) \in Nat
  BY LenProperties DEF Versions
<1>2. /\ p \in 1 .. Len(s) + 1 /\ h \in 1 .. p
      /\ p <= Len(s) => s[p] = "+"
      /\ h < p => s[h] = "-"
  BY DEF CutsAt, IsCutAt
<1>3. h \in 1 .. Len(s) + 1
  BY <1>1, <1>2
<1>4. t \in Versions /\ Len(t) = h - 1 /\ \A k \in 1 .. h - 1 : t[k] = s[k]
  BY <1>3, PrefixFacts
<1>5. d \in 1 .. h - 1 /\ e \in 1 .. h - 1 /\ d < e /\ s[d] = "." /\ s[e] = "."
  <2> HIDE DEF t
  <2>1. DotsAre(t, d, e)
    BY DEF t
  <2>2. QED
    BY <1>4, <2>1 DEF DotsAre
<1>6. /\ SubSeq(t, 1, d - 1) = SubSeq(s, 1, d - 1)
      /\ SubSeq(t, d + 1, e - 1) = SubSeq(s, d + 1, e - 1)
      /\ SubSeq(t, e + 1, h - 1) = SubSeq(s, e + 1, h - 1)
  <2>1. /\ d - 1 \in 0 .. h - 1 /\ e - 1 \in 0 .. h - 1 /\ h - 1 \in 0 .. h - 1
        /\ 1 \in 1 .. h /\ d + 1 \in 1 .. h /\ e + 1 \in 1 .. h
    BY <1>1, <1>3, <1>5
  <2>2. QED
    BY <1>3, <2>1, PrefixFacts
<1>7. /\ Numeric(SubSeq(s, 1, d - 1))
      /\ Numeric(SubSeq(s, d + 1, e - 1))
      /\ Numeric(SubSeq(s, e + 1, h - 1))
  <2>1. AreNumbers(t, d, e)
    OBVIOUS
  <2> HIDE DEF t
  <2>2. QED
    BY <1>4, <1>6, <2>1 DEF AreNumbers, Parts
<1>8. e < h - 1
  <2>1. e + 1 \in 1 .. Len(s) + 1 /\ h - 1 \in 0 .. Len(s)
    BY <1>1, <1>3, <1>5
  <2>2. e + 1 <= h - 1
    BY <1>7, <2>1, NumericSlice
  <2>3. QED
    BY <1>3, <1>5, <2>2
<1>9. BuildAt(s, p - 1)
  <2>1. (p - 1) + 1 = p /\ (p - 1) + 2 = p + 1 /\ (p - 1 = Len(s) \/ p <= Len(s))
    BY <1>1, <1>2
  <2>2. QED
    BY <1>2, <2>1 DEF BuildAt, SuffixesOk
<1>10. SuffixAt(s, h - 1)
  <2>1. CASE h = p
    BY <1>9, <2>1 DEF SuffixAt
  <2>2. CASE h # p
    <3>1. h < p /\ (h - 1) + 1 = h /\ (h - 1) + 2 = h + 1 /\ p - 1 \in h .. Len(s)
      BY <1>1, <1>2, <2>2
    <3>2. QED
      BY <1>2, <1>9, <3>1 DEF SuffixAt, SuffixesOk
  <2>3. QED
    BY <2>1, <2>2
<1>11. d \in 1 .. Len(s) /\ e \in 1 .. Len(s) /\ h - 1 \in 1 .. Len(s)
  BY <1>1, <1>3, <1>5
<1>12. QED
  BY <1>5, <1>7, <1>8, <1>10, <1>11 DEF IsReading

(* No text has two readings, and the parser finds the one there is unless a *)
(* component fits no u64.                                                   *)
LEMMA ParserReads ==
  ASSUME NEW s \in Versions
  PROVE  /\ Cardinality(Readings(s)) <= 1
         /\ Fitting(s) = {} => ParseNirVersion(s) = Malformed
         /\ Fitting(s) # {} =>
              /\ Fitting(s) = {ParseNirVersion(s)}
              /\ ParseNirVersion(s) # Malformed
              /\ ParseNirVersion(s) \in Nat \X Nat \X Nat
<1>1. Len(s) \in Nat
  BY LenProperties DEF Versions
<1>2. PICK p, h :
        /\ CutsAt(s, p, h)
        /\ ParseNirVersion(s) =
             IF SuffixesOk(s, p, h) THEN ParseCore(SubSeq(s, 1, h - 1)) ELSE Malformed
  BY ParserCuts
<1> DEFINE t == SubSeq(s, 1, h - 1)
<1>3. h \in 1 .. Len(s) + 1
  <2>1. p \in 1 .. Len(s) + 1 /\ h \in 1 .. p
    BY <1>2 DEF CutsAt, IsCutAt
  <2>2. QED
    BY <1>1, <2>1
<1>4. t \in Versions
  BY <1>3, PrefixFacts
<1>5. \A d, e, f : IsReading(s, d, e, f) =>
        /\ f = h - 1 /\ SuffixesOk(s, p, h) /\ DotsAre(t, d, e) /\ AreNumbers(t, d, e)
        /\ Values3(t, d, e) = ValuesOf(s, d, e, f)
  BY <1>2, ReadingIsTheCut
<1>6. SuffixesOk(s, p, h) => \A d, e : DotsAre(t, d, e) /\ AreNumbers(t, d, e) =>
        IsReading(s, d, e, h - 1)
  BY <1>2, CutIsAReading
<1>7. \A r : r \in Readings(s) <=>
        \E d, e, f : IsReading(s, d, e, f) /\ r = ValuesOf(s, d, e, f)
  BY ReadingsByCuts
<1>8. ParseNirVersion(s) = IF SuffixesOk(s, p, h) THEN ParseCore(t) ELSE Malformed
  BY <1>2
<1>9. /\ ParseCore(t) # Malformed => \E d, e : DotsAre(t, d, e) /\ AreNumbers(t, d, e)
      /\ \A d, e : DotsAre(t, d, e) /\ AreNumbers(t, d, e) =>
              /\ Values3(t, d, e) \in Nat \X Nat \X Nat
              /\ IF \A i \in 1 .. 3 : Values3(t, d, e)[i] <= U64Max
                 THEN ParseCore(t) = Values3(t, d, e) /\ ParseCore(t) # Malformed
                 ELSE ParseCore(t) = Malformed
  BY <1>4, CoreAgrees
<1> HIDE DEF t
<1>10. CASE Readings(s) = {}
  <2>1. Fitting(s) = {} /\ Cardinality(Readings(s)) <= 1
    BY <1>10, FS_EmptySet DEF Fitting
  <2>2. ParseNirVersion(s) = Malformed
    <3>1. SUFFICES ASSUME SuffixesOk(s, p, h), ParseCore(t) # Malformed PROVE FALSE
      BY <1>8
    <3>2. PICK d, e : DotsAre(t, d, e) /\ AreNumbers(t, d, e)
      BY <1>9, <3>1
    <3>3. IsReading(s, d, e, h - 1)
      BY <1>6, <3>1, <3>2
    <3>4. QED
      BY <1>7, <1>10, <3>3
  <2>3. QED
    BY <2>1, <2>2
<1>11. CASE Readings(s) # {}
  <2>1. PICK r : r \in Readings(s)
    BY <1>11
  <2>2. PICK d, e, f : IsReading(s, d, e, f) /\ r = ValuesOf(s, d, e, f)
    BY <1>7, <2>1
  <2>3. SuffixesOk(s, p, h) /\ DotsAre(t, d, e) /\ AreNumbers(t, d, e) /\ r = Values3(t, d, e)
    BY <1>5, <2>2
  <2>4. ASSUME NEW x \in Readings(s) PROVE x = r
    <3>1. PICK a, b, c : IsReading(s, a, b, c) /\ x = ValuesOf(s, a, b, c)
      BY <1>7
    <3>2. DotsAre(t, a, b) /\ x = Values3(t, a, b)
      BY <1>5, <3>1
    <3>3. a = d /\ b = e
      <4>1. Len(t) \in Nat
        BY <1>4, LenProperties DEF Versions
      <4>2. (d = a \/ d = b) /\ (e = a \/ e = b) /\ d < e /\ a < b
        BY <2>3, <3>2 DEF DotsAre
      <4>3. a \in Nat /\ b \in Nat /\ d \in Nat /\ e \in Nat
        BY <2>3, <3>2, <4>1 DEF DotsAre
      <4>4. QED
        BY <4>2, <4>3
    <3>4. QED
      BY <2>3, <3>2, <3>3
  <2>5. Readings(s) = {r}
    BY <2>1, <2>4
  <2>6. Cardinality(Readings(s)) <= 1
    BY <2>5, FS_Singleton
  <2>7. ParseNirVersion(s) = ParseCore(t)
    BY <1>8, <2>3
  <2>8. r \in Nat \X Nat \X Nat
    BY <1>9, <2>3
  <2>9. CASE \A i \in 1 .. 3 : r[i] <= U64Max
    <3>1. Fitting(s) = {r}
      BY <2>5, <2>9 DEF Fitting
    <3>2. ParseNirVersion(s) = r /\ ParseNirVersion(s) # Malformed
      BY <1>9, <2>3, <2>7, <2>9
    <3>3. QED
      BY <2>6, <2>8, <3>1, <3>2
  <2>10. CASE ~(\A i \in 1 .. 3 : r[i] <= U64Max)
    <3>1. Fitting(s) = {}
      BY <2>5, <2>10 DEF Fitting
    <3>2. ParseNirVersion(s) = Malformed
      BY <1>9, <2>3, <2>7, <2>10
    <3>3. QED
      BY <2>6, <3>1, <3>2
  <2>11. QED
    BY <2>9, <2>10
<1>12. QED
  BY <1>10, <1>11

(***************************************************************************)
(* The canonical list of majors.                                           *)
(***************************************************************************)

SortedBy(f, n, p) == \A i, j \in 1 .. n : i < j => f[p[i]] <= f[p[j]]

OneToOne(p, n) == \A i, j \in 1 .. n : p[i] = p[j] => i = j

(* Among finitely many numbers there is a greatest one.                     *)
LEMMA GreatestExists ==
  \A n \in Nat : \A f \in [1 .. n + 1 -> Nat] :
    \E m \in 1 .. n + 1 : \A i \in 1 .. n + 1 : f[i] <= f[m]
<1> DEFINE S == {n \in Nat : \A f \in [1 .. n + 1 -> Nat] :
                   \E m \in 1 .. n + 1 : \A i \in 1 .. n + 1 : f[i] <= f[m]}
<1>1. 0 \in S
  <2>1. \A f \in [1 .. 0 + 1 -> Nat] : 1 \in 1 .. 0 + 1 /\ \A i \in 1 .. 0 + 1 : f[i] <= f[1]
    OBVIOUS
  <2>2. QED
    BY <2>1
<1>2. ASSUME NEW n \in Nat, n \in S PROVE n + 1 \in S
  <2>1. SUFFICES ASSUME NEW f \in [1 .. (n + 1) + 1 -> Nat]
                 PROVE  \E m \in 1 .. (n + 1) + 1 : \A i \in 1 .. (n + 1) + 1 : f[i] <= f[m]
    <3>1. n + 1 \in Nat
      OBVIOUS
    <3>2. QED
      BY <3>1, Zenon
  <2> DEFINE g == [i \in 1 .. n + 1 |-> f[i]]
  <2>2. g \in [1 .. n + 1 -> Nat]
    OBVIOUS
  <2>3. PICK m \in 1 .. n + 1 : \A i \in 1 .. n + 1 : g[i] <= g[m]
    BY <1>2, <2>2
  <2>4. \A i \in 1 .. n + 1 : f[i] <= f[m]
    BY <2>3
  <2>5. /\ m \in 1 .. (n + 1) + 1 /\ (n + 1) + 1 \in 1 .. (n + 1) + 1
        /\ f[m] \in Nat /\ f[(n + 1) + 1] \in Nat
        /\ \A i \in 1 .. (n + 1) + 1 : f[i] \in Nat /\ (i \in 1 .. n + 1 \/ i = (n + 1) + 1)
    OBVIOUS
  <2>6. CASE f[m] <= f[(n + 1) + 1]
    <3>1. \A i \in 1 .. (n + 1) + 1 : f[i] <= f[(n + 1) + 1]
      BY <2>4, <2>5, <2>6
    <3>2. QED
      BY <2>5, <3>1
  <2>7. CASE ~(f[m] <= f[(n + 1) + 1])
    <3>1. \A i \in 1 .. (n + 1) + 1 : f[i] <= f[m]
      BY <2>4, <2>5, <2>7
    <3>2. QED
      BY <2>5, <3>1
  <2>8. QED
    BY <2>6, <2>7
<1>3. Nat \subseteq S
  <2> HIDE DEF S
  <2>1. QED
    BY <1>1, <1>2, SetInduction
<1>4. QED
  BY <1>3

(* Any numbers can be sorted: the greatest goes last, where the last one    *)
(* takes its place.                                                         *)
LEMMA SortingExists ==
  \A n \in Nat : \A f \in [1 .. n -> Nat] :
    \E p \in [1 .. n -> 1 .. n] : OneToOne(p, n) /\ SortedBy(f, n, p)
    /\ \A k \in 1 .. n : \E i \in 1 .. n : p[i] = k
<1> DEFINE Onto(p, n) == \A k \in 1 .. n : \E i \in 1 .. n : p[i] = k
           Sorts(f, n, p) == OneToOne(p, n) /\ SortedBy(f, n, p) /\ Onto(p, n)
           S == {n \in Nat : \A f \in [1 .. n -> Nat] :
                   \E p \in [1 .. n -> 1 .. n] : Sorts(f, n, p)}
<1>1. 0 \in S
  <2>1. \A f \in [1 .. 0 -> Nat] : f \in [1 .. 0 -> 1 .. 0] /\ Sorts(f, 0, f)
    BY DEF OneToOne, SortedBy
  <2>2. QED
    BY <2>1
<1>2. ASSUME NEW n \in Nat, n \in S PROVE n + 1 \in S
  <2>1. SUFFICES ASSUME NEW f \in [1 .. n + 1 -> Nat]
                 PROVE  \E p \in [1 .. n + 1 -> 1 .. n + 1] : Sorts(f, n + 1, p)
    <3>1. n + 1 \in Nat
      OBVIOUS
    <3> HIDE DEF Sorts
    <3>2. QED
      BY <3>1, Zenon
  <2>2. PICK m \in 1 .. n + 1 : \A i \in 1 .. n + 1 : f[i] <= f[m]
    BY GreatestExists
  <2> DEFINE sw == [i \in 1 .. n |-> IF i = m THEN n + 1 ELSE i]
             g == [i \in 1 .. n |-> f[sw[i]]]
  <2>3. \A i \in 1 .. n : sw[i] \in 1 .. n + 1 /\ sw[i] # m
    OBVIOUS
  <2>4. \A i, j \in 1 .. n : sw[i] = sw[j] => i = j
    OBVIOUS
  <2>5. \A k \in 1 .. n + 1 : k # m => \E i \in 1 .. n : sw[i] = k
    <3>1. TAKE k \in 1 .. n + 1
    <3>2. HAVE k # m
    <3>3. CASE k = n + 1
      <4>1. m \in 1 .. n /\ sw[m] = k
        BY <3>2, <3>3
      <4>2. QED
        BY <4>1
    <3>4. CASE k # n + 1
      <4>1. k \in 1 .. n /\ sw[k] = k
        BY <3>2, <3>4
      <4>2. QED
        BY <4>1
    <3>5. QED
      BY <3>3, <3>4
  <2>6. g \in [1 .. n -> Nat]
    BY <2>3
  <2> HIDE DEF sw
  <2>7. PICK q \in [1 .. n -> 1 .. n] : Sorts(g, n, q)
    <3> HIDE DEF Sorts, g
    <3>1. QED
      BY <1>2, <2>6
  <2> DEFINE p == [i \in 1 .. n + 1 |-> IF i = n + 1 THEN m ELSE sw[q[i]]]
  <2>8. \A i \in 1 .. n : q[i] \in 1 .. n /\ p[i] = sw[q[i]]
    <3>1. TAKE i \in 1 .. n
    <3>2. i \in 1 .. n + 1 /\ i # n + 1
      OBVIOUS
    <3>3. q[i] \in 1 .. n
      OBVIOUS
    <3>4. p[i] = sw[q[i]]
      BY <3>2, Zenon
    <3>5. QED
      BY <3>3, <3>4
  <2>9. p[n + 1] = m
    OBVIOUS
  <2>10. \A i \in 1 .. n + 1 : i \in 1 .. n \/ i = n + 1
    OBVIOUS
  <2>11. p \in [1 .. n + 1 -> 1 .. n + 1]
    <3>1. \A i \in 1 .. n + 1 : p[i] \in 1 .. n + 1
      <4> HIDE DEF p
      <4>1. QED
        BY <2>3, <2>8, <2>9, <2>10
    <3>2. QED
      BY <3>1
  <2> HIDE DEF p
  <2>12. OneToOne(p, n + 1)
    <3>1. SUFFICES ASSUME NEW i \in 1 .. n + 1, NEW j \in 1 .. n + 1, p[i] = p[j]
                   PROVE  i = j
      BY DEF OneToOne
    <3>2. CASE i \in 1 .. n /\ j \in 1 .. n
      <4>1. q[i] \in 1 .. n /\ q[j] \in 1 .. n /\ sw[q[i]] = sw[q[j]]
        BY <2>8, <3>1, <3>2
      <4>2. q[i] = q[j]
        BY <2>4, <4>1
      <4>3. OneToOne(q, n)
        BY <2>7
      <4>4. QED
        BY <3>2, <4>2, <4>3 DEF OneToOne
    <3>3. CASE i = n + 1 /\ j \in 1 .. n
      BY <2>3, <2>8, <2>9, <3>1, <3>3
    <3>4. CASE j = n + 1 /\ i \in 1 .. n
      BY <2>3, <2>8, <2>9, <3>1, <3>4
    <3>5. QED
      BY <2>10, <3>2, <3>3, <3>4
  <2>13. SortedBy(f, n + 1, p)
    <3>1. SUFFICES ASSUME NEW i \in 1 .. n + 1, NEW j \in 1 .. n + 1, i < j
                   PROVE  f[p[i]] <= f[p[j]]
      BY DEF SortedBy
    <3>2. CASE j = n + 1
      BY <2>2, <2>9, <2>11, <3>2
    <3>3. CASE j # n + 1
      <4>1. i \in 1 .. n /\ j \in 1 .. n
        BY <3>1, <3>3
      <4>2. g[q[i]] <= g[q[j]]
        <5> HIDE DEF g
        <5>1. QED
          BY <2>7, <3>1, <4>1 DEF SortedBy
      <4>3. g[q[i]] = f[p[i]] /\ g[q[j]] = f[p[j]]
        BY <2>8, <4>1
      <4>4. QED
        BY <4>2, <4>3
    <3>4. QED
      BY <3>2, <3>3
  <2>14. Onto(p, n + 1)
    <3>1. SUFFICES ASSUME NEW k \in 1 .. n + 1 PROVE \E i \in 1 .. n + 1 : p[i] = k
      OBVIOUS
    <3>2. CASE k = m
      BY <2>9, <3>2
    <3>3. CASE k # m
      <4>1. PICK a \in 1 .. n : sw[a] = k
        BY <2>5, <3>3
      <4>2. PICK i \in 1 .. n : q[i] = a
        BY <2>7
      <4>3. p[i] = k
        <5>1. p[i] = sw[q[i]]
          BY <2>8
        <5>2. QED
          BY <4>1, <4>2, <5>1
      <4>4. i \in 1 .. n + 1
        OBVIOUS
      <4>5. QED
        BY <4>3, <4>4
    <3>4. QED
      BY <3>2, <3>3
  <2>15. QED
    BY <2>11, <2>12, <2>13, <2>14
<1>3. Nat \subseteq S
  <2> HIDE DEF S
  <2>1. QED
    BY <1>1, <1>2, SetInduction
<1>4. QED
  BY <1>3

Ascending(s) == \A i, j \in 1 .. Len(s) : i < j => s[i] <= s[j]

StrictlyAscending(s) == \A i, j \in 1 .. Len(s) : i < j => s[i] < s[j]

LEMMA SortedAscends ==
  ASSUME NEW B \in SUBSET Nat, NEW s \in Seq(B)
  PROVE  Sorted(s) \in Seq(B) /\ ToSet(Sorted(s)) = ToSet(s) /\ Ascending(Sorted(s))
<1> DEFINE n == Len(s)
           good(p) == \A i, j \in DOMAIN s : i < j => s[p[i]] <= s[p[j]]
           order == CHOOSE p \in Bijection(DOMAIN s, DOMAIN s) : good(p)
<1>1. n \in Nat /\ DOMAIN s = 1 .. n /\ s \in [1 .. n -> B] /\ s \in [1 .. n -> Nat]
  BY LenProperties
<1> HIDE DEF n
<1>2. PICK p \in [1 .. n -> 1 .. n] :
        /\ OneToOne(p, n) /\ SortedBy(s, n, p) /\ \A k \in 1 .. n : \E i \in 1 .. n : p[i] = k
  BY <1>1, SortingExists
<1>3. p \in Bijection(DOMAIN s, DOMAIN s) /\ good(p)
  <2>1. good(p)
    BY <1>1, <1>2 DEF SortedBy
  <2>2. QED
    BY <1>1, <1>2, <2>1 DEF Bijection, Injection, Surjection, IsInjective, OneToOne
<1>4. order \in Bijection(DOMAIN s, DOMAIN s) /\ good(order)
  <2> HIDE DEF good
  <2>1. QED
    BY <1>3
<1>5. Sorted(s) = [i \in 1 .. n |-> s[order[i]]]
  BY <1>1 DEF Sorted
<1> HIDE DEF order
<1>6. order \in [1 .. n -> 1 .. n] /\ \A k \in 1 .. n : \E i \in 1 .. n : order[i] = k
  BY <1>1, <1>4 DEF Bijection, Injection, Surjection
<1>7. \A i \in 1 .. n : order[i] \in 1 .. n /\ s[order[i]] \in B
  BY <1>1, <1>6
<1>8. Sorted(s) \in [1 .. n -> B]
  BY <1>5, <1>7
<1>9. Sorted(s) \in Seq(B) /\ Len(Sorted(s)) = n /\ DOMAIN Sorted(s) = 1 .. n
  BY <1>1, <1>8
<1>10. \A i \in 1 .. n : Sorted(s)[i] = s[order[i]]
  BY <1>5
<1>11. Ascending(Sorted(s))
  BY <1>1, <1>4, <1>9, <1>10 DEF Ascending
<1>12. ToSet(Sorted(s)) = ToSet(s)
  <2>1. ASSUME NEW x \in ToSet(Sorted(s)) PROVE x \in ToSet(s)
    <3>1. PICK i \in 1 .. n : Sorted(s)[i] = x
      BY <1>9 DEF ToSet
    <3>2. order[i] \in 1 .. n /\ s[order[i]] = x
      BY <1>7, <1>10, <3>1
    <3>3. QED
      BY <1>1, <3>2 DEF ToSet
  <2>2. ASSUME NEW x \in ToSet(s) PROVE x \in ToSet(Sorted(s))
    <3>1. PICK k \in 1 .. n : s[k] = x
      BY <1>1 DEF ToSet
    <3>2. PICK i \in 1 .. n : order[i] = k
      BY <1>6
    <3>3. Sorted(s)[i] = x
      BY <1>10, <3>1, <3>2
    <3>4. QED
      BY <1>9, <3>3 DEF ToSet
  <2>3. QED
    BY <2>1, <2>2
<1>13. QED
  BY <1>9, <1>11, <1>12

LEMMA KeptUnfolds ==
  ASSUME NEW B, NEW s \in Seq(B)
  PROVE  /\ Kept(s)[0] = <<>>
         /\ \A i \in 0 .. Len(s) : Kept(s)[i] \in Seq(B)
         /\ \A i \in 1 .. Len(s) :
              Kept(s)[i] = IF i > 1 /\ s[i - 1] = s[i] THEN Kept(s)[i - 1]
                           ELSE Append(Kept(s)[i - 1], s[i])
<1> DEFINE V == Seq(B)
           more(k, i) == IF i > 1 /\ s[i - 1] = s[i] THEN k ELSE Append(k, s[i])
           step == [x \in V \X (1 .. Len(s)) |-> more(x[1], x[2])]
           Rec(f) == [i \in 0 .. Len(s) |-> IF i = 0 THEN <<>> ELSE more(f[i - 1], i)]
           K == Kept(s)
<1>1. Len(s) \in Nat /\ <<>> \in V
  BY LenProperties, EmptySeq
<1>2. \A k \in V, i \in 1 .. Len(s) : more(k, i) \in V
  BY ElementOfSeq, AppendProperties
<1>3. step \in [V \X (1 .. Len(s)) -> V]
  <2> HIDE DEF V, more
  <2>1. QED
    BY <1>2
<1>4. PICK f \in [0 .. Len(s) -> V] : Follows(f, <<>>, step, Len(s))
  <2> HIDE DEF step, V
  <2>1. QED
    BY <1>1, <1>3, RecursionExists
<1>5. f = Rec(f)
  <2> HIDE DEF V, more
  <2>1. f[0] = <<>>
    BY <1>4 DEF Follows
  <2>2. ASSUME NEW i \in 1 .. Len(s) PROVE f[i] = more(f[i - 1], i)
    <3>1. i - 1 \in 0 .. Len(s)
      BY <1>1
    <3>2. <<f[i - 1], i>> \in V \X (1 .. Len(s))
      BY <1>4, <3>1
    <3>3. f[i] = step[<<f[i - 1], i>>]
      <4> HIDE DEF step
      <4>1. QED
        BY <1>4 DEF Follows
    <3>4. QED
      BY <3>2, <3>3
  <2>3. \A i \in 0 .. Len(s) : f[i] = IF i = 0 THEN <<>> ELSE more(f[i - 1], i)
    <3>1. TAKE i \in 0 .. Len(s)
    <3>2. CASE i = 0
      BY <3>2, <2>1
    <3>3. CASE i # 0
      <4>1. i \in 1 .. Len(s)
        BY <1>1, <3>3
      <4>2. QED
        BY <3>3, <4>1, <2>2
    <3>4. QED
      BY <3>2, <3>3
  <2>4. f = [i \in 0 .. Len(s) |-> f[i]]
    OBVIOUS
  <2>5. QED
    BY <2>3, <2>4, Zenon
<1>6. K = Rec(K)
  BY <1>5 DEF Kept
<1> HIDE DEF K, more, V
<1>7. \A i \in 0 .. Len(s) : K[i] = IF i = 0 THEN <<>> ELSE more(K[i - 1], i)
  BY <1>6
<1>8. K[0] = <<>> /\ \A i \in 1 .. Len(s) : K[i] = more(K[i - 1], i)
  BY <1>1, <1>7
<1>9. K[0] \in V /\ \A i \in 1 .. Len(s) : K[i - 1] \in V => K[i] \in V
  BY <1>1, <1>2, <1>8
<1>10. \A i \in 0 .. Len(s) : K[i] \in V
  BY <1>1, <1>9, StepsStay
<1>11. QED
  BY <1>8, <1>10 DEF K, more, V

(* Without equal neighbours a sorted list is strictly ascending.            *)
LEMMA DedupAscends ==
  ASSUME NEW B \in SUBSET Nat, NEW s \in Seq(B), Ascending(s)
  PROVE  Dedup(s) \in Seq(B) /\ ToSet(Dedup(s)) = ToSet(s) /\ StrictlyAscending(Dedup(s))
<1> DEFINE K == Kept(s)
           Good(i) == /\ Len(K[i]) > 0 /\ K[i][Len(K[i])] = s[i]
                      /\ StrictlyAscending(K[i])
                      /\ \A x : (\E j \in 1 .. Len(K[i]) : K[i][j] = x)
                                  <=> (\E j \in 1 .. i : s[j] = x)
           S == {i \in Nat : i + 1 <= Len(s) => Good(i + 1)}
<1>1. Len(s) \in Nat /\ DOMAIN s = 1 .. Len(s) /\ \A i \in 1 .. Len(s) : s[i] \in B
  BY LenProperties, ElementOfSeq
<1>2. /\ K[0] = <<>>
      /\ \A i \in 0 .. Len(s) : K[i] \in Seq(B)
      /\ \A i \in 1 .. Len(s) : K[i] = IF i > 1 /\ s[i - 1] = s[i] THEN K[i - 1]
                                       ELSE Append(K[i - 1], s[i])
  BY KeptUnfolds
<1> HIDE DEF K
<1>3. 0 \in S
  <2>1. SUFFICES ASSUME 1 <= Len(s) PROVE Good(1)
    OBVIOUS
  <2>2. K[1] = Append(<<>>, s[1]) /\ s[1] \in B
    <3>1. 1 \in 1 .. Len(s) /\ 1 - 1 = 0 /\ ~(1 > 1)
      BY <1>1, <2>1
    <3>2. QED
      BY <1>1, <1>2, <3>1
  <2>3. Len(K[1]) = 1 /\ K[1][1] = s[1]
    BY <2>2
  <2>4. QED
    BY <2>3 DEF StrictlyAscending
<1>4. ASSUME NEW n \in Nat, n \in S PROVE n + 1 \in S
  <2>1. SUFFICES ASSUME n + 2 <= Len(s) PROVE Good(n + 2)
    <3>1. n + 1 \in Nat /\ (n + 1) + 1 = n + 2
      OBVIOUS
    <3> HIDE DEF Good
    <3>2. QED
      BY <3>1
  <2> DEFINE i == n + 1
             k == K[i]
  <2>2. /\ i \in 1 .. Len(s) /\ i + 1 \in 1 .. Len(s) /\ (i + 1) - 1 = i /\ i + 1 > 1
        /\ i \in 0 .. Len(s) /\ n + 2 = i + 1 /\ i <= Len(s)
    BY <1>1, <2>1
  <2>3. Good(i)
    <3> HIDE DEF Good
    <3>1. QED
      BY <1>4, <2>2
  <2>4. K[i + 1] = IF s[i] = s[i + 1] THEN k ELSE Append(k, s[i + 1])
    <3>1. K[i + 1] = IF i + 1 > 1 /\ s[(i + 1) - 1] = s[i + 1] THEN K[(i + 1) - 1]
                     ELSE Append(K[(i + 1) - 1], s[i + 1])
      BY <1>2, <2>2
    <3>2. QED
      BY <2>2, <3>1
  <2>5. k \in Seq(B) /\ Len(k) \in Nat /\ \A j \in 1 .. Len(k) : k[j] \in Nat
    <3>1. k \in Seq(B)
      BY <1>2, <2>2
    <3> HIDE DEF k
    <3>2. QED
      BY <3>1, LenProperties, ElementOfSeq
  <2>6. /\ Len(k) > 0 /\ k[Len(k)] = s[i] /\ StrictlyAscending(k)
        /\ \A x : (\E j \in 1 .. Len(k) : k[j] = x) <=> (\E j \in 1 .. i : s[j] = x)
    BY <2>3
  <2>7. \A j \in 1 .. i + 1 : j \in 1 .. i \/ j = i + 1
    BY <2>2
  <2> HIDE DEF k, i
  <2>8. CASE s[i] = s[i + 1]
    <3>1. K[i + 1] = k
      BY <2>4, <2>8
    <3>2. ASSUME NEW x
          PROVE  (\E j \in 1 .. i : s[j] = x) <=> (\E j \in 1 .. i + 1 : s[j] = x)
      <4>1. i \in 1 .. i /\ \A j \in 1 .. i : j \in 1 .. i + 1
        BY <2>2
      <4>2. QED
        BY <2>7, <2>8, <4>1
    <3>3. Good(i + 1)
      BY <2>6, <2>8, <3>1, <3>2
    <3>4. QED
      BY <2>2, <3>3
  <2>9. CASE s[i] # s[i + 1]
    <3> DEFINE t == Append(k, s[i + 1])
    <3>1. K[i + 1] = t
      BY <2>4, <2>9
    <3>2. s[i] < s[i + 1] /\ s[i + 1] \in B /\ s[i + 1] \in Nat
      <4>1. s[i] <= s[i + 1]
        <5>1. i < i + 1
          BY <2>2
        <5>2. QED
          BY <2>2, <5>1 DEF Ascending
      <4>2. s[i] \in Nat /\ s[i + 1] \in Nat /\ s[i + 1] \in B
        BY <1>1, <2>2
      <4>3. QED
        BY <2>9, <4>1, <4>2
    <3>3. /\ Len(t) = Len(k) + 1 /\ t[Len(k) + 1] = s[i + 1]
          /\ \A j \in 1 .. Len(k) : t[j] = k[j]
      BY <2>5, <3>2, AppendProperties
    <3> HIDE DEF t
    <3>4. \A j \in 1 .. Len(k) + 1 : j \in 1 .. Len(k) \/ j = Len(k) + 1
      BY <2>5
    <3>5. \A j \in 1 .. Len(k) : k[j] <= s[i]
      <4>1. TAKE j \in 1 .. Len(k)
      <4>2. Len(k) \in 1 .. Len(k) /\ (j < Len(k) \/ j = Len(k))
        BY <2>5, <2>6
      <4>3. QED
        BY <2>5, <2>6, <4>2 DEF StrictlyAscending
    <3>6. StrictlyAscending(t)
      <4>1. SUFFICES ASSUME NEW a \in 1 .. Len(t), NEW b \in 1 .. Len(t), a < b
                     PROVE  t[a] < t[b]
        BY DEF StrictlyAscending
      <4>2. a \in 1 .. Len(k)
        BY <2>5, <3>3, <4>1
      <4>3. CASE b \in 1 .. Len(k)
        BY <2>6, <3>3, <4>1, <4>2, <4>3 DEF StrictlyAscending
      <4>4. CASE b = Len(k) + 1
        <5>1. t[a] = k[a] /\ k[a] \in Nat /\ k[a] <= s[i] /\ t[b] = s[i + 1] /\ s[i] \in Nat
          BY <1>1, <2>2, <2>5, <3>3, <3>5, <4>2, <4>4
        <5>2. QED
          BY <3>2, <5>1
      <4>5. QED
        BY <3>3, <3>4, <4>3, <4>4
    <3>7. ASSUME NEW x
          PROVE  (\E j \in 1 .. Len(t) : t[j] = x) <=> (\E j \in 1 .. i + 1 : s[j] = x)
      <4>1. (\E j \in 1 .. Len(t) : t[j] = x) <=> (\E j \in 1 .. Len(k) : k[j] = x) \/ x = s[i + 1]
        <5>1. \A j \in 1 .. Len(k) : j \in 1 .. Len(t)
          BY <2>5, <3>3
        <5>2. Len(k) + 1 \in 1 .. Len(t)
          BY <2>5, <3>3
        <5>3. QED
          BY <3>3, <3>4, <5>1, <5>2
      <4>2. (\E j \in 1 .. i + 1 : s[j] = x) <=> (\E j \in 1 .. i : s[j] = x) \/ x = s[i + 1]
        <5>1. i + 1 \in 1 .. i + 1 /\ \A j \in 1 .. i : j \in 1 .. i + 1
          BY <2>2
        <5>2. QED
          BY <2>7, <5>1
      <4>3. QED
        BY <2>6, <4>1, <4>2
    <3>8. Len(t) > 0 /\ t[Len(t)] = s[i + 1]
      BY <2>5, <3>3
    <3>9. Good(i + 1)
      BY <3>1, <3>6, <3>7, <3>8
    <3>10. QED
      BY <2>2, <3>9
  <2>10. QED
    BY <2>8, <2>9
<1>5. Nat \subseteq S
  <2> HIDE DEF S
  <2>1. QED
    BY <1>3, <1>4, SetInduction
<1>6. CASE Len(s) = 0
  <2>1. Dedup(s) = <<>> /\ s = <<>>
    BY <1>2, <1>6, EmptySeq DEF Dedup, K
  <2>2. QED
    BY <2>1 DEF StrictlyAscending
<1>7. CASE Len(s) # 0
  <2>1. Len(s) - 1 \in Nat /\ (Len(s) - 1) + 1 = Len(s)
    BY <1>1, <1>7
  <2>2. Good(Len(s))
    <3> HIDE DEF Good
    <3>1. Len(s) - 1 \in S
      BY <1>5, <2>1
    <3>2. QED
      BY <1>1, <2>1, <3>1
  <2>3. Dedup(s) = K[Len(s)] /\ K[Len(s)] \in Seq(B)
    BY <1>1, <1>2, <1>7 DEF Dedup, K
  <2>4. DOMAIN Dedup(s) = 1 .. Len(Dedup(s))
    BY <2>3, LenProperties
  <2>5. \A x : x \in ToSet(Dedup(s)) <=> x \in ToSet(s)
    BY <1>1, <2>2, <2>3, <2>4 DEF ToSet
  <2>6. QED
    BY <2>2, <2>3, <2>5
<1>8. QED
  BY <1>6, <1>7

(* The same numbers make one strictly ascending list.                       *)
LEMMA StrictListsAgree ==
  ASSUME NEW B \in SUBSET Nat, NEW s \in Seq(B), NEW t \in Seq(B),
         StrictlyAscending(s), StrictlyAscending(t), ToSet(s) = ToSet(t)
  PROVE  s = t
<1> DEFINE S == {n \in Nat : \A k \in 1 .. n : k <= Len(s) /\ k <= Len(t) => s[k] = t[k]}
<1>1. /\ Len(s) \in Nat /\ Len(t) \in Nat
      /\ DOMAIN s = 1 .. Len(s) /\ DOMAIN t = 1 .. Len(t)
      /\ \A i \in 1 .. Len(s) : s[i] \in Nat
      /\ \A i \in 1 .. Len(t) : t[i] \in Nat
  BY LenProperties, ElementOfSeq
<1>2. /\ \A i \in 1 .. Len(s) : \E j \in 1 .. Len(t) : s[i] = t[j]
      /\ \A i \in 1 .. Len(t) : \E j \in 1 .. Len(s) : t[i] = s[j]
  <2>1. ASSUME NEW i \in 1 .. Len(s) PROVE \E j \in 1 .. Len(t) : s[i] = t[j]
    <3>1. s[i] \in ToSet(t)
      BY <1>1 DEF ToSet
    <3>2. QED
      BY <1>1, <3>1 DEF ToSet
  <2>2. ASSUME NEW i \in 1 .. Len(t) PROVE \E j \in 1 .. Len(s) : t[i] = s[j]
    <3>1. t[i] \in ToSet(s)
      BY <1>1 DEF ToSet
    <3>2. QED
      BY <1>1, <3>1 DEF ToSet
  <2>3. QED
    BY <2>1, <2>2
<1>3. 0 \in S
  OBVIOUS
<1>4. ASSUME NEW n \in Nat, n \in S PROVE n + 1 \in S
  <2> DEFINE k == n + 1
  <2>1. SUFFICES ASSUME k <= Len(s), k <= Len(t) PROVE s[k] = t[k]
    <3>1. \A m \in 1 .. n + 1 : m \in 1 .. n \/ m = n + 1
      OBVIOUS
    <3>2. QED
      BY <1>4, <3>1
  <2>2. k \in 1 .. Len(s) /\ k \in 1 .. Len(t)
    BY <1>1, <2>1
  <2>3. \A m \in 1 .. Len(s) : m < k => s[m] = t[m] /\ m \in 1 .. Len(t)
    <3>1. \A m \in 1 .. Len(s) : m < k => m \in 1 .. n /\ m <= Len(s) /\ m <= Len(t)
      BY <1>1, <2>1
    <3>2. QED
      BY <1>1, <1>4, <3>1
  <2>4. \A m \in 1 .. Len(t) : m < k => s[m] = t[m] /\ m \in 1 .. Len(s)
    <3>1. \A m \in 1 .. Len(t) : m < k => m \in 1 .. n /\ m <= Len(s) /\ m <= Len(t)
      BY <1>1, <2>1
    <3>2. QED
      BY <1>1, <1>4, <3>1
  <2> HIDE DEF k
  <2>5. PICK j \in 1 .. Len(t) : s[k] = t[j]
    BY <1>2, <2>2
  <2>6. PICK i \in 1 .. Len(s) : t[k] = s[i]
    BY <1>2, <2>2
  <2>7. ~(j < k)
    <3>1. SUFFICES ASSUME j < k PROVE FALSE
      OBVIOUS
    <3>2. s[j] = t[j] /\ j \in 1 .. Len(s)
      BY <2>4, <3>1
    <3>3. s[j] < s[k]
      BY <2>2, <3>1, <3>2 DEF StrictlyAscending
    <3>4. QED
      BY <1>1, <2>2, <2>5, <3>2, <3>3
  <2>8. ~(i < k)
    <3>1. SUFFICES ASSUME i < k PROVE FALSE
      OBVIOUS
    <3>2. s[i] = t[i] /\ i \in 1 .. Len(t)
      BY <2>3, <3>1
    <3>3. t[i] < t[k]
      BY <2>2, <3>1, <3>2 DEF StrictlyAscending
    <3>4. QED
      BY <1>1, <2>2, <2>6, <3>2, <3>3
  <2>9. t[k] <= t[j]
    <3>1. k < j \/ k = j
      BY <1>1, <2>2, <2>7
    <3>2. QED
      BY <1>1, <2>2, <3>1 DEF StrictlyAscending
  <2>10. s[k] <= s[i]
    <3>1. k < i \/ k = i
      BY <1>1, <2>2, <2>8
    <3>2. QED
      BY <1>1, <2>2, <3>1 DEF StrictlyAscending
  <2>11. s[k] \in Nat /\ t[k] \in Nat
    BY <1>1, <2>2
  <2>12. QED
    BY <2>5, <2>6, <2>9, <2>10, <2>11
<1>5. Nat \subseteq S
  <2> HIDE DEF S
  <2>1. QED
    BY <1>3, <1>4, SetInduction
<1>6. \A k \in Nat : k >= 1 /\ k <= Len(s) /\ k <= Len(t) => s[k] = t[k]
  <2>1. TAKE k \in Nat
  <2>2. k \in S
    BY <1>5
  <2>3. QED
    BY <2>2
<1>7. Len(s) = Len(t)
  <2>1. ~(Len(s) < Len(t))
    <3>1. SUFFICES ASSUME Len(s) < Len(t) PROVE FALSE
      OBVIOUS
    <3>2. Len(t) \in 1 .. Len(t)
      BY <1>1, <3>1
    <3>3. PICK j \in 1 .. Len(s) : t[Len(t)] = s[j]
      BY <1>2, <3>2
    <3>4. s[j] = t[j] /\ j \in 1 .. Len(t) /\ j < Len(t)
      BY <1>1, <1>6, <3>1
    <3>5. t[j] < t[Len(t)]
      BY <3>2, <3>4 DEF StrictlyAscending
    <3>6. QED
      BY <1>1, <3>2, <3>3, <3>4, <3>5
  <2>2. ~(Len(t) < Len(s))
    <3>1. SUFFICES ASSUME Len(t) < Len(s) PROVE FALSE
      OBVIOUS
    <3>2. Len(s) \in 1 .. Len(s)
      BY <1>1, <3>1
    <3>3. PICK j \in 1 .. Len(t) : s[Len(s)] = t[j]
      BY <1>2, <3>2
    <3>4. s[j] = t[j] /\ j \in 1 .. Len(s) /\ j < Len(s)
      BY <1>1, <1>6, <3>1
    <3>5. s[j] < s[Len(s)]
      BY <3>2, <3>4 DEF StrictlyAscending
    <3>6. QED
      BY <1>1, <3>2, <3>3, <3>4, <3>5
  <2>3. Len(s) \in Nat /\ Len(t) \in Nat
    BY <1>1
  <2>4. QED
    BY <2>1, <2>2, <2>3
<1>8. \A k \in 1 .. Len(s) : s[k] = t[k]
  BY <1>1, <1>6, <1>7
<1>9. QED
  BY <1>7, <1>8, SeqEqual

(* The canonical list holds the listed majors, whatever their order.        *)
LEMMA CanonicalOfMajors ==
  ASSUME NEW B \in SUBSET Nat
  PROVE  /\ \A s \in Seq(B) : Canonical(s) \in Seq(B) /\ ToSet(Canonical(s)) = ToSet(s)
         /\ \A s, t \in Seq(B) : ToSet(s) = ToSet(t) => Canonical(s) = Canonical(t)
<1>1. ASSUME NEW s \in Seq(B)
      PROVE  /\ Canonical(s) \in Seq(B) /\ ToSet(Canonical(s)) = ToSet(s)
             /\ StrictlyAscending(Canonical(s))
  <2>1. Sorted(s) \in Seq(B) /\ ToSet(Sorted(s)) = ToSet(s) /\ Ascending(Sorted(s))
    BY SortedAscends
  <2>2. QED
    BY <2>1, DedupAscends DEF Canonical
<1>2. ASSUME NEW s \in Seq(B), NEW t \in Seq(B), ToSet(s) = ToSet(t)
      PROVE  Canonical(s) = Canonical(t)
  BY <1>1, <1>2, StrictListsAgree
<1>3. QED
  BY <1>1, <1>2

-----------------------------------------------------------------------------
(* Decisions. *)

Kinds == [kind : {"permissive", "present"}]

(* How the policy came to be, and what a decision that was made says.       *)
DecisionInv ==
  /\ observed \in Texts \cup {Absent}
  /\ listed \in Lists \cup {<<>>}
  /\ \/ policy \in Kinds
     \/ policy = [kind |-> "major", majors |-> Canonical(listed)]
  /\ outcome \in {"pending", "ok", "incompatible"}
  /\ reported \in {observed, Absent}
  /\ outcome # "pending" =>
       IF Accepts THEN outcome = "ok" ELSE outcome = "incompatible" /\ reported = observed

Majors == 0 .. U64Max

LEMMA ListsHoldMajors ==
  /\ Majors \in SUBSET Nat
  /\ \A l \in Lists \cup {<<>>} : l \in Seq(Majors)
<1>1. U64Max \in Nat /\ Lists \subseteq Seq(0 .. U64Max)
  BY VersionAssumption
<1>2. Majors \in SUBSET Nat
  BY <1>1 DEF Majors
<1>3. <<>> \in Seq(Majors)
  BY EmptySeq
<1>4. QED
  BY <1>1, <1>2, <1>3 DEF Majors

LEMMA DecisionTyped ==
  ASSUME DecisionInv
  PROVE  TypeOK
<1>1. Canonical(listed) \in Seq(Majors)
  BY ListsHoldMajors, CanonicalOfMajors DEF DecisionInv
<1>2. policy \in Policies
  BY <1>1 DEF DecisionInv, Policies, Kinds, Majors
<1>3. QED
  BY <1>2 DEF DecisionInv, TypeOK

LEMMA DecisionStarts == Init => DecisionInv
<1>1. QED
  BY DEF Init, DecisionInv, Kinds

LEMMA DecisionStep == DecisionInv /\ [Next]_vars => DecisionInv'
<1> SUFFICES ASSUME DecisionInv, [Next]_vars PROVE DecisionInv'
  OBVIOUS
<1>1. CASE EnforceVersionPolicy
  <2>1. UNCHANGED <<observed, policy, listed>>
    BY <1>1 DEF EnforceVersionPolicy
  <2>2. Accepts' <=> Accepts
    BY <2>1 DEF Accepts
  <2>3. IF Accepts THEN outcome' = "ok" /\ reported' = reported
        ELSE outcome' = "incompatible" /\ reported' = observed
    BY <1>1 DEF EnforceVersionPolicy
  <2>4. QED
    BY <2>1, <2>2, <2>3 DEF DecisionInv
<1>2. CASE UNCHANGED vars
  <2>1. UNCHANGED <<observed, policy, listed, outcome, reported>>
    BY <1>2 DEF vars
  <2>2. Accepts' <=> Accepts
    BY <2>1 DEF Accepts
  <2>3. QED
    BY <2>1, <2>2 DEF DecisionInv
<1>3. QED
  BY <1>1, <1>2 DEF Next

(* The states of a decision have their types (enforce_version_policy).      *)
THEOREM DecisionsTyped == Spec => []TypeOK
<1>1. QED
  BY DecisionStarts, DecisionStep, DecisionTyped, PTL DEF Spec

(* Whatever the text: it has at most one reading in the grammar, and        *)
(* parse_nir_version finds exactly that reading, or nothing when a          *)
(* component fits no u64.                                                   *)
THEOREM GrammarParsed == Spec => []ParsesGrammar
<1>1. DecisionInv => ParsesGrammar
  <2>1. SUFFICES ASSUME DecisionInv, observed # Absent PROVE
          /\ Cardinality(Readings(observed)) <= 1
          /\ IF Fitting(observed) = {} THEN ParseNirVersion(observed) = Malformed
             ELSE ParseNirVersion(observed) \in Fitting(observed)
    BY DEF ParsesGrammar
  <2>2. observed \in Versions
    BY <2>1, VersionAssumption DEF DecisionInv
  <2>3. QED
    BY <2>2, ParserReads
<1>2. QED
  BY <1>1, DecisionStarts, DecisionStep, PTL DEF Spec

(* compatible_major makes the same policy of the same majors, in any order  *)
(* and number.                                                              *)
THEOREM SameMajorsSamePolicy == Spec => []SamePolicyForSameMajors
<1>1. DecisionInv => SamePolicyForSameMajors
  <2>1. SUFFICES ASSUME DecisionInv, NEW other \in Lists, policy.kind = "major",
                        ToSet(other) = ToSet(listed)
                 PROVE  policy = [kind |-> "major", majors |-> Canonical(other)]
    BY DEF SamePolicyForSameMajors
  <2>2. policy = [kind |-> "major", majors |-> Canonical(listed)]
    BY <2>1 DEF DecisionInv, Kinds
  <2>3. Canonical(other) = Canonical(listed)
    BY <2>1, ListsHoldMajors, CanonicalOfMajors DEF DecisionInv
  <2>4. QED
    BY <2>2, <2>3
<1>2. QED
  BY <1>1, DecisionStarts, DecisionStep, PTL DEF Spec

(* A list of majors accepts the texts whose reading has a listed major.     *)
LEMMA MajorsAsDocumented ==
  ASSUME DecisionInv, policy.kind = "major", observed # Absent
  PROVE  LET parsed == ParseNirVersion(observed)
         IN  /\ (\E r \in Fitting(observed) : \E i \in DOMAIN listed : listed[i] = r[1])
                  <=> parsed # Malformed /\ Contains(policy.majors, parsed[1])
             /\ (IF parsed = Malformed THEN -1 ELSE parsed[1]) \in ToSet(policy.majors)
                  <=> parsed # Malformed /\ Contains(policy.majors, parsed[1])
<1> DEFINE parsed == ParseNirVersion(observed)
<1>1. policy.majors = Canonical(listed)
  BY DEF DecisionInv, Kinds
<1>2. observed \in Versions
  BY VersionAssumption DEF DecisionInv
<1>3. listed \in Seq(Majors) /\ Majors \in SUBSET Nat
  BY ListsHoldMajors DEF DecisionInv
<1>4. policy.majors \in Seq(Majors) /\ ToSet(policy.majors) = ToSet(listed)
  BY <1>1, <1>3, CanonicalOfMajors
<1>5. \A x : Contains(policy.majors, x) <=> x \in ToSet(policy.majors)
  <2>1. DOMAIN policy.majors = 1 .. Len(policy.majors)
    BY <1>4, LenProperties
  <2>2. QED
    BY <2>1 DEF Contains, ToSet
<1>6. \A x : (\E i \in DOMAIN listed : listed[i] = x) <=> x \in ToSet(policy.majors)
  BY <1>4 DEF ToSet
<1>7. ~(-1 \in ToSet(policy.majors))
  <2>1. \A x \in ToSet(policy.majors) : x \in Majors
    <3>1. \A i \in 1 .. Len(policy.majors) : policy.majors[i] \in Majors
      BY <1>4, ElementOfSeq
    <3>2. QED
      BY <1>4, <3>1, LenProperties DEF ToSet
  <2>2. ~(-1 \in Majors)
    BY <1>3
  <2>3. QED
    BY <2>1, <2>2
<1>8. /\ Fitting(observed) = {} => parsed = Malformed
      /\ Fitting(observed) # {} => Fitting(observed) = {parsed} /\ parsed # Malformed
  BY <1>2, ParserReads
<1>9. QED
  BY <1>5, <1>6, <1>7, <1>8

(* The verdict on every text is the documented one, under every policy, and *)
(* the one that a read of GraphReader comes to with the same policy.        *)
THEOREM VerdictAsDocumented == Spec => []EnforcedAsDocumented
<1>1. DecisionInv => EnforcedAsDocumented
  <2>1. SUFFICES ASSUME DecisionInv, outcome # "pending"
                 PROVE  /\ Reader!PolicyAccepts <=> Documented
                        /\ IF Documented THEN outcome = "ok"
                           ELSE outcome = "incompatible" /\ reported = observed
    BY DEF EnforcedAsDocumented
  <2>2. policy.kind \in {"permissive", "present", "major"}
    BY <2>1 DEF DecisionInv, Kinds
  <2>3. Documented <=> Accepts
    BY <2>1, <2>2, MajorsAsDocumented DEF Documented, Accepts
  <2>4. Reader!PolicyAccepts <=> Accepts
    <3>1. CASE policy.kind = "permissive"
      BY <3>1 DEF Reader!PolicyAccepts, Accepts
    <3>2. CASE policy.kind = "present"
      BY <3>2 DEF Reader!PolicyAccepts, Accepts
    <3>3. CASE policy.kind = "major"
      <4>1. observed # Absent => observed \in Texts
        BY <2>1 DEF DecisionInv
      <4>2. QED
        BY <2>1, <3>3, <4>1, MajorsAsDocumented DEF Reader!PolicyAccepts, Accepts
    <3>4. QED
      BY <2>2, <3>1, <3>2, <3>3
  <2>5. QED
    BY <2>1, <2>3, <2>4 DEF DecisionInv
<1>2. QED
  BY <1>1, DecisionStarts, DecisionStep, PTL DEF Spec

=============================================================================
