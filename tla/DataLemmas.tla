------------------------------ MODULE DataLemmas ------------------------------
(***************************************************************************)
(* Lemmas about data that the proofs of several components rest on:        *)
(* induction, stated with sets since no prover here instantiates an        *)
(* operator, and FlattenSeq.                                               *)
(***************************************************************************)
EXTENDS SequencesExt, SequenceTheorems, FiniteSetTheorems, TLAPS

-----------------------------------------------------------------------------
(* The order of the natural numbers is in some well-founded relation. *)
LEMMA Less == \E R : IsWellFoundedOn(R, Nat) /\ \A m, n \in Nat : m < n => <<m, n>> \in R
<1> DEFINE R == OpToRel(<, Nat)
<1>1. \A m, n \in Nat : m < n => <<m, n>> \in R
  BY DEF OpToRel
<1>2. IsWellFoundedOn(R, Nat)
  BY NatLessThanWellFounded
<1> HIDE DEF R
<1> QED BY <1>1, <1>2

(* A set of natural numbers that is not empty has a least one. *)
LEMMA Least ==
  ASSUME NEW T, T \subseteq Nat, T # {}
  PROVE  \E n \in T : \A m \in T : n <= m
<1>1. PICK R : IsWellFoundedOn(R, Nat) /\ \A m, n \in Nat : m < n => <<m, n>> \in R
  BY Less
<1>2. IsWellFoundedOn(R, Nat)
  BY <1>1
<1>3. PICK n \in T : \A m \in T : ~ (<<m, n>> \in R)
  <2>1. \E x \in T : \A y \in T : ~ (<<y, x>> \in R)
    BY <1>2, WFMin, Zenon
  <2> QED BY <2>1
<1>4. \A m \in T : ~(m < n)
  BY <1>1, <1>3
<1>5. \A m \in T : m \in Nat /\ n \in Nat
  OBVIOUS
<1> QED
  BY <1>4, <1>5

(* Of finite sets, if there are any, one has no other of them within. *)
LEMMA SmallestSet ==
  ASSUME NEW F, F # {}, \A S \in F : IsFiniteSet(S)
  PROVE  \E S \in F : \A T \in F : T \subseteq S => T = S
<1> DEFINE U == UNION F
           R == StrictSubsetOrdering(U)
<1>1. IsWellFoundedOn(R, FiniteSubsetsOf(U))
  BY FS_StrictSubsetOrderingWellFounded
<1>2. F \subseteq FiniteSubsetsOf(U)
  BY DEF FiniteSubsetsOf
<1>3. \A S, T \in F : T \subseteq S /\ T # S => <<T, S>> \in R
  BY DEF StrictSubsetOrdering
<1>4. \E S \in F : \A T \in F : ~ (<<T, S>> \in R)
  <2> HIDE DEF R, U
  <2> QED BY <1>1, <1>2, WFMin, Zenon
<1> HIDE DEF R, U
<1> QED BY <1>3, <1>4

(* What holds of 0, and of i when it holds of i - 1, holds up to n. *)
LEMMA StepByStep ==
  ASSUME NEW n \in Nat, NEW T, 0 \in T, \A i \in 1..n : i - 1 \in T => i \in T
  PROVE  \A i \in 0..n : i \in T
<1> DEFINE Bad == (0..n) \ T
<1>1. SUFFICES ASSUME Bad # {} PROVE FALSE
  OBVIOUS
<1>2. PICK k \in Bad : \A m \in Bad : k <= m
  <2>1. Bad \subseteq Nat
    OBVIOUS
  <2> HIDE DEF Bad
  <2> QED BY <1>1, <2>1, Least
<1>3. k \in 1..n /\ k - 1 \in 0..n /\ ~ (k <= k - 1)
  OBVIOUS
<1>4. k - 1 \in T
  BY <1>2, <1>3
<1> QED BY <1>3, <1>4

(* A function on 0..n can be defined step by step. *)
Follows(g, n, A, base, step) ==
    g \in [0..n -> A] /\ g[0] = base /\ \A i \in 1..n : g[i] = step[i][g[i - 1]]

LEMMA Recursion ==
  ASSUME NEW n \in Nat, NEW A, NEW base \in A,
         NEW step \in [1..n -> [A -> A]]
  PROVE  \E g : Follows(g, n, A, base, step)
<1> DEFINE Upto(k, g) == g \in [0..k -> A] /\ g[0] = base /\ \A i \in 1..k : g[i] = step[i][g[i - 1]]
           T == {k \in 0..n : \E g : Upto(k, g)}
<1>1. 0 \in T
  <2>1. Upto(0, [i \in 0..0 |-> base])
    OBVIOUS
  <2> HIDE DEF Upto
  <2>2. \E g : Upto(0, g)
    BY <2>1
  <2> QED BY <2>2
<1>2. ASSUME NEW k \in 1..n, k - 1 \in T PROVE k \in T
  <2>1. PICK h : Upto(k - 1, h)
    BY <1>2
  <2> DEFINE g == [i \in 0..k |-> IF i = k THEN step[k][h[k - 1]] ELSE h[i]]
  <2>2. step[k][h[k - 1]] \in A
    <3>1. step[k] \in [A -> A]
      OBVIOUS
    <3>2. h[k - 1] \in A
      BY <2>1
    <3> QED BY <3>1, <3>2
  <2>3. g \in [0..k -> A]
    <3>1. \A i \in 0..k : i # k => i \in 0..k - 1
      OBVIOUS
    <3> QED BY <2>1, <2>2, <3>1
  <2>4. g[0] = base
    BY <2>1
  <2>5. ASSUME NEW i \in 1..k PROVE g[i] = step[i][g[i - 1]]
    <3>1. CASE i = k
      <4>1. k - 1 \in 0..k /\ k - 1 # k /\ k \in 0..k
        OBVIOUS
      <4> QED BY <3>1, <4>1
    <3>2. CASE i # k
      <4>1. i \in 0..k /\ i - 1 \in 0..k /\ i - 1 # k /\ i \in 1..k - 1
        BY <3>2
      <4> QED BY <2>1, <3>2, <4>1
    <3> QED BY <3>1, <3>2
  <2>6. Upto(k, g)
    BY <2>3, <2>4, <2>5
  <2> HIDE DEF g, Upto
  <2> QED BY <2>6
<1>3. n \in T
  <2> HIDE DEF T
  <2>1. \A i \in 0..n : i \in T
    BY <1>1, <1>2, StepByStep
  <2> QED BY <2>1
<1> QED BY <1>3 DEF Follows

-----------------------------------------------------------------------------
(* g[i] is the first i of the pieces p, one after the other. *)
Joins(g, p, n, A) ==
    /\ g \in [0..n -> Seq(A)] /\ g[0] = <<>>
    /\ \A i \in 1..n : g[i] = g[i - 1] \o p[i]

LEMMA JoinExists ==
  ASSUME NEW n \in Nat, NEW A, NEW p \in [1..n -> Seq(A)]
  PROVE  \E g : Joins(g, p, n, A)
<1> DEFINE step == [i \in 1..n |-> [s \in Seq(A) |-> s \o p[i]]]
<1>1. step \in [1..n -> [Seq(A) -> Seq(A)]]
  BY ConcatProperties
<1>2. <<>> \in Seq(A)
  BY EmptySeq
<1>3. \E g : Follows(g, n, Seq(A), <<>>, step)
  <2> HIDE DEF step
  <2> QED BY <1>1, <1>2, Recursion
<1>4. PICK g : Follows(g, n, Seq(A), <<>>, step)
  BY <1>3
<1>5. g \in [0..n -> Seq(A)] /\ g[0] = <<>> /\ \A i \in 1..n : g[i] = step[i][g[i - 1]]
  BY <1>4 DEF Follows
<1>6. ASSUME NEW i \in 1..n PROVE g[i] = g[i - 1] \o p[i]
  <2>1. i - 1 \in 0..n
    OBVIOUS
  <2>2. PICK s \in Seq(A) : s = g[i - 1]
    BY <1>5, <2>1
  <2>3. step[i][s] = s \o p[i]
    OBVIOUS
  <2> HIDE DEF step
  <2> QED BY <1>5, <2>2, <2>3
<1> HIDE DEF step
<1>7. Joins(g, p, n, A)
  BY <1>5, <1>6 DEF Joins
<1> QED BY <1>7

(* FlattenSeq joins the pieces. *)
LEMMA FlattenIs ==
  ASSUME NEW n \in Nat, NEW A, NEW p \in [1..n -> Seq(A)], NEW g, Joins(g, p, n, A)
  PROVE  FlattenSeq(p) = g[n]
<1>1. g \in [0..n -> Seq(A)] /\ g[0] = <<>> /\ \A i \in 1..n : g[i] = g[i - 1] \o p[i]
  BY DEF Joins
<1>0. n # 0 => g[1] = p[1]
  <2> HAVE n # 0
  <2>1. 1 \in 1..n /\ 1 - 1 = 0
    OBVIOUS
  <2>2. g[1] = g[0] \o p[1]
    BY <1>1, <2>1, Zenon
  <2>3. p[1] \in Seq(A)
    BY <2>1
  <2> QED BY <1>1, <2>2, <2>3, ConcatEmptySeq
<1>2. Len(p) = n /\ DOMAIN p = 1..n
  <2>1. p \in Seq(Seq(A))
    OBVIOUS
  <2> QED BY <2>1
<1>3. CASE n = 0
  <2>1. FlattenSeq(p) = p
    BY <1>2, <1>3 DEF FlattenSeq
  <2>2. p = <<>>
    BY <1>2, <1>3
  <2> QED BY <1>1, <1>3, <2>1, <2>2
<1>4. CASE n # 0
  <2> DEFINE Step(f) == [i \in 1..n |-> IF i = 1 THEN p[i] ELSE f[i - 1] \o p[i]]
             chosen == CHOOSE f : f = Step(f)
             h == [i \in 1..n |-> g[i]]
  <2>1. FlattenSeq(p) = chosen[n]
    BY <1>2, <1>4 DEF FlattenSeq
  <2>2. h = Step(h)
    <3>1. ASSUME NEW i \in 1..n PROVE h[i] = Step(h)[i]
      <4>1. CASE i = 1
        BY <1>0, <1>4, <4>1
      <4>2. CASE i # 1
        <5>1. i - 1 \in 1..n
          BY <4>2
        <5> QED BY <1>1, <4>2, <5>1
      <4> QED BY <4>1, <4>2
    <3> QED BY <3>1
  <2>3. chosen = Step(chosen)
    <3> HIDE DEF h, Step
    <3>1. \E f : f = Step(f)
      BY <2>2
    <3> QED BY <3>1
  <2>4. \A i \in 1..n : chosen[i] = IF i = 1 THEN p[i] ELSE chosen[i - 1] \o p[i]
    <3> HIDE DEF chosen
    <3>1. PICK f : f = chosen
      OBVIOUS
    <3>2. f = [i \in 1..n |-> IF i = 1 THEN p[i] ELSE f[i - 1] \o p[i]]
      BY <2>3, <3>1
    <3>3. \A i \in 1..n : f[i] = IF i = 1 THEN p[i] ELSE f[i - 1] \o p[i]
      BY <3>2
    <3> QED BY <3>1, <3>3
  <2> HIDE DEF chosen
  <2> DEFINE T == {i \in 0..n : i = 0 \/ chosen[i] = g[i]}
  <2>5. ASSUME NEW i \in 1..n, i - 1 \in T PROVE i \in T
    <3>1. CASE i = 1
      BY <1>0, <1>4, <2>4, <3>1
    <3>2. CASE i # 1
      <4>1. i - 1 # 0 /\ chosen[i - 1] = g[i - 1]
        BY <2>5, <3>2
      <4>2. g[i] = g[i - 1] \o p[i] /\ chosen[i] = chosen[i - 1] \o p[i]
        BY <1>1, <2>4, <3>2
      <4>3. chosen[i] = g[i]
        BY <4>1, <4>2
      <4>4. i \in 0..n
        OBVIOUS
      <4> QED BY <4>3, <4>4
    <3> QED BY <3>1, <3>2
  <2>6. 0 \in T
    OBVIOUS
  <2> HIDE DEF T
  <2>7. \A i \in 0..n : i \in T
    BY <2>5, <2>6, StepByStep
  <2>8. n \in T
    BY <2>7
  <2> QED BY <1>4, <2>1, <2>8 DEF T
<1> QED BY <1>3, <1>4

(* Of pieces followed by others, and of one piece more. *)
LEMMA FlattenTyped ==
  ASSUME NEW n \in Nat, NEW A, NEW p \in [1..n -> Seq(A)]
  PROVE  FlattenSeq(p) \in Seq(A) /\ (n = 0 => FlattenSeq(p) = <<>>)
<1>1. PICK g : Joins(g, p, n, A)
  BY JoinExists
<1>2. FlattenSeq(p) = g[n] /\ g \in [0..n -> Seq(A)] /\ g[0] = <<>>
  BY <1>1, FlattenIs DEF Joins
<1>3. n \in 0..n
  OBVIOUS
<1> QED BY <1>2, <1>3

Adjoin(p, m, q, n, r, A) ==
    /\ m \in Nat /\ n \in Nat
    /\ p \in [1..m -> Seq(A)] /\ q \in [1..n -> Seq(A)] /\ r \in [1..m + n -> Seq(A)]
    /\ \A i \in 1..m : r[i] = p[i]
    /\ \A i \in 1..n : r[m + i] = q[i]

LEMMA FlattenJoin ==
  ASSUME NEW A, NEW m, NEW n, NEW p, NEW q, NEW r, Adjoin(p, m, q, n, r, A)
  PROVE  FlattenSeq(r) = FlattenSeq(p) \o FlattenSeq(q)
<1>0. /\ p \in [1..m -> Seq(A)] /\ q \in [1..n -> Seq(A)] /\ r \in [1..m + n -> Seq(A)]
      /\ \A i \in 1..m : r[i] = p[i]
      /\ \A i \in 1..n : r[m + i] = q[i]
      /\ m \in Nat /\ n \in Nat /\ m + n \in Nat
  BY DEF Adjoin
<1> USE <1>0
<1>1. PICK g : Joins(g, p, m, A)
  BY <1>0, JoinExists
<1>2. PICK h : Joins(h, q, n, A)
  BY <1>0, JoinExists
<1>3. /\ g \in [0..m -> Seq(A)] /\ g[0] = <<>> /\ \A i \in 1..m : g[i] = g[i - 1] \o p[i]
      /\ h \in [0..n -> Seq(A)] /\ h[0] = <<>> /\ \A i \in 1..n : h[i] = h[i - 1] \o q[i]
  <2>1. /\ g \in [0..m -> Seq(A)] /\ g[0] = <<>> /\ \A i \in 1..m : g[i] = g[i - 1] \o p[i]
    BY <1>1 DEF Joins
  <2>2. /\ h \in [0..n -> Seq(A)] /\ h[0] = <<>> /\ \A i \in 1..n : h[i] = h[i - 1] \o q[i]
    BY <1>2 DEF Joins
  <2> QED BY <2>1, <2>2
<1> DEFINE k == [i \in 0..m + n |-> IF i <= m THEN g[i] ELSE g[m] \o h[i - m]]
<1>4. g[m] \in Seq(A) /\ g[m] \o <<>> = g[m] /\ m \in 0..m
  BY <1>3, ConcatEmptySeq
<1>10. \A i \in 0..m : k[i] = g[i]
  OBVIOUS
<1>11. \A j \in 0..n : k[m + j] = g[m] \o h[j]
  <2> SUFFICES ASSUME NEW j \in 0..n PROVE k[m + j] = g[m] \o h[j]
    OBVIOUS
  <2>1. CASE j = 0
    <3>1. m + j = m
      BY <2>1
    <3>2. k[m] = g[m]
      BY <1>4, <1>10
    <3>3. h[j] = <<>>
      BY <1>3, <2>1
    <3> QED BY <1>4, <3>1, <3>2, <3>3
  <2>2. CASE j # 0
    <3>1. PICK i \in 0..m + n : i = m + j /\ ~ (i <= m) /\ i - m = j
      <4>1. m + j \in 0..m + n /\ ~ (m + j <= m) /\ m + j - m = j
        BY <2>2
      <4> QED BY <4>1
    <3>2. k[i] = g[m] \o h[i - m]
      BY <3>1
    <3> QED BY <3>1, <3>2
  <2> QED BY <2>1, <2>2
<1>5. k \in [0..m + n -> Seq(A)] /\ k[0] = <<>>
  <2>1. \A i \in 0..m + n : k[i] \in Seq(A)
    <3>1. ASSUME NEW i \in 0..m + n, ~ (i <= m) PROVE g[m] \o h[i - m] \in Seq(A)
      <4>1. i - m \in 0..n
        BY <3>1
      <4>2. h[i - m] \in Seq(A)
        BY <1>3, <4>1
      <4> QED BY <1>4, <4>2, ConcatProperties
    <3>2. \A i \in 0..m + n : i <= m => g[i] \in Seq(A)
      BY <1>3
    <3> QED BY <3>1, <3>2
  <2> QED BY <1>3, <2>1
<1> HIDE DEF k
<1>6. ASSUME NEW i \in 1..m + n PROVE k[i] = k[i - 1] \o r[i]
  <2>1. CASE i <= m
    <3>1. i \in 1..m /\ i - 1 \in 0..m /\ i \in 0..m
      BY <2>1
    <3>2. g[i] = g[i - 1] \o p[i] /\ r[i] = p[i]
      BY <1>0, <1>3, <3>1
    <3>3. k[i] = g[i] /\ k[i - 1] = g[i - 1]
      BY <1>10, <3>1
    <3> QED BY <3>2, <3>3
  <2>2. CASE i > m
    <3>1. PICK j \in 1..n : i = m + j
      <4>1. i - m \in 1..n /\ i = m + (i - m)
        BY <2>2
      <4> QED BY <4>1
    <3>2. j \in 0..n /\ j - 1 \in 0..n /\ i - 1 = m + (j - 1)
      BY <3>1
    <3>3. k[i] = g[m] \o h[j] /\ k[i - 1] = g[m] \o h[j - 1]
      BY <1>11, <3>1, <3>2
    <3>4. h[j] = h[j - 1] \o q[j] /\ r[i] = q[j]
      BY <1>0, <1>3, <3>1
    <3>5. PICK x \in Seq(A), y \in Seq(A) : x = h[j - 1] /\ y = q[j]
      BY <1>0, <1>3, <3>2
    <3>6. PICK z \in Seq(A) : z = g[m]
      BY <1>4
    <3>7. (z \o x) \o y = z \o (x \o y)
      BY ConcatAssociative, Z3
    <3> QED BY <3>3, <3>4, <3>5, <3>6, <3>7
  <2>3. i <= m \/ i > m
    OBVIOUS
  <2> QED BY <2>1, <2>2, <2>3
<1>7. k[m + n] = g[m] \o h[n]
  <2>1. n \in 0..n
    OBVIOUS
  <2> HIDE DEF k
  <2> QED BY <1>11, <2>1
<1> HIDE DEF k
<1>8. Joins(k, r, m + n, A)
  BY <1>0, <1>5, <1>6 DEF Joins
<1>9. FlattenSeq(r) = k[m + n]
  BY <1>0, <1>8, FlattenIs
<1> QED BY <1>0, <1>1, <1>2, <1>7, <1>9, FlattenIs
=============================================================================
