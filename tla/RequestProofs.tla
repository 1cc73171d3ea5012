----------------------------- MODULE RequestProofs -----------------------------
(***************************************************************************)
(* Proofs about what a request goes through apart from the proxy, each for *)
(* any constants: the redaction of a text of any length with any number of *)
(* hits, the decisions under any policy file, and the texts masked with    *)
(* one vault.                                                              *)
(*                                                                         *)
(* All three compute over data with recursive functions and CHOOSE.  What  *)
(* they compute is found by induction, stated with sets (SmallestSet,      *)
(* StepByStep, Recursion) since no prover here instantiates an operator.   *)
(***************************************************************************)
EXTENDS Redaction, Decision, Vault, DataLemmas

-----------------------------------------------------------------------------
(* Keys of three numbers. *)
Keys == Int \X Int \X Int

(* Lower compares keys of three numbers from the left. *)
LEMMA LowerTriple ==
  ASSUME NEW k \in Keys, NEW l \in Keys
  PROVE  Lower(k, l) <=> \/ k[1] < l[1]
                         \/ k[1] = l[1] /\ k[2] < l[2]
                         \/ k[1] = l[1] /\ k[2] = l[2] /\ k[3] < l[3]
<1>1. DOMAIN k = {1, 2, 3}
  BY DEF Keys
<1>2. Lower(k, l) <=> \E i \in {1, 2, 3} : k[i] < l[i] /\ \A j \in 1..i - 1 : k[j] = l[j]
  BY <1>1 DEF Lower
<1>3. 1..1 - 1 = {} /\ 1..2 - 1 = {1} /\ 1..3 - 1 = {1, 2}
  OBVIOUS
<1> QED BY <1>2, <1>3

(* A finite set that is not empty has an element that comes before no other. *)
LEMMA Highest ==
  ASSUME NEW S, IsFiniteSet(S), NEW key \in [S -> Keys], NEW T \in SUBSET S, T # {}
  PROVE  \E m \in T : \A e \in T : ~ Before(key, m, e)
<1> DEFINE Top(U) == \E m \in U : \A e \in U : ~ Before(key, m, e)
           F == {U \in SUBSET S : U # {} /\ ~ Top(U)}
<1>1. SUFFICES ASSUME F # {} PROVE FALSE
  OBVIOUS
<1>2. \A U \in F : IsFiniteSet(U)
  BY FS_Subset
<1>3. PICK U \in F : \A V \in F : V \subseteq U => V = U
  <2> HIDE DEF F
  <2> QED BY <1>1, <1>2, SmallestSet
<1>4. PICK x \in U : TRUE
  OBVIOUS
<1>5. ~ Before(key, x, x)
  BY LowerTriple DEF Before, Keys
<1>6. U \ {x} # {}
  BY <1>5
<1>7. U \ {x} \notin F
  BY <1>3
<1>8. PICK m \in U \ {x} : \A e \in U \ {x} : ~ Before(key, m, e)
  BY <1>6, <1>7
<1>9. CASE Before(key, m, x)
  <2>1. ASSUME NEW e \in U \ {x}, Before(key, x, e) PROVE FALSE
    <3>1. Before(key, m, e)
      BY <1>9, <2>1, LowerTriple DEF Before, Keys
    <3> QED BY <1>8, <3>1
  <2> QED BY <1>5, <2>1
<1>10. CASE ~ Before(key, m, x)
  <2>1. \A e \in U : ~ Before(key, m, e)
    BY <1>8, <1>10
  <2> QED BY <2>1
<1> QED BY <1>9, <1>10

(* What KeepDisjoint chooses. *)
Kernel(K, S, key) ==
    /\ K \in SUBSET S
    /\ \A d \in S : d \in K <=> ~ \E e \in K : Before(key, e, d) /\ Overlaps(e, d)

(* Whatever the keys, some set keeps just what overlaps nothing kept before. *)
LEMMA KernelExists ==
  ASSUME NEW S, IsFiniteSet(S), NEW key \in [S -> Keys]
  PROVE  \E K : Kernel(K, S, key)
<1> DEFINE F == {T \in SUBSET S : ~ \E K : Kernel(K, T, key)}
<1>1. SUFFICES ASSUME F # {} PROVE FALSE
  OBVIOUS
<1>2. \A U \in F : IsFiniteSet(U)
  BY FS_Subset
<1>3. PICK T \in F : \A V \in F : V \subseteq T => V = T
  <2> HIDE DEF F
  <2> QED BY <1>1, <1>2, SmallestSet
<1>4. T # {}
  <2>1. Kernel({}, {}, key)
    BY DEF Kernel
  <2> QED BY <2>1
<1>5. PICK m \in T : \A e \in T : ~ Before(key, m, e)
  BY <1>4, Highest
<1>6. T \ {m} \notin F
  BY <1>3
<1>7. PICK K : Kernel(K, T \ {m}, key)
  BY <1>6
<1>8. CASE \E e \in K : Before(key, e, m) /\ Overlaps(e, m)
  <2>1. Kernel(K, T, key)
    BY <1>7, <1>8 DEF Kernel
  <2> QED BY <2>1
<1>9. CASE ~ \E e \in K : Before(key, e, m) /\ Overlaps(e, m)
  <2>1. Kernel(K \cup {m}, T, key)
    BY <1>5, <1>7, <1>9 DEF Kernel
  <2> QED BY <2>1
<1> QED BY <1>8, <1>9

Disjoint(S) == \A d, e \in S : d # e => ~ Overlaps(d, e)

(* What KeepDisjoint keeps does not overlap, and what it drops overlaps      *)
(* something kept that comes before, if overlapping spans differ in their key. *)
LEMMA Kept ==
  ASSUME NEW S, IsFiniteSet(S), NEW key \in [S -> Keys],
         \A d, e \in S : d # e /\ Overlaps(d, e) => key[d] # key[e]
  PROVE  /\ KeepDisjoint(S, key) \in SUBSET S
         /\ Disjoint(KeepDisjoint(S, key))
         /\ \A d \in S \ KeepDisjoint(S, key) :
                \E e \in KeepDisjoint(S, key) : Before(key, e, d) /\ Overlaps(e, d)
<1> DEFINE K == KeepDisjoint(S, key)
<1>1. Kernel(K, S, key)
  BY KernelExists DEF Kernel, KeepDisjoint
<1> HIDE DEF K
<1>2. ASSUME NEW d \in K, NEW e \in K, d # e, Overlaps(d, e) PROVE FALSE
  <2>1. d \in S /\ e \in S /\ ~ Before(key, d, e)
    BY <1>1, <1>2 DEF Kernel
  <2>2. Overlaps(e, d)
    BY <1>2 DEF Overlaps
  <2>3. ~ Before(key, e, d)
    BY <1>1, <1>2, <2>1, <2>2 DEF Kernel
  <2>4. key[d] # key[e]
    BY <1>2, <2>1
  <2>5. key[d] \in Keys /\ key[e] \in Keys
    BY <2>1
  <2> QED BY <2>1, <2>3, <2>4, <2>5, LowerTriple DEF Before, Keys
<1>3. K \in SUBSET S /\ \A d \in S \ K : \E e \in K : Before(key, e, d) /\ Overlaps(e, d)
  BY <1>1 DEF Kernel
<1> QED BY <1>2, <1>3 DEF Disjoint, K

-----------------------------------------------------------------------------
(* Detections of every stage. *)
Found == {Categories[i] : i \in DOMAIN Categories} \cup {"context", "ner"}
Everything == Detections(Found)

(* A detection is a span of the text that is not empty. *)
LEMMA DetectionFacts ==
  ASSUME NEW C, NEW d \in Detections(C)
  PROVE  /\ d.start \in 1..Length /\ d.end \in 2..Length + 1 /\ d.start < d.end
         /\ d.cat \in C /\ d = [start |-> d.start, end |-> d.end, cat |-> d.cat]
BY RedactionAssumption DEF Detections, Spans

(* Each stage finds such detections. *)
LEMMA AllFound ==
  /\ Hits \subseteq Everything
  /\ Detections({"context"}) \subseteq Everything
  /\ Detections({"ner"}) \subseteq Everything
BY DEF Hits, Everything, Found, Detections

(* There are finitely many. *)
LEMMA EverythingFinite == IsFiniteSet(Everything)
<1>1. IsFiniteSet(Spans)
  <2>1. IsFiniteSet(1..Length) /\ IsFiniteSet(2..Length + 1)
    BY RedactionAssumption, FS_Interval
  <2>2. IsFiniteSet((1..Length) \X (2..Length + 1))
    BY <2>1, FS_Product
  <2> QED BY <2>2, FS_Subset DEF Spans
<1>2. IsFiniteSet(Found)
  <2> DEFINE C == {Categories[i] : i \in DOMAIN Categories}
  <2>1. Categories \in Surjection(DOMAIN Categories, C)
    BY RedactionAssumption DEF Surjection
  <2>2. IsFiniteSet(DOMAIN Categories)
    <3>1. DOMAIN Categories = 1..Len(Categories) /\ Len(Categories) \in Nat
      BY RedactionAssumption
    <3> QED BY <3>1, FS_Interval
  <2>3. IsFiniteSet(C)
    <3> HIDE DEF C
    <3> QED BY <2>1, <2>2, FS_Surjection
  <2>4. IsFiniteSet({"context"}) /\ IsFiniteSet({"ner"})
    BY FS_Singleton
  <2>5. IsFiniteSet({"context"} \cup {"ner"})
    BY <2>4, FS_Union
  <2>6. IsFiniteSet(C \cup ({"context"} \cup {"ner"}))
    <3> HIDE DEF C
    <3> QED BY <2>3, <2>5, FS_Union
  <2>7. Found = C \cup ({"context"} \cup {"ner"})
    BY DEF Found
  <2> QED BY <2>6, <2>7
<1> DEFINE D(p) == [start |-> p[1][1], end |-> p[1][2], cat |-> p[2]]
           f == [p \in Spans \X Found |-> D(p)]
<1>3. f \in Surjection(Spans \X Found, Everything)
  <2>1. \A p \in Spans \X Found : D(p) \in Everything
    BY DEF Everything, Detections
  <2>2. ASSUME NEW d \in Everything PROVE \E p \in Spans \X Found : f[p] = d
    <3>1. PICK s \in Spans, c \in Found : d = [start |-> s[1], end |-> s[2], cat |-> c]
      BY DEF Everything, Detections
    <3>2. <<s, c>> \in Spans \X Found /\ f[<<s, c>>] = d
      BY <3>1
    <3> QED BY <3>2
  <2>3. f \in [Spans \X Found -> Everything]
    BY <2>1
  <2> HIDE DEF f
  <2> QED BY <2>2, <2>3 DEF Surjection
<1>4. IsFiniteSet(Spans \X Found)
  BY <1>1, <1>2, FS_Product
<1> HIDE DEF f
<1> QED BY <1>3, <1>4, FS_Surjection

(* So any set of them is finite. *)
LEMMA SubsetsFinite ==
  ASSUME NEW S \in SUBSET Everything
  PROVE  IsFiniteSet(S)
BY EverythingFinite, FS_Subset

-----------------------------------------------------------------------------
(* The three ways to resolve overlaps. *)
(* scan_text: whatever is dropped begins in something kept, since starts are *)
(* compared first.                                                           *)
LEMMA RegexKept ==
  ASSUME NEW S \in SUBSET Hits
  PROVE  LET K == KeepDisjoint(S, [d \in S |-> RegexKey(d)])
         IN  /\ K \in SUBSET S /\ Disjoint(K)
             /\ \A d \in S : d.start \in Covered(K)
<1> DEFINE key == [d \in S |-> RegexKey(d)]
           K == KeepDisjoint(S, key)
<1>1. ASSUME NEW d \in S
      PROVE  /\ d.start \in 1..Length /\ d.end \in 2..Length + 1 /\ d.start < d.end
             /\ d = [start |-> d.start, end |-> d.end, cat |-> d.cat]
             /\ Rank(d) \in Nat /\ Categories[Rank(d)] = d.cat
             /\ RegexKey(d) = <<d.start, Rank(d), Length - Size(d)>>
             /\ RegexKey(d) \in Keys
  <2>1. /\ d.start \in 1..Length /\ d.end \in 2..Length + 1 /\ d.start < d.end
        /\ d.cat \in {Categories[i] : i \in DOMAIN Categories}
        /\ d = [start |-> d.start, end |-> d.end, cat |-> d.cat]
    BY DetectionFacts DEF Hits
  <2>2. Rank(d) \in DOMAIN Categories /\ Categories[Rank(d)] = d.cat
    BY <2>1 DEF Rank
  <2>3. Rank(d) \in Nat
    BY <2>2, RedactionAssumption
  <2>4. Length - Size(d) \in Nat
    BY <2>1, RedactionAssumption DEF Size
  <2> QED BY <2>1, <2>2, <2>3, <2>4 DEF RegexKey, Keys
<1>2. key \in [S -> Keys] /\ \A d \in S : key[d] = RegexKey(d)
  BY <1>1
<1>3. IsFiniteSet(S)
  BY AllFound, SubsetsFinite
<1>4. ASSUME NEW d \in S, NEW e \in S, d # e PROVE key[d] # key[e]
  <2>1. SUFFICES ASSUME RegexKey(d) = RegexKey(e) PROVE FALSE
    BY <1>2
  <2>2. d.start = e.start /\ Rank(d) = Rank(e) /\ Length - Size(d) = Length - Size(e)
    BY <1>1, <2>1
  <2>3. d.end = e.end
    BY <1>1, <2>2, RedactionAssumption DEF Size
  <2>4. d.cat = e.cat
    BY <1>1, <2>2
  <2> QED BY <1>1, <1>4, <2>2, <2>3, <2>4
<1> HIDE DEF key
<1>5. /\ K \in SUBSET S /\ Disjoint(K)
      /\ \A d \in S \ K : \E e \in K : Before(key, e, d) /\ Overlaps(e, d)
  BY <1>2, <1>3, <1>4, Kept
<1> HIDE DEF K
<1>6. ASSUME NEW d \in S PROVE d.start \in Covered(K)
  <2>1. CASE d \in K
    BY <1>1, <2>1 DEF Covered
  <2>2. CASE d \notin K
    <3>1. PICK e \in K : Before(key, e, d) /\ Overlaps(e, d)
      BY <1>5, <2>2
    <3>2. e \in S
      BY <1>5
    <3>3. e.start <= d.start
      <4>1. key[e][1] = e.start /\ key[d][1] = d.start
        BY <1>1, <1>2, <3>2
      <4>2. key[e] \in Keys /\ key[d] \in Keys
        BY <1>2, <3>2
      <4>3. key[e][1] < key[d][1] \/ key[e][1] = key[d][1]
        BY <3>1, <4>2, LowerTriple DEF Before
      <4> QED BY <1>1, <3>2, <4>1, <4>3
    <3>4. d.start < e.end
      BY <3>1 DEF Overlaps
    <3> QED BY <1>1, <3>2, <3>3, <3>4 DEF Covered
  <2> QED BY <2>1, <2>2
<1> QED BY <1>5, <1>6 DEF K, key

(* _merge_detections: a detection of Stage 1 is dropped only for one of the   *)
(* NER, which starts before it or encloses it.                                *)
LEMMA NerKept ==
  ASSUME NEW A \in SUBSET Everything, NEW B \in SUBSET Detections({"ner"}), Disjoint(A)
  PROVE  LET K == KeepDisjoint(A \cup B, [d \in A \cup B |-> NerKey(d)])
         IN  /\ K \in SUBSET (A \cup B) /\ Disjoint(K)
             /\ \A d \in A \ K : \E e \in K \ A : Overlaps(e, d) /\ (e.start < d.start \/ Encloses(e, d))
<1> DEFINE S == A \cup B
           key == [d \in S |-> NerKey(d)]
           K == KeepDisjoint(S, key)
<1>1. ASSUME NEW d \in S
      PROVE  /\ d.start \in 1..Length /\ d.end \in 2..Length + 1 /\ d.start < d.end
             /\ d = [start |-> d.start, end |-> d.end, cat |-> d.cat]
             /\ NerKey(d) = <<d.start, Length - Size(d), IF d.cat = "ner" THEN 1 ELSE 0>>
             /\ NerKey(d) \in Keys
  <2>1. d \in Everything
    BY AllFound
  <2>2. /\ d.start \in 1..Length /\ d.end \in 2..Length + 1 /\ d.start < d.end
        /\ d = [start |-> d.start, end |-> d.end, cat |-> d.cat]
    BY <2>1, DetectionFacts DEF Everything
  <2>3. Length - Size(d) \in Nat
    BY <2>2, RedactionAssumption DEF Size
  <2> QED BY <2>2, <2>3 DEF NerKey, Keys
<1>2. key \in [S -> Keys] /\ \A d \in S : key[d] = NerKey(d)
  BY <1>1
<1>3. IsFiniteSet(S)
  BY AllFound, SubsetsFinite
<1>4. ASSUME NEW d \in S, NEW e \in S, d # e, Overlaps(d, e) PROVE key[d] # key[e]
  <2>1. SUFFICES ASSUME NerKey(d) = NerKey(e) PROVE FALSE
    BY <1>2
  <2>2. /\ d.start = e.start /\ Length - Size(d) = Length - Size(e)
        /\ (IF d.cat = "ner" THEN 1 ELSE 0) = (IF e.cat = "ner" THEN 1 ELSE 0)
    BY <1>1, <2>1
  <2>3. d.end = e.end
    BY <1>1, <2>2, RedactionAssumption DEF Size
  <2>4. d.cat = "ner" <=> e.cat = "ner"
    BY <2>2
  <2>5. CASE d.cat = "ner"
    BY <1>1, <1>4, <2>2, <2>3, <2>4, <2>5
  <2>6. CASE d.cat # "ner"
    <3>1. d \in A /\ e \in A
      BY <2>4, <2>6, DetectionFacts
    <3> QED BY <1>4, <3>1 DEF Disjoint
  <2> QED BY <2>5, <2>6
<1> HIDE DEF key
<1>5. /\ K \in SUBSET S /\ Disjoint(K)
      /\ \A d \in S \ K : \E e \in K : Before(key, e, d) /\ Overlaps(e, d)
  <2> HIDE DEF S
  <2> QED BY <1>2, <1>3, <1>4, Kept
<1> HIDE DEF K, S
<1>6. ASSUME NEW d \in A \ K
      PROVE  \E e \in K \ A : Overlaps(e, d) /\ (e.start < d.start \/ Encloses(e, d))
  <2>1. d \in S
    BY DEF S
  <2>2. PICK e \in K : Before(key, e, d) /\ Overlaps(e, d)
    BY <1>5, <1>6, <2>1
  <2>3. e \in S
    BY <1>5
  <2>4. e \notin A
    BY <1>6, <2>2 DEF Disjoint
  <2>5. /\ key[e] \in Keys /\ key[d] \in Keys
        /\ key[e][1] = e.start /\ key[d][1] = d.start
        /\ key[e][2] = Length - Size(e) /\ key[d][2] = Length - Size(d)
    BY <1>1, <1>2, <2>1, <2>3
  <2>6. e.start < d.start \/ (e.start = d.start /\ Length - Size(e) <= Length - Size(d))
    <3>1. \/ key[e][1] < key[d][1]
          \/ key[e][1] = key[d][1] /\ key[e][2] < key[d][2]
          \/ key[e][1] = key[d][1] /\ key[e][2] = key[d][2]
      BY <2>2, <2>5, LowerTriple DEF Before
    <3>2. Length - Size(e) \in Nat /\ Length - Size(d) \in Nat
      BY <1>1, <2>1, <2>3, RedactionAssumption DEF Size
    <3> QED BY <2>5, <3>1, <3>2
  <2>7. e.start = d.start /\ Length - Size(e) <= Length - Size(d) => Encloses(e, d)
    BY <1>1, <2>1, <2>3, RedactionAssumption DEF Encloses, Size
  <2> QED BY <2>2, <2>4, <2>6, <2>7
<1> QED BY <1>5, <1>6 DEF K, key, S

(* One rule hit of proximity.merge takes the place of what it contains only. *)
LEMMA MergeOneCovers ==
  ASSUME NEW S \in SUBSET Everything, Disjoint(S), NEW d \in Everything
  PROVE  /\ MergeOne(S, d) \in SUBSET Everything /\ Disjoint(MergeOne(S, d))
         /\ Covered(S) \subseteq Covered(MergeOne(S, d))
<1> DEFINE met == {b \in S : Overlaps(b, d)}
<1>1. CASE \E b \in met : Encloses(b, d) \/ ~ Encloses(d, b)
  <2>1. MergeOne(S, d) = S
    BY <1>1 DEF MergeOne
  <2> QED BY <2>1
<1>2. CASE ~ \E b \in met : Encloses(b, d) \/ ~ Encloses(d, b)
  <2>1. MergeOne(S, d) = (S \ met) \cup {d}
    BY <1>2 DEF MergeOne
  <2>2. Disjoint((S \ met) \cup {d})
    BY DEF Disjoint, Overlaps
  <2>3. ASSUME NEW i \in Covered(S) PROVE i \in Covered((S \ met) \cup {d})
    <3>1. i \in 1..Length
      BY DEF Covered
    <3>2. PICK b \in S : b.start <= i /\ i < b.end
      BY DEF Covered
    <3>3. CASE b \in met
      <4>1. Encloses(d, b)
        BY <1>2, <3>3
      <4>2. d.start \in Nat /\ d.end \in Nat /\ b.start \in Nat /\ b.end \in Nat
        BY DetectionFacts, RedactionAssumption DEF Everything
      <4>3. d.start <= i /\ i < d.end
        BY <3>1, <3>2, <4>1, <4>2 DEF Encloses
      <4> QED BY <3>1, <4>3 DEF Covered
    <3>4. CASE b \notin met
      BY <3>1, <3>2, <3>4 DEF Covered
    <3> QED BY <3>3, <3>4
  <2> QED BY <2>1, <2>2, <2>3
<1> QED BY <1>1, <1>2

(* So does the whole list, hit after hit. *)
LEMMA MergeCovers ==
  ASSUME NEW base \in SUBSET Everything, Disjoint(base), NEW extra \in Seq(Everything)
  PROVE  /\ Merge(base, extra) \in SUBSET Everything /\ Disjoint(Merge(base, extra))
         /\ Covered(base) \subseteq Covered(Merge(base, extra))
<1> DEFINE n == Len(extra)
           Good == {S \in SUBSET Everything : Disjoint(S) /\ Covered(base) \subseteq Covered(S)}
           step == [i \in 1..n |-> [S \in Good |-> MergeOne(S, extra[i])]]
           F(f) == [i \in 0..n |-> IF i = 0 THEN base ELSE MergeOne(f[i - 1], extra[i])]
           merged == CHOOSE f : f = F(f)
<1>1. n \in Nat
  OBVIOUS
<1>2. \A i \in 1..n : extra[i] \in Everything
  OBVIOUS
<1>3. base \in Good
  OBVIOUS
<1>4. \A S \in Good, i \in 1..n : MergeOne(S, extra[i]) \in Good
  BY <1>2, MergeOneCovers
<1>5. step \in [1..n -> [Good -> Good]]
  BY <1>4
<1> HIDE DEF Good
<1>6. PICK g : Follows(g, n, Good, base, step)
  <2> HIDE DEF step, n
  <2> QED BY <1>1, <1>3, <1>5, Recursion
<1>7. g = F(g)
  <2>1. ASSUME NEW i \in 1..n PROVE g[i] = MergeOne(g[i - 1], extra[i])
    <3>1. g[i - 1] \in Good
      BY <1>1, <1>6 DEF Follows
    <3> QED BY <1>6, <3>1 DEF Follows
  <2>2. \A i \in 0..n : g[i] = IF i = 0 THEN base ELSE MergeOne(g[i - 1], extra[i])
    BY <1>1, <1>6, <2>1 DEF Follows
  <2> QED BY <1>6, <2>2 DEF Follows
<1>8. merged = F(merged)
  BY <1>7
<1>9. Merge(base, extra) = merged[n]
  BY DEF Merge
<1> HIDE DEF merged
<1>10. merged[n] \in Good
  <2> DEFINE T == {i \in 0..n : merged[i] \in Good}
  <2>1. 0 \in T
    BY <1>1, <1>3, <1>8
  <2>2. ASSUME NEW i \in 1..n, i - 1 \in T PROVE i \in T
    <3>1. merged[i] = MergeOne(merged[i - 1], extra[i])
      BY <1>1, <1>8
    <3> QED BY <1>4, <2>2, <3>1
  <2>3. \A i \in 0..n : i \in T
    <3> HIDE DEF T, n
    <3> QED BY <1>1, <2>1, <2>2, StepByStep
  <2> QED BY <1>1, <2>3
<1> QED BY <1>9, <1>10 DEF Good

-----------------------------------------------------------------------------
(* What Sorted chooses. *)
SortedAs(s, S) ==
    /\ s \in [1..Cardinality(S) -> S]
    /\ \A d \in S : \E i \in DOMAIN s : s[i] = d
    /\ \A i, j \in DOMAIN s : i < j => s[i].start <= s[j].start

(* Detections can be sorted by their start. *)
LEMMA SortedExists ==
  ASSUME NEW S \in SUBSET Everything
  PROVE  \E s : SortedAs(s, S)
<1> DEFINE F == {T \in SUBSET S : ~ \E s : SortedAs(s, T)}
<1>1. SUFFICES ASSUME F # {} PROVE FALSE
  OBVIOUS
<1>2. \A T \in F : IsFiniteSet(T)
  BY SubsetsFinite
<1>3. PICK T \in F : \A V \in F : V \subseteq T => V = T
  <2> HIDE DEF F
  <2> QED BY <1>1, <1>2, SmallestSet
<1>4. T # {}
  <2>1. SortedAs(<<>>, {})
    BY FS_EmptySet DEF SortedAs
  <2> QED BY <2>1
<1>5. \A d \in S : d.start \in Nat
  BY DetectionFacts, RedactionAssumption DEF Everything
<1>6. PICK m \in T : \A e \in T : e.start <= m.start
  <2> DEFINE key == [d \in S |-> <<d.start, 0, 0>>]
  <2>1. key \in [S -> Keys]
    BY <1>5 DEF Keys
  <2>2. IsFiniteSet(S)
    BY SubsetsFinite
  <2>3. PICK m \in T : \A e \in T : ~ Before(key, m, e)
    <3> HIDE DEF key
    <3> QED BY <1>4, <2>1, <2>2, Highest
  <2>4. ASSUME NEW e \in T PROVE e.start <= m.start
    <3>1. ~ (m.start < e.start)
      <4>1. key[m] \in Keys /\ key[e] \in Keys /\ key[m][1] = m.start /\ key[e][1] = e.start
        BY <2>1
      <4> HIDE DEF key
      <4> QED BY <2>3, <4>1, LowerTriple DEF Before
    <3>2. m.start \in Nat /\ e.start \in Nat
      BY <1>5
    <3> QED BY <3>1, <3>2
  <2> QED BY <2>4
<1>7. T \ {m} \notin F
  BY <1>3
<1>8. PICK s : SortedAs(s, T \ {m})
  BY <1>7
<1>9. PICK n \in Nat : n = Cardinality(T) - 1 /\ Cardinality(T) = n + 1 /\ Cardinality(T \ {m}) = n
  <2>1. IsFiniteSet(T) /\ IsFiniteSet(T \ {m})
    BY SubsetsFinite
  <2>2. Cardinality(T) \in Nat /\ Cardinality(T \ {m}) \in Nat
    BY <2>1, FS_CardinalityType
  <2>3. Cardinality(T \ {m}) = Cardinality(T) - 1
    BY <2>1, FS_RemoveElement
  <2> QED BY <2>2, <2>3
<1>10. /\ s \in [1..n -> T \ {m}]
       /\ \A d \in T \ {m} : \E i \in 1..n : s[i] = d
       /\ \A i, j \in 1..n : i < j => s[i].start <= s[j].start
  BY <1>8, <1>9 DEF SortedAs
<1> DEFINE q == [i \in 1..n + 1 |-> IF i = n + 1 THEN m ELSE s[i]]
<1>11. \A i \in 1..n + 1 : i # n + 1 => i \in 1..n
  OBVIOUS
<1>12. q \in [1..n + 1 -> T]
  BY <1>10, <1>11
<1>13. ASSUME NEW d \in T PROVE \E i \in 1..n + 1 : q[i] = d
  <2>1. CASE d = m
    <3>1. n + 1 \in 1..n + 1 /\ q[n + 1] = m
      OBVIOUS
    <3> QED BY <2>1, <3>1
  <2>2. CASE d # m
    <3>1. PICK i \in 1..n : s[i] = d
      BY <1>10, <2>2
    <3>2. i \in 1..n + 1 /\ i # n + 1
      OBVIOUS
    <3>3. q[i] = d
      BY <3>1, <3>2
    <3> QED BY <3>2, <3>3
  <2> QED BY <2>1, <2>2
<1>14. ASSUME NEW i \in 1..n + 1, NEW j \in 1..n + 1, i < j PROVE q[i].start <= q[j].start
  <2>1. i \in 1..n /\ q[i] = s[i]
    BY <1>14
  <2>2. CASE j = n + 1
    <3>1. q[j] = m /\ s[i] \in T
      BY <1>10, <2>1, <2>2
    <3> QED BY <1>6, <2>1, <3>1
  <2>3. CASE j # n + 1
    <3>1. j \in 1..n /\ q[j] = s[j]
      BY <2>3
    <3> QED BY <1>10, <1>14, <2>1, <3>1
  <2> QED BY <2>2, <2>3
<1>15. SortedAs(q, T)
  <2>1. DOMAIN q = 1..n + 1
    OBVIOUS
  <2> HIDE DEF q
  <2> QED BY <1>9, <1>12, <1>13, <1>14, <2>1 DEF SortedAs
<1> HIDE DEF q
<1> QED BY <1>15

(* Sorted, those that do not overlap follow one another. *)
LEMMA SortedFacts ==
  ASSUME NEW S \in SUBSET Everything, Disjoint(S)
  PROVE  /\ Sorted(S) \in Seq(S)
         /\ \A i \in 1..Len(Sorted(S)) - 1 : Sorted(S)[i].end <= Sorted(S)[i + 1].start
<1> DEFINE s == Sorted(S)
<1>1. SortedAs(s, S)
  BY SortedExists DEF SortedAs, Sorted
<1> HIDE DEF s
<1>2. PICK n \in Nat : n = Cardinality(S)
  BY SubsetsFinite, FS_CardinalityType
<1>3. s \in [1..n -> S] /\ DOMAIN s = 1..n
  BY <1>1, <1>2 DEF SortedAs
<1>4. s \in Seq(S) /\ Len(s) = n
  BY <1>3
<1>5. s \in Injection(1..n, S)
  <2>1. s \in Surjection(1..n, S)
    BY <1>1, <1>3 DEF SortedAs, Surjection
  <2>2. IsFiniteSet(1..n) /\ Cardinality(1..n) = n
    BY FS_Interval
  <2> QED BY <1>2, <2>1, <2>2, FS_SurjSameCardinalityImpliesInj
<1>6. ASSUME NEW i \in 1..n - 1 PROVE s[i].end <= s[i + 1].start
  <2>1. i \in 1..n /\ i + 1 \in 1..n /\ i < i + 1
    OBVIOUS
  <2>2. s[i] # s[i + 1]
    BY <1>5, <2>1 DEF Injection, IsInjective
  <2>3. s[i] \in S /\ s[i + 1] \in S
    BY <1>3, <2>1
  <2>4. ~ Overlaps(s[i], s[i + 1])
    BY <2>2, <2>3 DEF Disjoint
  <2>5. s[i].start <= s[i + 1].start
    BY <1>1, <1>3, <2>1 DEF SortedAs
  <2>6. /\ s[i].start \in Nat /\ s[i].end \in Nat
        /\ s[i + 1].start \in Nat /\ s[i + 1].end \in Nat /\ s[i + 1].start < s[i + 1].end
    <3>1. \A d \in S : d.start \in Nat /\ d.end \in Nat /\ d.start < d.end
      BY DetectionFacts, RedactionAssumption DEF Everything
    <3> QED BY <2>3, <3>1
  <2> QED BY <2>4, <2>5, <2>6 DEF Overlaps
<1> QED BY <1>4, <1>6 DEF s

(* A chain of pieces reaches from a to b without a gap. *)
Pieces == [start : Nat, end : Nat, cat : Found \cup {"text"}]
Chain(s, a, b) ==
    /\ s \in Seq(Pieces)
    /\ IF s = <<>> THEN a = b ELSE s[1].start = a /\ s[Len(s)].end = b
    /\ \A i \in 1..Len(s) - 1 : s[i].end = s[i + 1].start

(* A piece is a chain. *)
LEMMA ChainOne ==
  ASSUME NEW p \in Pieces
  PROVE  Chain(<<p>>, p.start, p.end)
BY DEF Chain

(* So is the text between two positions, also when there is none. *)
LEMMA ChainText ==
  ASSUME NEW a \in Nat, NEW b \in Nat, a <= b
  PROVE  Chain(TextBetween(a, b), a, b)
<1>1. CASE a < b
  <2>1. Piece(a, b) \in Pieces /\ Piece(a, b).start = a /\ Piece(a, b).end = b
    BY DEF Piece, Pieces
  <2>2. Chain(<<Piece(a, b)>>, a, b)
    BY <2>1, ChainOne
  <2> QED BY <1>1, <2>2 DEF TextBetween
<1>2. CASE ~ (a < b)
  <2>1. a = b
    BY <1>2
  <2> QED BY <1>2, <2>1 DEF TextBetween, Chain
<1> QED BY <1>1, <1>2

(* Chains that meet make a chain. *)
LEMMA ChainJoin ==
  ASSUME NEW s, NEW t, NEW a \in Nat, NEW b \in Nat, NEW c \in Nat, Chain(s, a, b), Chain(t, b, c)
  PROVE  Chain(s \o t, a, c)
<1>1. s \in Seq(Pieces) /\ t \in Seq(Pieces)
  BY DEF Chain
<1>2. CASE s = <<>>
  <2>1. s \o t = t /\ a = b
    BY <1>1, <1>2 DEF Chain
  <2> QED BY <2>1
<1>3. CASE t = <<>>
  <2>1. s \o t = s /\ b = c
    BY <1>1, <1>3 DEF Chain
  <2> QED BY <2>1
<1>4. CASE s # <<>> /\ t # <<>>
  <2>1. PICK m \in Nat, n \in Nat : m = Len(s) /\ n = Len(t)
    BY <1>1
  <2>2. m > 0 /\ n > 0
    BY <1>1, <1>4, <2>1
  <2>3. PICK u : u = s \o t
    OBVIOUS
  <2>4. /\ u \in Seq(Pieces) /\ Len(u) = m + n
        /\ \A i \in 1..m + n : u[i] = IF i <= m THEN s[i] ELSE t[i - m]
    BY <1>1, <2>1, <2>3
  <2>5. u[1] = s[1] /\ u[m + n] = t[n] /\ u # <<>>
    BY <2>2, <2>4
  <2>6. s[1].start = a /\ s[m].end = b /\ t[1].start = b /\ t[n].end = c
    BY <1>4, <2>1 DEF Chain
  <2>7. ASSUME NEW i \in 1..m + n - 1 PROVE u[i].end = u[i + 1].start
    <3>1. CASE i < m
      <4>1. i \in 1..m - 1 /\ u[i] = s[i] /\ u[i + 1] = s[i + 1]
        BY <2>4, <3>1
      <4> QED BY <2>1, <4>1 DEF Chain
    <3>2. CASE i = m
      <4>1. u[i] = s[m] /\ u[i + 1] = t[1]
        BY <2>2, <2>4, <3>2
      <4> QED BY <2>6, <4>1
    <3>3. CASE i > m
      <4>1. i - m \in 1..n - 1 /\ u[i] = t[i - m] /\ u[i + 1] = t[i - m + 1]
        BY <2>4, <3>3
      <4> QED BY <2>1, <4>1 DEF Chain
    <3> QED BY <3>1, <3>2, <3>3
  <2>8. Chain(u, a, c)
    BY <2>4, <2>5, <2>6, <2>7 DEF Chain
  <2> QED BY <2>3, <2>8
<1> QED BY <1>2, <1>3, <1>4

(* apply_redactions: text and tokens make a chain from the first position to  *)
(* the last.                                                                   *)
LEMMA RedactedIsWhole ==
  ASSUME NEW S \in SUBSET Everything, Disjoint(S)
  PROVE  Chain(ApplyRedactions(S), 1, Length + 1)
<1> DEFINE s == Sorted(S)
           n == Len(s)
           cursor(i) == IF i = 0 THEN 1 ELSE s[i].end
           next(p, i) == p \o TextBetween(cursor(i - 1), s[i].start) \o <<s[i]>>
           F(f) == [i \in 0..n |-> IF i = 0 THEN <<>> ELSE next(f[i - 1], i)]
           parts == CHOOSE f : f = F(f)
           A == Seq(Pieces)
           step == [i \in 1..n |-> [p \in A |-> next(p, i)]]
<1>1. s \in Seq(S) /\ n \in Nat /\ \A i \in 1..n - 1 : s[i].end <= s[i + 1].start
  BY SortedFacts
<1>2. \A i \in 1..n : /\ s[i] \in Pieces /\ s[i].start \in 1..Length
                      /\ s[i].end \in 1..Length + 1 /\ s[i].start < s[i].end
  <2>1. \A d \in S : /\ d \in Pieces /\ d.start \in 1..Length
                     /\ d.end \in 1..Length + 1 /\ d.start < d.end
    <3>1. ASSUME NEW d \in S
          PROVE  d \in Pieces /\ d.start \in 1..Length /\ d.end \in 1..Length + 1 /\ d.start < d.end
      <4>1. /\ d.start \in 1..Length /\ d.end \in 2..Length + 1 /\ d.start < d.end
            /\ d.cat \in Found /\ d = [start |-> d.start, end |-> d.end, cat |-> d.cat]
        BY DetectionFacts DEF Everything
      <4>2. d.start \in Nat /\ d.end \in Nat /\ d.end \in 1..Length + 1
        BY <4>1, RedactionAssumption
      <4> QED BY <4>1, <4>2 DEF Pieces
    <3> QED BY <3>1
  <2> HIDE DEF s
  <2>2. \A i \in 1..n : s[i] \in S
    BY <1>1
  <2> QED BY <2>1, <2>2
<1> HIDE DEF s
<1>3. \A i \in 1..n : /\ cursor(i - 1) \in Nat /\ cursor(i) \in Nat
                      /\ s[i].start \in Nat /\ cursor(i - 1) <= s[i].start
  <2>1. ASSUME NEW i \in 1..n
        PROVE  /\ cursor(i - 1) \in Nat /\ cursor(i) \in Nat
               /\ s[i].start \in Nat /\ cursor(i - 1) <= s[i].start
    <3>1. s[i].start \in 1..Length /\ s[i].end \in 1..Length + 1
      BY <1>2
    <3>2. s[i].start \in Nat /\ 1 <= s[i].start /\ cursor(i) \in Nat
      BY <3>1, RedactionAssumption
    <3>3. CASE i = 1
      BY <3>2, <3>3
    <3>4. CASE i # 1
      <4>1. i - 1 \in 1..n /\ i - 1 \in 1..n - 1 /\ i - 1 # 0 /\ (i - 1) + 1 = i
        BY <1>1, <3>4
      <4>2. cursor(i - 1) = s[i - 1].end /\ s[i - 1].end \in 1..Length + 1
        BY <1>2, <4>1
      <4>3. s[i - 1].end <= s[i].start
        BY <1>1, <4>1
      <4>4. s[i - 1].end \in Nat
        BY <4>2, RedactionAssumption
      <4> QED BY <3>2, <4>2, <4>3, <4>4
    <3> QED BY <3>3, <3>4
  <2> QED BY <2>1
<1>4. ASSUME NEW i \in 1..n, NEW p, Chain(p, 1, cursor(i - 1))
      PROVE  Chain(next(p, i), 1, cursor(i))
  <2>1. PICK a, b, c : a = cursor(i - 1) /\ b = s[i].start /\ c = cursor(i)
    OBVIOUS
  <2>2. a \in Nat /\ b \in Nat /\ c \in Nat /\ a <= b
    BY <1>3, <2>1
  <2>3. Chain(TextBetween(a, b), a, b)
    BY <2>2, ChainText
  <2>4. c = s[i].end
    BY <2>1
  <2>5. Chain(<<s[i]>>, b, c)
    BY <1>2, <2>1, <2>4, ChainOne
  <2>6. Chain(p \o TextBetween(a, b), 1, b)
    BY <1>4, <2>1, <2>2, <2>3, ChainJoin
  <2>7. Chain(p \o TextBetween(a, b) \o <<s[i]>>, 1, c)
    BY <2>2, <2>5, <2>6, ChainJoin
  <2> QED BY <2>1, <2>7
<1>5. \A i \in 1..n, p \in A : next(p, i) \in A
  <2>1. ASSUME NEW i \in 1..n, NEW p \in A PROVE next(p, i) \in A
    <3>1. TextBetween(cursor(i - 1), s[i].start) \in A
      <4>1. PICK a, b : a = cursor(i - 1) /\ b = s[i].start
        OBVIOUS
      <4>2. a \in Nat /\ b \in Nat /\ a <= b
        BY <1>3, <4>1
      <4> QED BY <4>1, <4>2, ChainText DEF Chain
    <3>2. <<s[i]>> \in A
      BY <1>2
    <3> QED BY <3>1, <3>2
  <2> QED BY <2>1
<1> HIDE DEF cursor
<1>6. step \in [1..n -> [A -> A]] /\ <<>> \in A
  BY <1>5
<1>7. PICK g : Follows(g, n, A, <<>>, step)
  <2> HIDE DEF step, n, A
  <2> QED BY <1>1, <1>6, Recursion
<1>8. g = F(g)
  <2> HIDE DEF next, n
  <2>1. ASSUME NEW i \in 1..n PROVE g[i] = next(g[i - 1], i)
    <3>1. g[i - 1] \in A
      BY <1>1, <1>7 DEF Follows
    <3> QED BY <1>7, <3>1 DEF Follows
  <2>2. \A i \in 0..n : g[i] = IF i = 0 THEN <<>> ELSE next(g[i - 1], i)
    BY <1>1, <1>7, <2>1 DEF Follows
  <2> QED BY <1>7, <2>2 DEF Follows
<1>9. parts = F(parts)
  BY <1>8
<1>10. ApplyRedactions(S) = parts[n] \o TextBetween(cursor(n), Length + 1)
  BY DEF ApplyRedactions, s, cursor
<1> HIDE DEF parts, next
<1>11. Chain(parts[n], 1, cursor(n))
  <2> DEFINE T == {i \in 0..n : Chain(parts[i], 1, cursor(i))}
  <2>1. 0 \in T
    <3>1. parts[0] = <<>> /\ cursor(0) = 1
      BY <1>1, <1>9 DEF cursor
    <3>2. Chain(<<>>, 1, 1)
      BY DEF Chain
    <3>3. Chain(parts[0], 1, cursor(0))
      BY <3>1, <3>2
    <3> QED BY <1>1, <3>3
  <2>2. ASSUME NEW i \in 1..n, i - 1 \in T PROVE i \in T
    <3>1. parts[i] = next(parts[i - 1], i)
      BY <1>1, <1>9
    <3> QED BY <1>4, <2>2, <3>1
  <2>3. \A i \in 0..n : i \in T
    <3> HIDE DEF T, n
    <3> QED BY <1>1, <2>1, <2>2, StepByStep
  <2> QED BY <1>1, <2>3
<1>12. PICK c \in Nat : c = cursor(n) /\ c <= Length + 1
  <2>1. CASE n = 0
    BY <2>1, RedactionAssumption DEF cursor
  <2>2. CASE n # 0
    <3>1. n \in 1..n /\ cursor(n) = s[n].end
      BY <1>1, <2>2 DEF cursor
    <3>2. s[n].end \in 1..Length + 1
      BY <1>2, <3>1
    <3> QED BY <3>1, <3>2, RedactionAssumption
  <2> QED BY <2>1, <2>2
<1>13. Chain(TextBetween(c, Length + 1), c, Length + 1)
  BY <1>12, RedactionAssumption, ChainText
<1>14. Chain(parts[n] \o TextBetween(c, Length + 1), 1, Length + 1)
  BY <1>11, <1>12, <1>13, RedactionAssumption, ChainJoin
<1> QED BY <1>10, <1>12, <1>14

-----------------------------------------------------------------------------
(* What is kept, and what each stage owes to the one before. *)
RedactionInv ==
    /\ dets \in SUBSET Everything /\ Disjoint(dets)
    /\ hits # {} => phase = "proximity"
    /\ hits \in SUBSET Hits /\ HitStartsMasked
    /\ floor \in SUBSET Everything
    /\ phase = "ner" => floor = dets
    /\ RawTailsFollowNer
    /\ RoundTrip

(* The invariant holds of a text that was not scanned. *)
LEMMA RedactionStarts == RedactionInit => RedactionInv
BY DEF RedactionInit, RedactionInv, Disjoint, HitStartsMasked, RawTailsFollowNer, RoundTrip, Covered

(* Every stage of Engine.scan preserves it. *)
LEMMA RedactionStep == RedactionInv /\ [RedactionNext]_redactionVars => RedactionInv'
<1> SUFFICES ASSUME RedactionInv, [RedactionNext]_redactionVars PROVE RedactionInv'
  OBVIOUS
<1>1. CASE ScanText
  <2>1. PICK n \in 0..MaxHits : \E S \in kSubset(n, Hits) :
            hits' = S /\ dets' = KeepDisjoint(S, [d \in S |-> RegexKey(d)])
    BY <1>1 DEF ScanText
  <2>2. PICK S \in kSubset(n, Hits) : hits' = S /\ dets' = KeepDisjoint(S, [d \in S |-> RegexKey(d)])
    BY <2>1
  <2>3. S \in SUBSET Hits
    BY <2>2 DEF kSubset
  <2>4. PICK K : K = dets'
    OBVIOUS
  <2>5. K \in SUBSET S /\ Disjoint(K) /\ \A d \in S : d.start \in Covered(K)
    BY <2>2, <2>3, <2>4, RegexKept
  <2>6. K \in SUBSET Everything
    BY <2>3, <2>5, AllFound
  <2>7. phase' = "proximity" /\ floor' = floor
    BY <1>1 DEF ScanText
  <2> QED BY <2>2, <2>3, <2>4, <2>5, <2>6, <2>7
          DEF RedactionInv, HitStartsMasked, RawTailsFollowNer, RoundTrip, Covered, Disjoint, Overlaps
<1>2. CASE Proximity
  <2>1. PICK n \in 0..MaxExtra : \E s \in [1..n -> Detections({"context"})] : dets' = Merge(dets, s)
    BY <1>2 DEF Proximity
  <2>2. PICK s \in [1..n -> Detections({"context"})] : dets' = Merge(dets, s)
    BY <2>1
  <2>3. s \in Seq(Everything)
    BY <2>2, AllFound
  <2>4. PICK K : K = dets'
    OBVIOUS
  <2>5. K \in SUBSET Everything /\ Disjoint(K)
    BY <2>2, <2>3, <2>4, MergeCovers DEF RedactionInv
  <2>6. phase' = "ner" /\ floor' = dets' /\ hits' = {}
    BY <1>2 DEF Proximity
  <2> QED BY <2>4, <2>5, <2>6
          DEF RedactionInv, HitStartsMasked, RawTailsFollowNer, RoundTrip, Covered, Disjoint, Overlaps
<1>3. CASE StageTwo
  <2>1. PICK n \in 0..MaxExtra : \E S \in kSubset(n, Detections({"ner"})) : dets' = MergeNer(S)
    BY <1>3 DEF StageTwo
  <2>2. PICK S \in kSubset(n, Detections({"ner"})) : dets' = MergeNer(S)
    BY <2>1
  <2>3. S \in SUBSET Detections({"ner"})
    BY <2>2 DEF kSubset
  <2>4. PICK A, K : A = dets /\ K = dets'
    OBVIOUS
  <2>5. A \in SUBSET Everything /\ Disjoint(A)
    BY <2>4 DEF RedactionInv
  <2>6. K = KeepDisjoint(A \cup S, [d \in A \cup S |-> NerKey(d)])
    BY <2>2, <2>4 DEF MergeNer
  <2>7. /\ K \in SUBSET (A \cup S) /\ Disjoint(K)
        /\ \A d \in A \ K : \E e \in K \ A : Overlaps(e, d) /\ (e.start < d.start \/ Encloses(e, d))
    BY <2>3, <2>5, <2>6, NerKept
  <2>8. K \in SUBSET Everything
    BY <2>3, <2>5, <2>7, AllFound
  <2>9. phase = "ner" /\ phase' = "mask" /\ floor' = floor /\ hits' = hits
    BY <1>3 DEF StageTwo
  <2>10. floor = A /\ hits = {}
    BY <2>4, <2>9 DEF RedactionInv
  <2>11. floor' = A /\ hits' = {}
    BY <2>9, <2>10
  <2>12. ASSUME NEW d \in A, NEW i \in d.start..d.end - 1, i \notin Covered(K)
         PROVE  \E n1 \in K \ A : n1.start < d.start /\ d.start < n1.end /\ n1.end <= i
    <3>1. /\ d.start \in 1..Length /\ d.end \in 2..Length + 1 /\ i \in 1..Length
          /\ d.start <= i /\ i < d.end
      BY <2>5, <2>12, DetectionFacts, RedactionAssumption DEF Everything
    <3>2. \A e \in K : ~ (e.start <= i /\ i < e.end)
      BY <2>12, <3>1 DEF Covered
    <3>3. d \notin K
      BY <3>1, <3>2
    <3>4. PICK e \in K \ A : Overlaps(e, d) /\ (e.start < d.start \/ Encloses(e, d))
      BY <2>7, <3>3
    <3>5. e.start \in 1..Length /\ e.end \in 2..Length + 1
      BY <2>8, <3>4, DetectionFacts DEF Everything
    <3>6. ~ Encloses(e, d)
      BY <3>1, <3>2, <3>4, <3>5, RedactionAssumption DEF Encloses
    <3>7. e.start < d.start /\ d.start < e.end /\ e.end <= i
      BY <3>1, <3>2, <3>4, <3>5, <3>6, RedactionAssumption DEF Overlaps
    <3> QED BY <3>4, <3>7
  <2>13. RawTailsFollowNer'
    BY <2>4, <2>11, <2>12 DEF RawTailsFollowNer
  <2> QED BY <2>4, <2>5, <2>8, <2>7, <2>9, <2>11, <2>13
          DEF RedactionInv, HitStartsMasked, RoundTrip, Disjoint, Overlaps
<1>4. CASE StageTwoGap
  <2>1. phase = "ner" /\ phase' = "mask" /\ UNCHANGED <<hits, dets, floor, out>>
    BY <1>4 DEF StageTwoGap
  <2>2. floor = dets /\ dets' = dets /\ floor' = floor
    BY <2>1 DEF RedactionInv
  <2>3. ASSUME NEW d \in dets, NEW i \in d.start..d.end - 1 PROVE i \in Covered(dets)
    <3>1. d.start \in 1..Length /\ d.end \in 2..Length + 1
      BY DetectionFacts DEF RedactionInv, Everything
    <3>2. i \in 1..Length /\ d.start <= i /\ i < d.end
      BY <3>1, RedactionAssumption
    <3> QED BY <3>2 DEF Covered
  <2>4. RawTailsFollowNer'
    BY <2>2, <2>3 DEF RawTailsFollowNer, Covered
  <2> QED BY <2>1, <2>4
          DEF RedactionInv, HitStartsMasked, RawTailsFollowNer, RoundTrip, Covered, Disjoint, Overlaps
<1>5. CASE Redact
  <2>1. phase = "mask" /\ phase' = "done" /\ UNCHANGED <<hits, dets, floor>>
    BY <1>5 DEF Redact
  <2>2. PICK A, o : A = dets /\ o = out'
    OBVIOUS
  <2>3. Chain(o, 1, Length + 1)
    BY <1>5, <2>2, RedactedIsWhole DEF Redact, RedactionInv
  <2>4. RoundTrip'
    BY <2>2, <2>3, RedactionAssumption DEF RoundTrip, Chain
  <2> QED BY <2>1, <2>4
          DEF RedactionInv, HitStartsMasked, RawTailsFollowNer, Covered, Disjoint, Overlaps
<1>6. CASE UNCHANGED redactionVars
  BY <1>6 DEF redactionVars, RedactionInv, HitStartsMasked, RawTailsFollowNer, RoundTrip, Covered,
              Disjoint, Overlaps
<1> QED BY <1>1, <1>2, <1>3, <1>4, <1>5, <1>6 DEF RedactionNext

(* Engine.scan: what is kept never overlaps, the regular expressions leave the *)
(* first character of whatever they drop masked, and the NER all of a Stage 1  *)
(* detection but a tail behind an NER hit that starts before it.               *)
THEOREM RedactionInvariance == RedactionSpec => []RedactionInv
BY RedactionStarts, RedactionStep, PTL DEF RedactionSpec

(* Every character of the text is in exactly one piece of the redacted text,  *)
(* in its place, whatever the regular expressions, the context rules and the  *)
(* NER found.                                                                 *)
THEOREM RedactedTextIsWhole == RedactionSpec => []RoundTrip
<1>1. RedactionInv => RoundTrip
  BY DEF RedactionInv
<1> QED BY <1>1, RedactionInvariance, PTL

(* No hit of a regular expression that gives way to another is bared from     *)
(* its beginning.                                                             *)
THEOREM HitsStayMasked == RedactionSpec => []HitStartsMasked
<1>1. RedactionInv => HitStartsMasked
  BY DEF RedactionInv
<1> QED BY <1>1, RedactionInvariance, PTL

(* A detection of Stage 1 that gives way to one of the NER loses at most its  *)
(* tail, and only behind an NER hit that starts before it.                    *)
THEOREM FloorLosesOnlyTails == RedactionSpec => []RawTailsFollowNer
<1>1. RedactionInv => RawTailsFollowNer
  BY DEF RedactionInv
<1> QED BY <1>1, RedactionInvariance, PTL

(* The context rules never bare a character that the regular expressions hit. *)
THEOREM ContextOnlyMasksMore == RedactionSpec => ProximityOnlyAdds
<1>1. RedactionInv /\ [RedactionNext]_redactionVars
        => [phase = "proximity" => Covered(dets) \subseteq Covered(dets')]_redactionVars
  <2> SUFFICES ASSUME RedactionInv, RedactionNext, phase = "proximity"
               PROVE  Covered(dets) \subseteq Covered(dets')
    OBVIOUS
  <2>1. Proximity
    BY DEF RedactionNext, ScanText, StageTwo, StageTwoGap, Redact
  <2>2. PICK n \in 0..MaxExtra : \E s \in [1..n -> Detections({"context"})] : dets' = Merge(dets, s)
    BY <2>1 DEF Proximity
  <2>3. PICK s \in [1..n -> Detections({"context"})] : dets' = Merge(dets, s)
    BY <2>2
  <2>4. s \in Seq(Everything)
    BY <2>3, AllFound
  <2>5. Covered(dets) \subseteq Covered(Merge(dets, s))
    BY <2>4, MergeCovers DEF RedactionInv
  <2> QED BY <2>3, <2>5
<1> QED BY <1>1, RedactionInvariance, PTL DEF RedactionSpec, ProximityOnlyAdds

-----------------------------------------------------------------------------
(* The least number of a set is in it. *)
LEMMA MinIn ==
  ASSUME NEW T \in SUBSET Nat, T # {}
  PROVE  Min(T) \in T
BY Least DEF Min

(* Parsing ends well only if every check did. *)
LEMMA FirstOk ==
  ASSUME NEW v, NEW n \in Nat, DOMAIN v = 1..n, First(v) = "ok"
  PROVE  \A i \in 1..n : v[i] = "ok"
<1> DEFINE wrong == {i \in DOMAIN v : v[i] # "ok"}
<1>1. SUFFICES ASSUME wrong # {} PROVE FALSE
  OBVIOUS
<1>2. First(v) = v[Min(wrong)]
  BY <1>1 DEF First
<1>3. Min(wrong) \in wrong
  <2>1. wrong \in SUBSET Nat
    OBVIOUS
  <2> HIDE DEF wrong
  <2> QED BY <1>1, <2>1, MinIn
<1> QED BY <1>2, <1>3

(* SetToSeq leaves nothing out. *)
LEMMA InSomeOrder ==
  ASSUME NEW S, IsFiniteSet(S)
  PROVE  \E n \in Nat : DOMAIN SetToSeq(S) = 1..n /\ \A x \in S : \E i \in 1..n : SetToSeq(S)[i] = x
<1>1. PICK n \in Nat : n = Cardinality(S) /\ ExistsBijection(1..n, S)
  BY FS_CardinalityType
<1>2. PICK b \in Bijection(1..n, S) : TRUE
  BY <1>1 DEF ExistsBijection
<1>3. b \in [1..n -> S] /\ IsInjective(b)
  BY <1>2 DEF Bijection, Injection
<1>4. PICK s : s = SetToSeq(S)
  OBVIOUS
<1>5. s \in [1..n -> S] /\ IsInjective(s)
  BY <1>1, <1>3, <1>4 DEF SetToSeq
<1>6. s \in Injection(1..n, S)
  BY <1>5 DEF Injection
<1>7. s \in Surjection(1..n, S)
  <2>1. Cardinality(1..n) = n
    BY FS_Interval
  <2> QED BY <1>1, <1>6, <2>1, FS_Injection
<1> QED BY <1>4, <1>5, <1>7 DEF Surjection

-----------------------------------------------------------------------------
(* A policy whose every setting is one that those who act on it know. *)
LegalPolicy(c) ==
    /\ \A k \in ToSet(Globals) : c.globals[k] \in Legal[k]
    /\ \A x \in PolicyCategories :
           /\ c.categories[x].action \in LegalActions \cup {Absent}
           /\ c.categories[x].mask_style \in MaskStyles \cup {Absent}
           /\ c.categories[x].stage2_fail_action \in Stage2FailActions \cup {Absent}
    /\ \A x \in Channels : \A k \in ToSet(ChannelSettings) :
           c.channels[x][k] \in Legal[k] \cup {Absent}
(* A pin list whose every entry has such an action. *)
LegalPins(pins) ==
    /\ Len(pins) \in Nat /\ DOMAIN pins = 1..Len(pins)
    /\ \A i \in DOMAIN pins : pins[i].action \in LegalActions

(* The names of the settings, as sets. *)
LEMMA SettingNames ==
  /\ ToSet(Globals) = {"fail_mode", "on_content_failure", "on_infra_failure",
                       "stage2_fail_action", "unscannable_action"}
  /\ ToSet(ChannelSettings) = {"unscannable_action", "stage2_fail_action",
                               "on_content_failure", "fail_mode"}
  /\ DOMAIN Globals = 1..5 /\ DOMAIN ChannelSettings = 1..4
<1>1. /\ DOMAIN Globals = {1, 2, 3, 4, 5} /\ DOMAIN ChannelSettings = {1, 2, 3, 4}
  BY DEF Globals, ChannelSettings
<1>2. 1..5 = {1, 2, 3, 4, 5} /\ 1..4 = {1, 2, 3, 4}
  OBVIOUS
<1> QED BY <1>1, <1>2 DEF ToSet, Globals, ChannelSettings

(* A setting that passes its check is absent or one of the legal words. *)
LEMMA VerdictOk ==
  ASSUME NEW v, NEW legal
  PROVE  /\ GlobalVerdict(v, legal) = "ok" => v \in legal \cup {Absent}
         /\ EntryVerdict(v, legal) = "ok" => NoValueIsAbsent(v) \in legal \cup {Absent}
BY DEF GlobalVerdict, EntryVerdict, NoValueIsAbsent

(* _parse_and_validate: a file that loads gives a legal policy. *)
LEMMA LoadedIsLegal ==
  ASSUME NEW f \in PolicyFiles, Outcome(f) = "ok"
  PROVE  LegalPolicy(Parsed(f)) /\ LegalPins(f.pins)
<1> DEFINE gs == First(ValidateGlobals(f.globals))
           rs == IF f.rest THEN "ok" ELSE "ValueError"
           cseq == SetToSeq(PolicyCategories)
           cv == [i \in DOMAIN cseq |-> First(ParseCategoryPolicy(f.categories[cseq[i]]))]
           pv == [i \in DOMAIN f.pins |-> ParsePinEntry(f.pins[i])]
           hseq == SetToSeq(Channels)
           hv == [i \in DOMAIN hseq |-> First(ParseChannelOverride(f.channels[hseq[i]]))]
           all == <<gs, rs, First(cv), First(pv), First(hv)>>
<1>1. gs = "ok" /\ First(cv) = "ok" /\ First(pv) = "ok" /\ First(hv) = "ok"
  <2>1. First(all) = "ok"
    BY DEF Outcome
  <2>2. DOMAIN all = 1..5 /\ 5 \in Nat
    OBVIOUS
  <2>3. \A i \in 1..5 : all[i] = "ok"
    <3> HIDE DEF all
    <3> QED BY <2>1, <2>2, FirstOk
  <2> HIDE DEF gs, rs, cv, pv, hv
  <2>4. all[1] = "ok" /\ all[3] = "ok" /\ all[4] = "ok" /\ all[5] = "ok"
    BY <2>3
  <2> QED BY <2>4
<1>2. /\ \A c \in PolicyCategories : DOMAIN f.categories[c] = DOMAIN NoPolicy
      /\ Len(f.pins) \in Nat /\ DOMAIN f.pins = 1..Len(f.pins)
      /\ IsFiniteSet(PolicyCategories) /\ IsFiniteSet(Channels)
  BY DecisionAssumption
<1>3. ASSUME NEW k \in ToSet(Globals) PROVE Parsed(f).globals[k] \in Legal[k]
  <2> DEFINE v == ValidateGlobals(f.globals)
  <2>1. DOMAIN v = 1..5
    BY SettingNames DEF ValidateGlobals
  <2>2. \A i \in 1..5 : v[i] = "ok"
    <3> HIDE DEF v
    <3> QED BY <1>1, <2>1, FirstOk DEF v
  <2>3. PICK i \in 1..5 : k = Globals[i]
    BY SettingNames DEF ToSet
  <2>4. GlobalVerdict(f.globals[k], Legal[k]) = "ok"
    BY <2>2, <2>3, SettingNames DEF ValidateGlobals
  <2>5. f.globals[k] \in Legal[k] \cup {Absent}
    BY <2>4, VerdictOk
  <2>6. SecureDefault[k] \in Legal[k]
    BY SettingNames DEF SecureDefault, Legal, FailModes, ContentFailureActions, InfraFailureActions,
          Stage2FailActions, UnscannableActions
  <2>7. Parsed(f).globals[k] = OrElse(f.globals[k], SecureDefault[k])
    BY DEF Parsed
  <2> QED BY <2>5, <2>6, <2>7 DEF OrElse
<1>4. ASSUME NEW x \in PolicyCategories
      PROVE  /\ Parsed(f).categories[x].action \in LegalActions \cup {Absent}
             /\ Parsed(f).categories[x].mask_style \in MaskStyles \cup {Absent}
             /\ Parsed(f).categories[x].stage2_fail_action \in Stage2FailActions \cup {Absent}
  <2>1. PICK n \in Nat : DOMAIN cseq = 1..n /\ \A y \in PolicyCategories : \E i \in 1..n : cseq[i] = y
    BY <1>2, InSomeOrder
  <2>2. PICK i \in 1..n : cseq[i] = x
    BY <2>1
  <2>3. \A j \in 1..n : cv[j] = "ok"
    <3>1. DOMAIN cv = 1..n
      BY <2>1
    <3> HIDE DEF cv
    <3> QED BY <1>1, <3>1, FirstOk
  <2>4. PICK p : p = f.categories[x]
    OBVIOUS
  <2>5. First(ParseCategoryPolicy(p)) = "ok"
    BY <2>1, <2>2, <2>3, <2>4
  <2>6. DOMAIN ParseCategoryPolicy(p) = 1..4 /\ 4 \in Nat
    BY DEF ParseCategoryPolicy
  <2>7. \A j \in 1..4 : ParseCategoryPolicy(p)[j] = "ok"
    BY <2>5, <2>6, FirstOk
  <2>8. /\ EntryVerdict(p.action, LegalActions) = "ok"
        /\ EntryVerdict(p.mask_style, MaskStyles) = "ok"
        /\ EntryVerdict(p.stage2_fail_action, Stage2FailActions) = "ok"
    <3>1. ParseCategoryPolicy(p)[1] = "ok" /\ ParseCategoryPolicy(p)[2] = "ok"
          /\ ParseCategoryPolicy(p)[4] = "ok"
      BY <2>7
    <3> QED BY <3>1 DEF ParseCategoryPolicy
  <2>9. DOMAIN p = {"action", "mask_style", "min_confidence", "stage2_fail_action"}
    BY <1>2, <2>4 DEF NoPolicy
  <2>10. /\ Parsed(f).categories[x].action = NoValueIsAbsent(p.action)
         /\ Parsed(f).categories[x].mask_style = NoValueIsAbsent(p.mask_style)
         /\ Parsed(f).categories[x].stage2_fail_action = NoValueIsAbsent(p.stage2_fail_action)
    BY <2>4, <2>9 DEF Parsed
  <2> QED BY <2>8, <2>10, VerdictOk
<1>5. ASSUME NEW x \in Channels, NEW k \in ToSet(ChannelSettings)
      PROVE  Parsed(f).channels[x][k] \in Legal[k] \cup {Absent}
  <2>1. PICK n \in Nat : DOMAIN hseq = 1..n /\ \A y \in Channels : \E i \in 1..n : hseq[i] = y
    BY <1>2, InSomeOrder
  <2>2. PICK i \in 1..n : hseq[i] = x
    BY <2>1
  <2>3. \A j \in 1..n : hv[j] = "ok"
    <3>1. DOMAIN hv = 1..n
      BY <2>1
    <3> HIDE DEF hv
    <3> QED BY <1>1, <3>1, FirstOk
  <2>4. PICK o : o = f.channels[x]
    OBVIOUS
  <2>5. First(ParseChannelOverride(o)) = "ok"
    BY <2>1, <2>2, <2>3, <2>4
  <2>6. DOMAIN ParseChannelOverride(o) = 1..4 /\ 4 \in Nat
    BY SettingNames DEF ParseChannelOverride
  <2>7. \A j \in 1..4 : ParseChannelOverride(o)[j] = "ok"
    BY <2>5, <2>6, FirstOk
  <2>8. PICK j \in 1..4 : k = ChannelSettings[j]
    BY SettingNames DEF ToSet
  <2>9. EntryVerdict(o[k], Legal[k]) = "ok"
    BY <2>7, <2>8, SettingNames DEF ParseChannelOverride
  <2>10. Parsed(f).channels[x][k] = NoValueIsAbsent(o[k])
    BY <2>4 DEF Parsed
  <2> QED BY <2>9, <2>10, VerdictOk
<1>6. LegalPins(f.pins)
  <2>1. PICK n \in Nat : n = Len(f.pins) /\ DOMAIN f.pins = 1..n
    BY <1>2
  <2>2. \A i \in 1..n : pv[i] = "ok"
    <3>1. DOMAIN pv = 1..n
      BY <2>1
    <3> HIDE DEF pv
    <3> QED BY <1>1, <3>1, FirstOk
  <2>3. \A i \in DOMAIN f.pins : ParsePinEntry(f.pins[i]) = "ok"
    BY <2>1, <2>2
  <2>4. \A i \in DOMAIN f.pins : f.pins[i].action \in LegalActions
    BY <2>3 DEF ParsePinEntry
  <2> QED BY <2>1, <2>4 DEF LegalPins
<1> QED BY <1>3, <1>4, <1>5, <1>6 DEF LegalPolicy

-----------------------------------------------------------------------------
(* The policy in force is legal, and so is what was done under it. *)
DecisionInv ==
    /\ LegalPolicy(config) /\ LegalPins(config.pins)
    /\ pinHash = PinHash(config.pins)
    /\ \A i \in DOMAIN enforced : enforced[i].as.action \in LegalActions \ {"allow"}

(* _check_pin_list finds an entry of the detection's own category and hash. *)
LEMMA FirstPin ==
  ASSUME NEW pins, LegalPins(pins), NEW d, PinsOf(pins, d) # {}
  PROVE  /\ Min(PinsOf(pins, d)) \in DOMAIN pins
         /\ pins[Min(PinsOf(pins, d))].category = d.category
         /\ pins[Min(PinsOf(pins, d))].hash.digest = Normal[d.value]
<1>1. PinsOf(pins, d) \in SUBSET Nat
  BY DEF PinsOf, LegalPins
<1>2. Min(PinsOf(pins, d)) \in PinsOf(pins, d)
  BY <1>1, MinIn
<1> QED BY <1>2 DEF PinsOf

(* decide: every branch ends in a legal action and style. *)
LEMMA DecideIsLegal ==
  ASSUME DecisionInv, NEW d, d.category \in PolicyCategories
  PROVE  Decide(d).action \in LegalActions /\ Decide(d).style \in MaskStyles
<1>1. "allow" \in LegalActions /\ "block" \in LegalActions /\ "tokenize" \in MaskStyles
  BY DEF LegalActions, MaskStyles
<1>2. CASE d.confidence < Floor(d)
  BY <1>1, <1>2 DEF Decide, Decided
<1>3. CASE ~ (d.confidence < Floor(d)) /\ Pinned(d)
  <2>1. Decide(d) = Decided(PinAction(config.pins, d), "tokenize")
    BY <1>3 DEF Decide
  <2>2. PinAction(config.pins, d) \in LegalActions
    BY <1>3, FirstPin DEF Pinned, PinAction, DecisionInv, LegalPins
  <2> QED BY <1>1, <2>1, <2>2 DEF Decided
<1>4. ASSUME ~ (d.confidence < Floor(d)), ~ Pinned(d), config.categories[d.category].action # Absent
      PROVE  Decide(d).action \in LegalActions /\ Decide(d).style \in MaskStyles
  <2>1. Decide(d) = Decided(config.categories[d.category].action, StyleOf(d))
    BY <1>4 DEF Decide
  <2>2. /\ config.categories[d.category].action \in LegalActions
        /\ config.categories[d.category].mask_style \in MaskStyles \cup {Absent}
    BY <1>4 DEF DecisionInv, LegalPolicy
  <2>3. StyleOf(d) \in MaskStyles
    BY <1>1, <2>2, DecisionAssumption DEF StyleOf
  <2> QED BY <2>1, <2>2, <2>3 DEF Decided
<1>5. ASSUME ~ (d.confidence < Floor(d)), ~ Pinned(d), config.categories[d.category].action = Absent
      PROVE  Decide(d).action \in LegalActions /\ Decide(d).style \in MaskStyles
  <2>1. Decide(d) = Default(d)
    BY <1>5 DEF Decide
  <2> QED BY <1>1, <2>1, DecisionAssumption DEF Default, Decided
<1> QED BY <1>2, <1>3, <1>4, <1>5

(* The invariant holds of the default policy. *)
LEMMA DecisionStarts == DecisionInit => DecisionInv
<1> SUFFICES ASSUME DecisionInit PROVE DecisionInv
  OBVIOUS
<1>1. config = Parsed(EmptyFile) /\ config.pins = <<>>
  BY DEF DecisionInit, Parsed, EmptyFile
<1>2. \A k \in ToSet(Globals) : config.globals[k] = SecureDefault[k]
  BY <1>1 DEF Parsed, EmptyFile, OrElse
<1>3. \A k \in ToSet(Globals) : SecureDefault[k] \in Legal[k]
  BY SettingNames DEF SecureDefault, Legal, FailModes, ContentFailureActions, InfraFailureActions,
     Stage2FailActions, UnscannableActions
<1>4. \A x \in PolicyCategories : /\ config.categories[x].action = Absent
                                  /\ config.categories[x].mask_style = Absent
                                  /\ config.categories[x].stage2_fail_action = Absent
  BY <1>1 DEF Parsed, EmptyFile, NoPolicy, NoValueIsAbsent, Absent, NoValue
<1>5. \A x \in Channels : \A k \in ToSet(ChannelSettings) : config.channels[x][k] = Absent
  BY <1>1 DEF Parsed, EmptyFile, NoOverride, NoValueIsAbsent, Absent, NoValue
<1>6. LegalPolicy(config)
  BY <1>2, <1>3, <1>4, <1>5 DEF LegalPolicy
<1>7. LegalPins(config.pins)
  BY <1>1 DEF LegalPins
<1> QED BY <1>1, <1>6, <1>7 DEF DecisionInit, DecisionInv

(* A load and an apply preserve it. *)
LEMMA DecisionStep == DecisionInv /\ [DecisionNext]_decisionVars => DecisionInv'
<1> SUFFICES ASSUME DecisionInv, [DecisionNext]_decisionVars PROVE DecisionInv'
  OBVIOUS
<1>1. ASSUME NEW f \in PolicyFiles, LoadPolicy(f) PROVE DecisionInv'
  <2>1. enforced' = <<>>
    BY <1>1 DEF LoadPolicy
  <2>2. CASE UNCHANGED <<config, pinHash>>
    BY <2>1, <2>2 DEF DecisionInv
  <2>3. CASE /\ Outcome(f) = "ok" /\ config' = Parsed(f) /\ pinHash' = PinHash(f.pins)
    <3>1. Parsed(f).pins = f.pins
      BY DEF Parsed
    <3> QED BY <2>1, <2>3, <3>1, LoadedIsLegal DEF DecisionInv
  <2>4. CASE /\ Outcome(f) = "ok" /\ UNCHANGED pinHash
             /\ config' = [Parsed(f) EXCEPT !.pins = config.pins]
    <3>1. PICK c, p : c = config' /\ p = config.pins
      OBVIOUS
    <3>2. c.pins = p /\ c.globals = Parsed(f).globals /\ c.categories = Parsed(f).categories
          /\ c.channels = Parsed(f).channels
      BY <2>4, <3>1 DEF Parsed
    <3>3. LegalPolicy(c)
      BY <2>4, <3>2, LoadedIsLegal DEF LegalPolicy
    <3> QED BY <2>1, <2>4, <3>1, <3>2, <3>3 DEF DecisionInv
  <2> QED BY <1>1, <2>2, <2>3, <2>4 DEF LoadPolicy
<1>2. ASSUME NEW list \in DetectionLists, ApplyDecisions(list) PROVE DecisionInv'
  <2> DEFINE kept == {i \in DOMAIN list : Decide(list[i]).action # "allow"}
  <2>1. /\ enforced' = [i \in kept |-> [of |-> list[i], as |-> Decide(list[i])]]
        /\ UNCHANGED <<config, pinHash>>
    BY <1>2 DEF ApplyDecisions
  <2>2. \A i \in DOMAIN list : list[i].category \in PolicyCategories
    BY DecisionAssumption
  <2>3. \A i \in kept : Decide(list[i]).action \in LegalActions \ {"allow"}
    BY <2>2, DecideIsLegal
  <2>4. \A i \in DOMAIN enforced' : enforced'[i].as.action \in LegalActions \ {"allow"}
    <3> HIDE DEF kept
    <3> QED BY <2>1, <2>3
  <2> QED BY <2>1, <2>4 DEF DecisionInv
<1>3. CASE UNCHANGED decisionVars
  BY <1>3 DEF decisionVars, DecisionInv
<1> QED BY <1>1, <1>2, <1>3 DEF DecisionNext

(* The policy in force is legal whatever files were loaded, with or without   *)
(* their pin lists, and the hash kept is that of the list in force.           *)
THEOREM DecisionInvariance == DecisionSpec => []DecisionInv
BY DecisionStarts, DecisionStep, PTL DEF DecisionSpec

(* Nobody who acts on a decision, of a detection or of a failure, is given a  *)
(* word that it does not know, under any policy that loaded.                  *)
THEOREM DecisionsAreLegal == DecisionSpec => []LegalDecisions
<1>1. DecisionInv => LegalDecisions
  <2> SUFFICES ASSUME DecisionInv PROVE LegalDecisions
    OBVIOUS
  <2>1. \A i \in DOMAIN enforced : enforced[i].as.action \in LegalActions \ {"allow"}
    BY DEF DecisionInv
  <2>2. ASSUME NEW d \in DetectionSet
        PROVE  Decide(d).action \in LegalActions /\ Decide(d).style \in MaskStyles
    <3>1. d.category \in PolicyCategories
      BY DecisionAssumption DEF DetectionSet, ToSet
    <3> QED BY <3>1, DecideIsLegal
  <2>3. \A k \in ToSet(Globals) : config.globals[k] \in Legal[k]
    BY DEF DecisionInv, LegalPolicy
  <2>4. \A channel, k : channel \in Channels \cup {""} /\ k \in ToSet(ChannelSettings)
            => ChannelSetting(channel, k) \in Legal[k] \cup {Absent}
    BY DEF ChannelSetting, DecisionInv, LegalPolicy
  <2>5. ToSet(ChannelSettings) \subseteq ToSet(Globals) /\ "stage2_fail_action" \in ToSet(ChannelSettings)
    BY SettingNames
  <2>6. \A channel \in Channels \cup {""} : \A k \in ToSet(ChannelSettings) :
            DecideFailure(k, channel) \in Legal[k]
    BY <2>3, <2>4, <2>5 DEF DecideFailure, OrElse
  <2>7. Legal["stage2_fail_action"] = Stage2FailActions /\ Legal["on_infra_failure"] = InfraFailureActions
    BY DEF Legal
  <2>8. ASSUME NEW channel \in Channels \cup {""}, NEW c \in PolicyCategories \cup {NoCategory}
        PROVE  DecideStage2Failure(channel, c) \in Stage2FailActions
    <3>1. ChannelSetting(channel, "stage2_fail_action") \in Stage2FailActions \cup {Absent}
      BY <2>4, <2>5, <2>7
    <3>2. config.globals["stage2_fail_action"] \in Stage2FailActions
      BY <2>3, <2>5, <2>7
    <3>3. (IF c = NoCategory THEN Absent ELSE config.categories[c].stage2_fail_action)
              \in Stage2FailActions \cup {Absent}
      BY DEF DecisionInv, LegalPolicy
    <3> QED BY <3>1, <3>2, <3>3 DEF DecideStage2Failure, OrElse
  <2>9. DecideInfraFailure \in InfraFailureActions
    BY <2>3, <2>7, SettingNames DEF DecideInfraFailure
  <2> QED BY <2>1, <2>2, <2>6, <2>8, <2>9 DEF LegalDecisions
<1> QED BY <1>1, DecisionInvariance, PTL

(* _hash_pin_list: lists of one hash have the same entries. *)
LEMMA SameHashSamePins ==
  ASSUME NEW p, NEW q, PinHash(p) = PinHash(q), NEW i \in DOMAIN q
  PROVE  \E j \in DOMAIN p : /\ p[j].hash = q[i].hash /\ p[j].category = q[i].category
                             /\ p[j].action = q[i].action
<1> DEFINE items(x) == [k \in DOMAIN x |-> <<x[k].hash, x[k].category, x[k].action>>]
<1>1. DOMAIN PinHash(p) = ToSet(items(p)) /\ DOMAIN PinHash(q) = ToSet(items(q))
  BY DEF PinHash
<1>2. items(q)[i] \in ToSet(items(q))
  BY DEF ToSet
<1>3. items(q)[i] \in ToSet(items(p))
  BY <1>1, <1>2
<1>4. PICK j \in DOMAIN p : items(p)[j] = items(q)[i]
  BY <1>3 DEF ToSet
<1> QED BY <1>4

(* So they decide alike, unless the first list contradicts itself. *)
LEMMA PinsDecideAlike ==
  ASSUME NEW p, NEW q, LegalPins(p), LegalPins(q), PinHash(p) = PinHash(q), NEW d
  PROVE  PinActions(q, d) = PinActions(p, d) \/ Ambiguous(p)
<1>1. CASE PinsOf(p, d) = {} /\ PinsOf(q, d) = {}
  BY <1>1 DEF PinActions
<1>2. CASE PinsOf(p, d) # {} /\ PinsOf(q, d) = {}
  <2>1. PICK i \in DOMAIN p : p[i].category = d.category /\ p[i].hash.digest = Normal[d.value]
    BY <1>2 DEF PinsOf
  <2>2. PICK j \in DOMAIN q : q[j].hash = p[i].hash /\ q[j].category = p[i].category
    BY SameHashSamePins
  <2> QED BY <1>2, <2>1, <2>2 DEF PinsOf
<1>3. CASE PinsOf(q, d) # {}
  <2>1. PICK i : i = Min(PinsOf(q, d))
    OBVIOUS
  <2>2. i \in DOMAIN q /\ q[i].category = d.category /\ q[i].hash.digest = Normal[d.value]
    BY <1>3, <2>1, FirstPin
  <2>3. PICK j \in DOMAIN p : /\ p[j].hash = q[i].hash /\ p[j].category = q[i].category
                              /\ p[j].action = q[i].action
    BY <2>2, SameHashSamePins
  <2>4. PinsOf(p, d) # {}
    BY <2>2, <2>3 DEF PinsOf
  <2>5. PICK k : k = Min(PinsOf(p, d))
    OBVIOUS
  <2>6. k \in DOMAIN p /\ p[k].category = d.category /\ p[k].hash.digest = Normal[d.value]
    BY <2>4, <2>5, FirstPin
  <2>7. PinActions(p, d) = p[k].action /\ PinActions(q, d) = q[i].action
    BY <1>3, <2>1, <2>4, <2>5 DEF PinActions, PinAction
  <2> QED BY <2>2, <2>3, <2>6, <2>7 DEF Ambiguous
<1> QED BY <1>1, <1>2, <1>3

(* A pin list never changes a decision without approval, unless the one in    *)
(* force has two entries for a value that contradict each other.              *)
THEOREM PinsNeedApproval == DecisionSpec => UnapprovedPinsDecideAlike
<1> DEFINE Alike == pinHash' = pinHash =>
        \A d \in DetectionSet :
            PinActions(config'.pins, d) = PinActions(config.pins, d) \/ Ambiguous(config.pins)
<1>1. DecisionInv /\ DecisionInv' => [Alike]_decisionVars
  <2> SUFFICES ASSUME DecisionInv, DecisionInv', pinHash' = pinHash, NEW d \in DetectionSet
               PROVE  PinActions(config'.pins, d) = PinActions(config.pins, d) \/ Ambiguous(config.pins)
    OBVIOUS
  <2>1. PICK p, q : p = config.pins /\ q = config'.pins
    OBVIOUS
  <2>2. LegalPins(p) /\ LegalPins(q) /\ PinHash(p) = PinHash(q)
    BY <2>1 DEF DecisionInv
  <2> QED BY <2>1, <2>2, PinsDecideAlike
<1> QED BY <1>1, DecisionInvariance, PTL DEF UnapprovedPinsDecideAlike

-----------------------------------------------------------------------------
(* The vault.                                                                *)

(* i comes before j when sorted by the keys, of equal keys the first. *)
Earlier(key, i, j) == key[i] < key[j] \/ (key[i] = key[j] /\ i < j)

(* What InOrder chooses, of some of the indexes. *)
Arranged(at, key, T) ==
    /\ at \in [1..Cardinality(T) -> T]
    /\ \A i \in T : \E k \in DOMAIN at : at[k] = i
    /\ \A j, k \in DOMAIN at : j < k => Earlier(key, at[j], at[k])

(* Indexes can be arranged by any key. *)
LEMMA ArrangedExists ==
  ASSUME NEW n \in Nat, NEW key \in [1..n -> Int]
  PROVE  \E at : Arranged(at, key, 1..n)
<1> DEFINE F == {T \in SUBSET (1..n) : ~ \E at : Arranged(at, key, T)}
<1>1. SUFFICES ASSUME F # {} PROVE FALSE
  OBVIOUS
<1>2. \A T \in SUBSET (1..n) : IsFiniteSet(T)
  <2>1. IsFiniteSet(1..n)
    BY FS_Interval
  <2> QED BY <2>1, FS_Subset
<1>3. PICK T \in F : \A V \in F : V \subseteq T => V = T
  <2>1. \A T \in F : IsFiniteSet(T)
    BY <1>2
  <2> HIDE DEF F
  <2> QED BY <1>1, <2>1, SmallestSet
<1>4. T # {}
  <2>1. Arranged(<<>>, key, {})
    BY FS_EmptySet DEF Arranged
  <2> QED BY <2>1
<1>5. PICK m \in T : \A e \in T : e = m \/ Earlier(key, e, m)
  <2> DEFINE keys == [i \in 1..n |-> <<key[i], i, 0>>]
  <2>1. keys \in [1..n -> Keys]
    BY DEF Keys
  <2>2. IsFiniteSet(1..n)
    BY <1>2
  <2>3. PICK m \in T : \A e \in T : ~ Before(keys, m, e)
    <3> HIDE DEF keys
    <3> QED BY <1>4, <2>1, <2>2, Highest
  <2>4. ASSUME NEW e \in T PROVE e = m \/ Earlier(key, e, m)
    <3>1. keys[m] \in Keys /\ keys[e] \in Keys
      BY <2>1
    <3>2. keys[m] = <<key[m], m, 0>> /\ keys[e] = <<key[e], e, 0>>
      OBVIOUS
    <3> HIDE DEF keys
    <3>5. ~ Lower(keys[m], keys[e])
      BY <2>3 DEF Before
    <3>3. ~ (key[m] < key[e]) /\ ~ (key[m] = key[e] /\ m < e)
      <4>1. /\ keys[m][1] = key[m] /\ keys[m][2] = m
            /\ keys[e][1] = key[e] /\ keys[e][2] = e
        BY <3>2
      <4> QED BY <3>1, <3>5, <4>1, LowerTriple
    <3>4. key[m] \in Int /\ key[e] \in Int /\ m \in Int /\ e \in Int
      OBVIOUS
    <3> QED BY <3>3, <3>4 DEF Earlier
  <2> QED BY <2>4
<1>6. T \ {m} \notin F
  BY <1>3
<1>7. PICK s : Arranged(s, key, T \ {m})
  BY <1>6
<1>8. PICK c \in Nat : Cardinality(T) = c + 1 /\ Cardinality(T \ {m}) = c
  <2>1. IsFiniteSet(T) /\ IsFiniteSet(T \ {m})
    BY <1>2
  <2>2. Cardinality(T) \in Nat /\ Cardinality(T \ {m}) \in Nat
    BY <2>1, FS_CardinalityType
  <2>3. Cardinality(T \ {m}) = Cardinality(T) - 1
    BY <2>1, FS_RemoveElement
  <2> QED BY <2>2, <2>3
<1>9. /\ s \in [1..c -> T \ {m}]
      /\ \A i \in T \ {m} : \E k \in 1..c : s[k] = i
      /\ \A j, k \in 1..c : j < k => Earlier(key, s[j], s[k])
  BY <1>7, <1>8 DEF Arranged
<1> DEFINE at == [k \in 1..c + 1 |-> IF k = c + 1 THEN m ELSE s[k]]
<1>10. \A k \in 1..c + 1 : k # c + 1 => k \in 1..c
  OBVIOUS
<1>11. at \in [1..c + 1 -> T]
  BY <1>9, <1>10
<1>12. ASSUME NEW i \in T PROVE \E k \in 1..c + 1 : at[k] = i
  <2>1. CASE i = m
    <3>1. c + 1 \in 1..c + 1 /\ at[c + 1] = m
      OBVIOUS
    <3> QED BY <2>1, <3>1
  <2>2. CASE i # m
    <3>1. PICK k \in 1..c : s[k] = i
      BY <1>9, <2>2
    <3>2. k \in 1..c + 1 /\ k # c + 1
      OBVIOUS
    <3>3. at[k] = i
      BY <3>1, <3>2
    <3> QED BY <3>2, <3>3
  <2> QED BY <2>1, <2>2
<1>13. ASSUME NEW j \in 1..c + 1, NEW k \in 1..c + 1, j < k PROVE Earlier(key, at[j], at[k])
  <2>1. j \in 1..c /\ at[j] = s[j]
    BY <1>13
  <2>2. CASE k = c + 1
    <3>1. at[k] = m /\ s[j] \in T /\ s[j] # m
      BY <1>9, <2>1, <2>2
    <3> QED BY <1>5, <2>1, <3>1
  <2>3. CASE k # c + 1
    <3>1. k \in 1..c /\ at[k] = s[k]
      BY <2>3
    <3> QED BY <1>9, <1>13, <2>1, <3>1
  <2> QED BY <2>2, <2>3
<1>14. Arranged(at, key, T)
  <2>1. DOMAIN at = 1..c + 1
    OBVIOUS
  <2> HIDE DEF at
  <2> QED BY <1>8, <1>11, <1>12, <1>13, <2>1 DEF Arranged
<1> HIDE DEF at
<1> QED BY <1>14

(* InOrder has each element of the list, and those of a lower key first. *)
Ordered(o, s, key, A) ==
    /\ o \in [1..Len(s) -> A]
    /\ \A i \in DOMAIN s : \E k \in 1..Len(s) : o[k] = s[i]
    /\ \E at \in [1..Len(s) -> 1..Len(s)] :
           /\ \A k \in 1..Len(s) : o[k] = s[at[k]]
           /\ \A j, k \in 1..Len(s) : j < k => key[at[j]] <= key[at[k]]

LEMMA InOrderIs ==
  ASSUME NEW A, NEW s \in Seq(A), NEW key \in [DOMAIN s -> Int]
  PROVE  Ordered(InOrder(s, key), s, key, A)
<1>1. PICK n \in Nat : n = Len(s) /\ DOMAIN s = 1..n /\ s \in [1..n -> A]
  OBVIOUS
<1> DEFINE Is(at) == /\ at \in [1..n -> 1..n]
                     /\ \A i \in 1..n : \E k \in 1..n : at[k] = i
                     /\ \A j, k \in 1..n :
                            j < k => \/ key[at[j]] < key[at[k]]
                                     \/ key[at[j]] = key[at[k]] /\ at[j] < at[k]
           at == CHOOSE at : Is(at)
<1>2. Cardinality(1..n) = n
  BY FS_Interval
<1>3. \E a : Is(a)
  <2>1. PICK a : Arranged(a, key, 1..n)
    BY <1>1, ArrangedExists
  <2>2. DOMAIN a = 1..n
    BY <1>2, <2>1 DEF Arranged
  <2>3. Is(a)
    BY <1>2, <2>1, <2>2 DEF Arranged, Earlier
  <2> HIDE DEF Is
  <2> QED BY <2>3
<1>4. Is(at)
  <2> HIDE DEF Is
  <2> QED BY <1>3
<1>5. InOrder(s, key) = [k \in 1..n |-> s[at[k]]]
  BY <1>1 DEF InOrder
<1> HIDE DEF at
<1>6. PICK o : o = InOrder(s, key)
  OBVIOUS
<1>7. o \in [1..n -> A] /\ \A k \in 1..n : o[k] = s[at[k]]
  BY <1>1, <1>4, <1>5, <1>6
<1>8. \A i \in 1..n : \E k \in 1..n : o[k] = s[i]
  <2> SUFFICES ASSUME NEW i \in 1..n PROVE \E k \in 1..n : o[k] = s[i]
    OBVIOUS
  <2>1. PICK k \in 1..n : at[k] = i
    BY <1>4
  <2> QED BY <1>7, <2>1
<1>9. ASSUME NEW j \in 1..n, NEW k \in 1..n, j < k PROVE key[at[j]] <= key[at[k]]
  <2>1. key[at[j]] \in Int /\ key[at[k]] \in Int
    BY <1>1, <1>4
  <2>2. key[at[j]] < key[at[k]] \/ key[at[j]] = key[at[k]]
    BY <1>4, <1>9
  <2> QED BY <2>1, <2>2
<1>10. at \in [1..n -> 1..n]
  BY <1>4
<1> HIDE DEF Is
<1>11. Ordered(o, s, key, A)
  BY <1>1, <1>7, <1>8, <1>9, <1>10 DEF Ordered
<1> QED BY <1>6, <1>11

(* The characters of the texts, and those that masking puts in. *)
Letters == UNION {ToSet(c.text) : c \in FirstTexts \cup LaterTexts}
AllTokens == {Token(cat, n, blocked) : cat \in DOMAIN NameLength, n \in Nat, blocked \in BOOLEAN}
Marks == {Char("***", "other"), Char("X", "upper"), Char("x", "lower"), Char("0", "digit")}
VaultTexts == Seq(Letters \cup AllTokens \cup Marks)
Vaults == [tokens : Seq([token : AllTokens, original : VaultTexts]),
           counters : [DOMAIN NameLength -> Nat]]

Plain(text) == \A i \in DOMAIN text : ~ IsToken(text[i])
PlainVault(v) == \A i \in DOMAIN v.tokens : Plain(v.tokens[i].original)

(* No index is above its counter, no token and no original is there twice. *)
Sound(v) ==
    /\ v \in Vaults
    /\ \A i \in DOMAIN v.tokens : v.tokens[i].token.n <= v.counters[v.tokens[i].token.cat]
    /\ \A i, j \in DOMAIN v.tokens : i # j => /\ v.tokens[i].token # v.tokens[j].token
                                              /\ v.tokens[i].original # v.tokens[j].original

Stands(v, original, token) ==
    \E i \in DOMAIN v.tokens : v.tokens[i].original = original /\ v.tokens[i].token = token
VaultGrown(v, w) == \A original, token : Stands(v, original, token) => Stands(w, original, token)

(* In a sound vault a pair is found by either of its parts. *)
LEMMA LookUp ==
  ASSUME NEW v, Sound(v), NEW original, NEW token, Stands(v, original, token)
  PROVE  HasOriginal(v, original) /\ TokenFor(v, original) = token /\ Restore(v, token) = original
<1>1. PICK i \in DOMAIN v.tokens : v.tokens[i].original = original /\ v.tokens[i].token = token
  BY DEF Stands
<1>2. PICK pair : pair = v.tokens[i]
  OBVIOUS
<1>3. pair \in ToSet(v.tokens) /\ pair.original = original /\ pair.token = token
  BY <1>1, <1>2 DEF ToSet
<1>4. ASSUME NEW p \in ToSet(v.tokens), p.original = original \/ p.token = token PROVE p = pair
  <2>1. PICK j \in DOMAIN v.tokens : p = v.tokens[j]
    BY DEF ToSet
  <2>2. i = j
    BY <1>1, <1>4, <2>1 DEF Sound
  <2> QED BY <1>2, <2>1, <2>2
<1>5. (CHOOSE p \in ToSet(v.tokens) : p.original = original) = pair
  BY <1>3, <1>4
<1>6. (CHOOSE p \in ToSet(v.tokens) : p.token = token) = pair
  BY <1>3, <1>4
<1> QED BY <1>3, <1>5, <1>6 DEF HasOriginal, TokenFor, Restore

(* The token that is given for an original that is there stands for it. *)
LEMMA TokenStands ==
  ASSUME NEW v, NEW original, HasOriginal(v, original)
  PROVE  Stands(v, original, TokenFor(v, original))
<1>1. PICK p : p = CHOOSE q \in ToSet(v.tokens) : q.original = original
  OBVIOUS
<1>2. p \in ToSet(v.tokens) /\ p.original = original
  BY <1>1 DEF HasOriginal
<1>3. PICK i \in DOMAIN v.tokens : v.tokens[i] = p
  BY <1>2 DEF ToSet
<1>4. TokenFor(v, original) = p.token
  BY <1>1 DEF TokenFor
<1> QED BY <1>2, <1>3, <1>4 DEF Stands

(* Appending. *)
LEMMA OneMore ==
  ASSUME NEW A, NEW s \in Seq(A), NEW a \in A
  PROVE  /\ Append(s, a) \in Seq(A) /\ Len(Append(s, a)) = Len(s) + 1
         /\ DOMAIN Append(s, a) = 1..Len(s) + 1 /\ DOMAIN s = 1..Len(s) /\ Len(s) \in Nat
         /\ \A i \in DOMAIN s : Append(s, a)[i] = s[i]
         /\ Append(s, a)[Len(s) + 1] = a
         /\ s \o <<a>> = Append(s, a)
OBVIOUS

(* assign_token keeps the vault sound and what is in it. *)
LEMMA AssignSound ==
  ASSUME NEW v, Sound(v), NEW original \in VaultTexts, NEW cat \in DOMAIN NameLength,
         NEW blocked \in BOOLEAN
  PROVE  LET w == AssignToken(v, original, cat, blocked)
         IN  /\ Sound(w) /\ VaultGrown(v, w)
             /\ HasOriginal(w, original)
             /\ PlainVault(v) /\ Plain(original) => PlainVault(w)
<1> DEFINE w == AssignToken(v, original, cat, blocked)
<1>1. CASE HasOriginal(v, original)
  BY <1>1 DEF AssignToken, VaultGrown
<1>2. CASE ~ HasOriginal(v, original)
  <2> DEFINE n == v.counters[cat] + 1
             pair == [token |-> Token(cat, n, blocked), original |-> original]
             A == [token : AllTokens, original : VaultTexts]
  <2>1. /\ v \in Vaults /\ v.tokens \in Seq(A) /\ v.counters \in [DOMAIN NameLength -> Nat]
    BY DEF Sound, Vaults
  <2>2. n \in Nat /\ n > v.counters[cat] /\ v.counters[cat] \in Nat
    BY <2>1
  <2> HIDE DEF n
  <2>3. Token(cat, n, blocked) \in AllTokens
    BY <2>2 DEF AllTokens
  <2>4. pair \in A /\ pair.token = Token(cat, n, blocked) /\ pair.original = original
    BY <2>3
  <2>5. pair.token.cat = cat /\ pair.token.n = n
    BY <2>4 DEF Token
  <2>6. w.tokens = Append(v.tokens, pair) /\ w.counters = [v.counters EXCEPT ![cat] = n]
        /\ w = [tokens |-> w.tokens, counters |-> w.counters]
    BY <1>2 DEF AssignToken, n
  <2> HIDE DEF pair, w
  <2>7. PICK m \in Nat : m = Len(v.tokens)
    BY <2>1
  <2>8. /\ w.tokens \in Seq(A) /\ DOMAIN w.tokens = 1..m + 1 /\ DOMAIN v.tokens = 1..m
        /\ \A i \in 1..m : w.tokens[i] = v.tokens[i]
        /\ w.tokens[m + 1] = pair
    <3> HIDE DEF A
    <3> QED BY <2>1, <2>4, <2>6, <2>7, OneMore
  <2>9. \A i \in 1..m : v.tokens[i] \in A
    <3>1. PICK s \in Seq(A) : s = v.tokens
      BY <2>1
    <3>2. DOMAIN s = 1..m
      BY <2>8, <3>1
    <3>3. \A i \in DOMAIN s : s[i] \in A
      <4> HIDE DEF A
      <4> QED OBVIOUS
    <3> QED BY <3>1, <3>2, <3>3
  <2>10. \A i \in 1..m + 1 : i = m + 1 \/ i \in 1..m
    OBVIOUS
  <2>11. w \in Vaults
    <3>1. w.counters \in [DOMAIN NameLength -> Nat]
      BY <2>1, <2>2, <2>6
    <3> QED BY <2>6, <2>8, <3>1 DEF Vaults
  <2>12. ASSUME NEW i \in 1..m
         PROVE  /\ v.tokens[i].token.n <= w.counters[v.tokens[i].token.cat]
                /\ v.tokens[i].token # pair.token /\ v.tokens[i].original # original
    <3>1. PICK t \in AllTokens : t = v.tokens[i].token
      BY <2>9
    <3>2. t.cat \in DOMAIN NameLength /\ t.n \in Nat
      BY DEF AllTokens, Token
    <3>3. t.n <= v.counters[t.cat]
      BY <2>8, <3>1 DEF Sound
    <3>4. t.n <= w.counters[t.cat] /\ (t.cat = cat => t.n < n)
      BY <2>1, <2>2, <2>6, <3>2, <3>3
    <3>5. t # pair.token
      BY <2>2, <2>5, <3>2, <3>4
    <3>6. v.tokens[i].original # original
      BY <1>2, <2>8 DEF HasOriginal, ToSet
    <3> QED BY <3>1, <3>4, <3>5, <3>6
  <2>13. pair.token.n <= w.counters[pair.token.cat]
    BY <2>1, <2>2, <2>5, <2>6
  <2>14. Sound(w)
    <3>1. ASSUME NEW i \in 1..m + 1
          PROVE  w.tokens[i].token.n <= w.counters[w.tokens[i].token.cat]
      BY <2>8, <2>10, <2>12, <2>13
    <3>2. ASSUME NEW i \in 1..m + 1, NEW j \in 1..m + 1, i # j
          PROVE  w.tokens[i].token # w.tokens[j].token /\ w.tokens[i].original # w.tokens[j].original
      <4>1. CASE i \in 1..m /\ j \in 1..m
        BY <2>8, <3>2, <4>1 DEF Sound
      <4>2. CASE i \in 1..m /\ j = m + 1
        BY <2>4, <2>8, <2>12, <4>2
      <4>3. CASE i = m + 1 /\ j \in 1..m
        BY <2>4, <2>8, <2>12, <4>3
      <4> QED BY <2>10, <3>2, <4>1, <4>2, <4>3
    <3> QED BY <2>8, <2>11, <3>1, <3>2 DEF Sound
  <2>15. VaultGrown(v, w)
    <3>1. \A i \in DOMAIN v.tokens : i \in DOMAIN w.tokens /\ w.tokens[i] = v.tokens[i]
      BY <2>8
    <3> QED BY <3>1 DEF VaultGrown, Stands
  <2>16. HasOriginal(w, original)
    <3>1. m + 1 \in DOMAIN w.tokens
      BY <2>8
    <3> QED BY <2>4, <2>8, <3>1 DEF HasOriginal, ToSet
  <2>17. PlainVault(v) /\ Plain(original) => PlainVault(w)
    BY <2>4, <2>8, <2>10 DEF PlainVault
  <2> QED BY <2>14, <2>15, <2>16, <2>17 DEF w
<1> QED BY <1>1, <1>2

(* A slice of a text, and of two that meet. *)
LEMMA SliceIs ==
  ASSUME NEW A, NEW text \in Seq(A), NEW a \in 1..Len(text) + 1, NEW b \in a..Len(text) + 1
  PROVE  /\ Slice(text, a, b) \in Seq(A) /\ Len(Slice(text, a, b)) = b - a
         /\ DOMAIN Slice(text, a, b) = 1..b - a
         /\ \A i \in 1..b - a : Slice(text, a, b)[i] = text[a + i - 1] /\ a + i - 1 \in DOMAIN text
         /\ Plain(text) => Plain(Slice(text, a, b))
<1>1. PICK n \in Nat : n = Len(text) /\ DOMAIN text = 1..n /\ a \in 1..n + 1 /\ b \in a..n + 1
  OBVIOUS
<1>2. PICK s : s = Slice(text, a, b)
  OBVIOUS
<1>3. s = SubSeq(text, a, b - 1)
  BY <1>2 DEF Slice
<1>4. s \in Seq(A) /\ Len(s) = b - a /\ \A i \in 1..b - a : s[i] = text[a + i - 1]
  <2>1. CASE a = b
    <3>1. s = <<>>
      BY <1>1, <1>3, <2>1, SubSeqProperties
    <3> QED BY <1>1, <2>1, <3>1
  <2>2. CASE a < b
    <3>1. a \in 1..n /\ b - 1 \in a..n
      BY <1>1, <2>2
    <3>2. Len(s) = (b - 1) - a + 1 /\ s \in Seq(A)
          /\ \A i \in 1..(b - 1) - a + 1 : s[i] = text[a + i - 1]
      BY <1>1, <1>3, <3>1, SubSeqProperties
    <3> QED BY <1>1, <3>2
  <2> QED BY <1>1, <2>1, <2>2
<1>5. DOMAIN s = 1..b - a /\ \A i \in 1..b - a : a + i - 1 \in DOMAIN text
  BY <1>1, <1>4
<1>6. Plain(text) => Plain(s)
  BY <1>4, <1>5 DEF Plain
<1> QED BY <1>2, <1>4, <1>5, <1>6

LEMMA SliceJoin ==
  ASSUME NEW A, NEW text \in Seq(A), NEW a \in 1..Len(text) + 1, NEW b \in a..Len(text) + 1,
         NEW c \in b..Len(text) + 1
  PROVE  Slice(text, a, b) \o Slice(text, b, c) = Slice(text, a, c)
<1>1. PICK n \in Nat : n = Len(text) /\ a \in 1..n + 1 /\ b \in a..n + 1 /\ c \in b..n + 1
  OBVIOUS
<1>2. /\ b \in 1..Len(text) + 1 /\ c \in a..Len(text) + 1
  BY <1>1
<1>3. PICK s \in Seq(A) : /\ s = Slice(text, a, b)
                          /\ Len(s) = b - a /\ \A i \in 1..b - a : s[i] = text[a + i - 1]
  BY SliceIs
<1>4. PICK t \in Seq(A) : /\ t = Slice(text, b, c)
                          /\ Len(t) = c - b /\ \A i \in 1..c - b : t[i] = text[b + i - 1]
  BY <1>2, SliceIs
<1>5. PICK u \in Seq(A) : /\ u = Slice(text, a, c)
                          /\ Len(u) = c - a /\ \A i \in 1..c - a : u[i] = text[a + i - 1]
  BY <1>2, SliceIs
<1>6. s \o t \in Seq(A)
  BY ConcatProperties
<1>7. PICK w \in Seq(A) : w = s \o t
  BY <1>6
<1>8. Len(w) = c - a
  BY <1>1, <1>3, <1>4, <1>7
<1>9. ASSUME NEW i \in 1..c - a PROVE w[i] = u[i]
  <2>1. CASE i <= b - a
    <3>1. i \in 1..b - a
      BY <1>1, <2>1
    <3>2. i \in 1..Len(s)
      BY <1>3, <3>1
    <3>3. w[i] = s[i]
      BY <1>7, <3>2
    <3> QED BY <1>3, <1>5, <3>1, <3>3
  <2>2. CASE i > b - a
    <3>1. PICK j \in 1..c - b : j = i - (b - a) /\ b + j - 1 = a + i - 1
      <4>1. i - (b - a) \in 1..c - b /\ b + (i - (b - a)) - 1 = a + i - 1
        BY <1>1, <2>2
      <4> QED BY <4>1
    <3>2. i \in 1..Len(s) + Len(t) /\ ~ (i <= Len(s)) /\ i - Len(s) = j
      <4>1. Len(s) = b - a /\ Len(t) = c - b
        BY <1>3, <1>4
      <4>2. b - a \in Nat /\ c - b \in Nat /\ (b - a) + (c - b) = c - a
        BY <1>1
      <4> QED BY <2>2, <3>1, <4>1, <4>2
    <3>3. w[i] = t[i - Len(s)]
      BY <1>7, <3>2, ConcatProperties
    <3> QED BY <1>4, <1>5, <3>1, <3>2, <3>3
  <2> QED BY <1>1, <2>1, <2>2
<1>10. w = u
  BY <1>5, <1>7, <1>8, <1>9, SeqEqual
<1> QED BY <1>3, <1>4, <1>5, <1>7, <1>10

(* What a mask leaves of a text is a text. *)
LEMMA MaskTyped ==
  ASSUME NEW text \in VaultTexts
  PROVE  PartialMask(text) \in VaultTexts /\ FormatPreservingMask(text) \in VaultTexts
<1> DEFINE A == Letters \cup AllTokens \cup Marks
<1>1. text \in Seq(A)
  BY DEF VaultTexts
<1>2. PICK n \in Nat : n = Len(text) /\ DOMAIN text = 1..n
  BY <1>1
<1>3. Marks \subseteq A
  OBVIOUS
<1> HIDE DEF A
<1>4. PartialMask(text) \in Seq(A)
  <2>1. PICK k \in Nat : k = Reveal(n) /\ k <= n
    BY <1>2 DEF Reveal, Smaller
  <2>2. SubSeq(text, 1, k) \in Seq(A) /\ SubSeq(text, n - k + 1, n) \in Seq(A)
    <3>1. n - k + 1 \in Int
      BY <2>1
    <3>2. \A i \in 1..k : text[i] \in A
      BY <1>1, <1>2, <2>1
    <3>3. \A i \in n - k + 1..n : text[i] \in A
      BY <1>1, <1>2, <2>1
    <3> QED BY <1>1, <1>2, <2>1, <3>1, <3>2, <3>3, SubSeqProperties
  <2>3. Stars \in Seq(A)
    <3>1. Char("***", "other") \in A
      BY <1>3 DEF Marks
    <3> QED BY <3>1 DEF Stars
  <2>4. SubSeq(text, 1, k) \o Stars \in Seq(A)
    BY <2>2, <2>3, ConcatProperties
  <2>5. SubSeq(text, 1, k) \o Stars \o SubSeq(text, n - k + 1, n) \in Seq(A)
    BY <2>2, <2>4, ConcatProperties
  <2> QED BY <1>2, <2>1, <2>5 DEF PartialMask
<1>5. FormatPreservingMask(text) \in Seq(A)
  <2>1. ASSUME NEW i \in 1..n PROVE Preserved(text[i]) \in A
    <3>1. text[i] \in A
      BY <1>1, <1>2
    <3> QED BY <1>3, <3>1 DEF Preserved, Marks
  <2> QED BY <1>2, <2>1 DEF FormatPreservingMask
<1> QED BY <1>4, <1>5 DEF VaultTexts, A

AllDets == UNION {ToSet(c.dets) : c \in FirstTexts \cup LaterTexts}
AllPieces == [start : Nat, end : Nat, how : {"raw", "allow"} \cup {d.style : d \in AllDets},
              out : VaultTexts]

(* A piece shows its part of the text, or the vault holds that part; the     *)
(* pieces follow one another from the beginning of the text.                 *)
PieceOk(text, v, p) ==
    LET original == Slice(text, p.start, p.end)
    IN  /\ 1 <= p.start /\ p.start < p.end /\ p.end <= Len(text) + 1
        /\ p.how \in {"raw", "allow"} => p.out = original
        /\ p.how \notin {"raw", "allow"} =>
               \E token \in AllTokens :
                   /\ Stands(v, original, token)
                   /\ p.how \notin {"partial", "format_preserving"} => p.out = <<token>>
Laid(text, v, pieces) ==
    /\ pieces \in Seq(AllPieces)
    /\ \A k \in DOMAIN pieces : PieceOk(text, v, pieces[k])
    /\ pieces # <<>> => pieces[1].start = 1
    /\ \A k \in 1..Len(pieces) - 1 : pieces[k].end = pieces[k + 1].start

(* What was laid stays so while the vault grows. *)
LEMMA LaidGrown ==
  ASSUME NEW text, NEW v, NEW w, VaultGrown(v, w), NEW pieces, Laid(text, v, pieces)
  PROVE  Laid(text, w, pieces)
<1>1. ASSUME NEW p, PieceOk(text, v, p) PROVE PieceOk(text, w, p)
  <2>1. \A original, token : Stands(v, original, token) => Stands(w, original, token)
    BY DEF VaultGrown
  <2> QED BY <1>1, <2>1 DEF PieceOk
<1> QED BY <1>1 DEF Laid

(* The pieces end within the text. *)
LEMMA LaidCursor ==
  ASSUME NEW A, NEW text \in Seq(A), NEW v, NEW pieces, Laid(text, v, pieces)
  PROVE  Cursor(pieces) \in 1..Len(text) + 1
<1>1. pieces \in Seq(AllPieces) /\ Len(text) \in Nat
  BY DEF Laid
<1>2. CASE pieces = <<>>
  BY <1>1, <1>2 DEF Cursor
<1>3. CASE pieces # <<>>
  <2>1. PICK n \in Nat : n = Len(pieces) /\ n \in DOMAIN pieces
    BY <1>1, <1>3
  <2>2. PICK p \in AllPieces : p = pieces[n]
    BY <1>1, <2>1
  <2>3. Cursor(pieces) = p.end
    BY <1>3, <2>1, <2>2 DEF Cursor, Last
  <2>4. 1 <= p.start /\ p.start < p.end /\ p.end <= Len(text) + 1
    BY <2>1, <2>2 DEF Laid, PieceOk
  <2>5. p.start \in Nat /\ p.end \in Nat
    BY DEF AllPieces
  <2> QED BY <1>1, <2>3, <2>4, <2>5
<1> QED BY <1>2, <1>3

(* One piece more. *)
Adds(s, a, t) ==
    \A q : (\E k \in DOMAIN t : t[k] = q) <=> (q = a \/ \E k \in DOMAIN s : s[k] = q)
LaidOn(text, v, pieces, p, more) ==
    /\ Laid(text, v, more) /\ Cursor(more) = p.end
    /\ more # <<>> /\ Last(more) = p
    /\ Adds(pieces, p, more)

LEMMA LaidMore ==
  ASSUME NEW text, NEW v, NEW pieces, Laid(text, v, pieces),
         NEW p \in AllPieces, PieceOk(text, v, p), p.start = Cursor(pieces),
         NEW more, more = pieces \o <<p>>
  PROVE  LaidOn(text, v, pieces, p, more)
<1>1. PICK n \in Nat : n = Len(pieces)
  BY DEF Laid
<1>2. pieces \in Seq(AllPieces)
  BY DEF Laid
<1>4. /\ more \in Seq(AllPieces) /\ Len(more) = n + 1
      /\ DOMAIN more = 1..n + 1 /\ DOMAIN pieces = 1..n
      /\ \A k \in 1..n : more[k] = pieces[k]
      /\ more[n + 1] = p
  BY <1>1, <1>2, OneMore
<1>5. \A k \in 1..n + 1 : k \in 1..n \/ k = n + 1
  OBVIOUS
<1>6. more # <<>> /\ Last(more) = p /\ Cursor(more) = p.end
  <2>1. more # <<>>
    BY <1>4
  <2>2. Last(more) = p
    BY <1>4 DEF Last
  <2> QED BY <2>1, <2>2 DEF Cursor
<1>7. \A k \in 1..n + 1 : PieceOk(text, v, more[k])
  BY <1>4, <1>5 DEF Laid
<1>8. more[1].start = 1
  <2>1. CASE n = 0
    BY <1>1, <1>2, <1>4, <2>1 DEF Cursor
  <2>2. CASE n # 0
    BY <1>1, <1>2, <1>4, <2>2 DEF Laid
  <2> QED BY <2>1, <2>2
<1>9. ASSUME NEW k \in 1..n PROVE more[k].end = more[k + 1].start
  <2>1. CASE k = n
    <3>1. pieces # <<>>
      BY <1>1, <1>2
    <3>2. p.start = pieces[n].end
      BY <1>1, <3>1 DEF Cursor, Last
    <3> QED BY <1>4, <2>1, <3>2
  <2>2. CASE k # n
    <3>1. k \in 1..n - 1 /\ k + 1 \in 1..n
      BY <2>2
    <3> QED BY <1>1, <1>4, <3>1 DEF Laid
  <2> QED BY <2>1, <2>2
<1>10. Laid(text, v, more)
  BY <1>4, <1>7, <1>8, <1>9 DEF Laid
<1>11. \A q : (\E k \in DOMAIN more : more[k] = q)
              <=> (q = p \/ \E k \in DOMAIN pieces : pieces[k] = q)
  <2> SUFFICES ASSUME NEW q PROVE (\E k \in 1..n + 1 : more[k] = q) <=> (q = p \/ \E k \in 1..n : pieces[k] = q)
    BY <1>4
  <2>1. n + 1 \in 1..n + 1 /\ \A k \in 1..n : k \in 1..n + 1
    OBVIOUS
  <2> QED BY <1>4, <1>5, <2>1
<1> QED BY <1>6, <1>10, <1>11 DEF Adds, LaidOn

(* The raw text up to a place, also when there is none. *)
LaidUpTo(text, v, pieces, b, more) ==
    /\ Laid(text, v, more) /\ Cursor(more) = b
    /\ \A k \in DOMAIN pieces : \E l \in DOMAIN more : more[l] = pieces[k]
    /\ \A l \in DOMAIN more :
           more[l].how = "raw" \/ \E k \in DOMAIN pieces : more[l] = pieces[k]

LEMMA LaidRaw ==
  ASSUME NEW text \in Seq(Letters), NEW v, NEW pieces, Laid(text, v, pieces),
         NEW b \in Cursor(pieces)..Len(text) + 1,
         NEW more, more = pieces \o Raw(text, Cursor(pieces), b)
  PROVE  LaidUpTo(text, v, pieces, b, more)
<1>1. PICK a \in 1..Len(text) + 1 : a = Cursor(pieces)
  BY LaidCursor
<1>2. pieces \in Seq(AllPieces) /\ Len(text) \in Nat /\ b \in a..Len(text) + 1
  BY <1>1 DEF Laid
<1>3. CASE a = b
  <2>1. more = pieces
    BY <1>1, <1>2, <1>3 DEF Raw
  <2> QED BY <1>1, <1>3, <2>1 DEF LaidUpTo
<1>4. CASE a # b
  <2>1. a < b
    BY <1>2, <1>4
  <2>2. PICK p : p = [start |-> a, end |-> b, how |-> "raw", out |-> Slice(text, a, b)]
    OBVIOUS
  <2>3. Raw(text, Cursor(pieces), b) = <<p>>
    BY <1>1, <2>1, <2>2 DEF Raw
  <2>4. Slice(text, a, b) \in Seq(Letters)
    BY <1>2, SliceIs
  <2>5. Slice(text, a, b) \in VaultTexts
    BY <2>4 DEF VaultTexts
  <2>6. p \in AllPieces /\ p.how = "raw" /\ p.start = a /\ p.end = b
    BY <1>2, <2>2, <2>5 DEF AllPieces
  <2>7. PieceOk(text, v, p)
    BY <1>2, <2>1, <2>2 DEF PieceOk
  <2>8. more = pieces \o <<p>>
    BY <2>3
  <2>9. /\ Laid(text, v, more) /\ Cursor(more) = b
        /\ Adds(pieces, p, more)
    <3>1. p.start = Cursor(pieces)
      BY <1>1, <2>6
    <3>2. p \in AllPieces /\ Laid(text, v, pieces)
      BY <2>6
    <3>3. LaidOn(text, v, pieces, p, more)
      BY <2>7, <2>8, <3>1, <3>2, LaidMore, Zenon
    <3> QED BY <2>6, <3>3 DEF LaidOn
  <2>10. \A l \in DOMAIN more : more[l].how = "raw" \/ \E k \in DOMAIN pieces : more[l] = pieces[k]
    BY <2>6, <2>9 DEF Adds
  <2>11. \A k \in DOMAIN pieces : \E l \in DOMAIN more : more[l] = pieces[k]
    BY <2>9 DEF Adds
  <2> QED BY <2>9, <2>10, <2>11 DEF LaidUpTo
<1> QED BY <1>3, <1>4

(* A detection of the text. *)
DetOk(text, d) ==
    /\ d \in AllDets /\ d.cat \in DOMAIN NameLength /\ d.style \notin {"raw", "allow"}
    /\ d.start \in 1..Len(text) + 1 /\ d.end \in 1..Len(text) + 1

(* What the loop has after i of the detections: each is there as a piece, or *)
(* begins within one that is.                                                *)
Accounted(pieces, d) ==
    d.start < d.end => \E k \in DOMAIN pieces : pieces[k].how # "raw" /\ Covers(pieces[k], d.start)
MaskedUpTo(text, v, order, i, acc) ==
    /\ Sound(acc.vault) /\ VaultGrown(v, acc.vault)
    /\ PlainVault(v) /\ Plain(text) => PlainVault(acc.vault)
    /\ Laid(text, acc.vault, acc.pieces)
    /\ acc.pieces # <<>> => Last(acc.pieces).how # "raw"
    /\ \A k \in DOMAIN acc.pieces :
           acc.pieces[k].how # "raw" => \E j \in 1..i : acc.pieces[k].start = order[j].start
    /\ \A j \in 1..i : Accounted(acc.pieces, order[j])

(* apply_mask_style gives a text; its token if it is to be restored. *)
LEMMA StyleTyped ==
  ASSUME NEW v, Sound(v), NEW original \in VaultTexts, HasOriginal(v, original), NEW style
  PROVE  /\ TokenFor(v, original) \in AllTokens
         /\ ApplyMaskStyle(v, original, style) \in VaultTexts
         /\ style \notin {"partial", "format_preserving"} =>
                ApplyMaskStyle(v, original, style) = <<TokenFor(v, original)>>
<1>1. PICK t : t = TokenFor(v, original)
  OBVIOUS
<1>2. t \in AllTokens
  <2>1. PICK i \in DOMAIN v.tokens : v.tokens[i].token = t
    BY <1>1, TokenStands DEF Stands
  <2>2. v.tokens \in Seq([token : AllTokens, original : VaultTexts])
    BY DEF Sound, Vaults
  <2>3. PICK A : A = [token : AllTokens, original : VaultTexts]
    OBVIOUS
  <2>4. PICK s \in Seq(A) : s = v.tokens
    BY <2>2, <2>3
  <2>5. i \in DOMAIN s /\ s[i] = v.tokens[i]
    BY <2>4
  <2>6. s[i] \in A
    BY <2>5
  <2> QED BY <2>1, <2>3, <2>5, <2>6
<1>3. <<t>> \in VaultTexts
  BY <1>2 DEF VaultTexts
<1>4. PartialMask(original) \in VaultTexts /\ FormatPreservingMask(original) \in VaultTexts
  BY MaskTyped
<1> QED BY <1>1, <1>2, <1>3, <1>4 DEF ApplyMaskStyle

(* A detection that meets none of the pieces begins where they end or later. *)
LEMMA AfterPieces ==
  ASSUME NEW text \in Seq(Letters), NEW v, NEW pieces, Laid(text, v, pieces),
         pieces # <<>> => Last(pieces).how # "raw",
         NEW d, DetOk(text, d), d.start < d.end, ~ Clashes(pieces, d),
         \A k \in DOMAIN pieces : pieces[k].how # "raw" => pieces[k].start <= d.start
  PROVE  Cursor(pieces) <= d.start
<1>1. pieces \in Seq(AllPieces)
  BY DEF Laid
<1>2. CASE pieces = <<>>
  BY <1>2 DEF Cursor, DetOk
<1>3. CASE pieces # <<>>
  <2>1. PICK n \in Nat : n = Len(pieces) /\ n \in DOMAIN pieces
    BY <1>1, <1>3
  <2>2. PICK p \in AllPieces : p = pieces[n]
    BY <1>1, <2>1
  <2>3. Cursor(pieces) = p.end /\ p.how # "raw"
    BY <1>3, <2>1, <2>2 DEF Cursor, Last
  <2>4. p.start <= d.start
    BY <2>1, <2>2, <2>3
  <2>5. ~ (p.end > d.start /\ p.start < d.end)
    BY <2>1, <2>2, <2>3 DEF Clashes
  <2>6. p.start \in Nat /\ p.end \in Nat /\ d.start \in Nat /\ d.end \in Nat
    BY DEF AllPieces, DetOk
  <2> QED BY <2>3, <2>4, <2>5, <2>6
<1> QED BY <1>2, <1>3

(* One detection more. *)
LEMMA MaskOneKeeps ==
  ASSUME NEW text \in Seq(Letters), NEW v, NEW n \in Nat, NEW order \in [1..n -> AllDets],
         \A j \in 1..n : DetOk(text, order[j]),
         \A j, k \in 1..n : j < k => order[j].start <= order[k].start,
         NEW i \in 1..n, NEW acc \in [vault : Vaults, pieces : Seq(AllPieces)],
         MaskedUpTo(text, v, order, i - 1, acc)
  PROVE  /\ MaskOne(text, acc, order[i]) \in [vault : Vaults, pieces : Seq(AllPieces)]
         /\ MaskedUpTo(text, v, order, i, MaskOne(text, acc, order[i]))
<1>1. PICK d \in AllDets : d = order[i] /\ DetOk(text, d)
  OBVIOUS
<1>2. d.start \in Nat /\ d.end \in Nat
  BY <1>1 DEF DetOk
<1>3. \A j \in 1..i : j = i \/ j \in 1..i - 1
  OBVIOUS
<1>4. \A j \in 1..i - 1 : j \in 1..i
  OBVIOUS
<1>5. PICK pieces \in Seq(AllPieces), u \in Vaults : pieces = acc.pieces /\ u = acc.vault
  OBVIOUS
<1>6. \A k \in DOMAIN pieces : pieces[k] \in AllPieces
  BY <1>5
<1>7. \A k \in DOMAIN pieces : pieces[k].how # "raw" => pieces[k].start <= d.start
  <2> SUFFICES ASSUME NEW k \in DOMAIN pieces, pieces[k].how # "raw"
               PROVE  pieces[k].start <= d.start
    OBVIOUS
  <2>1. PICK j \in 1..i - 1 : pieces[k].start = order[j].start
    BY <1>5 DEF MaskedUpTo
  <2>2. j \in 1..n /\ i \in 1..n /\ j < i
    OBVIOUS
  <2>3. order[j].start <= order[i].start
    BY <2>2
  <2> QED BY <1>1, <2>1, <2>3
<1>8. CASE d.end <= d.start \/ Clashes(pieces, d)
  <2>1. MaskOne(text, acc, d) = acc
    BY <1>5, <1>8 DEF MaskOne
  <2>2. Accounted(pieces, d)
    <3> SUFFICES ASSUME d.start < d.end
                 PROVE  \E k \in DOMAIN pieces : pieces[k].how # "raw" /\ Covers(pieces[k], d.start)
      BY DEF Accounted
    <3>1. PICK k \in DOMAIN pieces : /\ pieces[k].how # "raw"
                                    /\ pieces[k].end > d.start /\ pieces[k].start < d.end
      BY <1>2, <1>8 DEF Clashes
    <3>2. pieces[k].start <= d.start
      BY <1>7, <3>1
    <3>3. pieces[k].end \in Nat
      BY <1>6 DEF AllPieces
    <3> QED BY <1>2, <3>1, <3>2, <3>3 DEF Covers
  <2>3. \A j \in 1..i : Accounted(pieces, order[j])
    BY <1>1, <1>3, <1>5, <2>2 DEF MaskedUpTo
  <2>4. \A k \in DOMAIN pieces :
            pieces[k].how # "raw" => \E j \in 1..i : pieces[k].start = order[j].start
    BY <1>4, <1>5 DEF MaskedUpTo
  <2> QED BY <1>1, <1>5, <2>1, <2>3, <2>4 DEF MaskedUpTo
<1>9. CASE ~ (d.end <= d.start \/ Clashes(pieces, d))
  <2> DEFINE original == Slice(text, d.start, d.end)
             w == IF d.action = "allow" THEN u ELSE AssignToken(u, original, d.cat, d.action = "block")
             p == [start |-> d.start, end |-> d.end,
                   how |-> IF d.action = "allow" THEN "allow" ELSE d.style,
                   out |-> IF d.action = "allow" THEN original ELSE ApplyMaskStyle(w, original, d.style)]
             more == pieces \o Raw(text, Cursor(pieces), d.start)
             all == more \o <<p>>
  <2>1. MaskOne(text, acc, d) = [vault |-> w, pieces |-> all]
    BY <1>5, <1>9 DEF MaskOne
  <2>2. d.start < d.end /\ ~ Clashes(pieces, d)
    BY <1>2, <1>9
  <2>3. original \in VaultTexts /\ (Plain(text) => Plain(original))
    <3>1. d.start \in 1..Len(text) + 1 /\ d.end \in d.start..Len(text) + 1
      BY <1>1, <1>2, <2>2 DEF DetOk
    <3>2. original \in Seq(Letters) /\ (Plain(text) => Plain(original))
      BY <3>1, SliceIs
    <3> QED BY <3>2 DEF VaultTexts
  <2> HIDE DEF original
  <2>4. Sound(u) /\ VaultGrown(v, u) /\ (PlainVault(v) /\ Plain(text) => PlainVault(u))
        /\ Laid(text, u, pieces) /\ (pieces # <<>> => Last(pieces).how # "raw")
    BY <1>5 DEF MaskedUpTo
  <2>5. /\ Sound(w) /\ VaultGrown(u, w)
        /\ d.action # "allow" => HasOriginal(w, original)
        /\ PlainVault(u) /\ Plain(original) => PlainVault(w)
    <3>1. CASE d.action = "allow"
      BY <2>4, <3>1 DEF VaultGrown
    <3>2. CASE d.action # "allow"
      <4>1. d.cat \in DOMAIN NameLength /\ (d.action = "block") \in BOOLEAN
        BY <1>1 DEF DetOk
      <4>2. w = AssignToken(u, original, d.cat, d.action = "block")
        BY <3>2
      <4> HIDE DEF w
      <4> QED BY <2>3, <2>4, <4>1, <4>2, AssignSound
    <3> QED BY <3>1, <3>2
  <2> HIDE DEF w
  <2>6. p \in AllPieces /\ PieceOk(text, w, p) /\ p.start = d.start /\ p.end = d.end /\ p.how # "raw"
    <3>1. 1 <= d.start /\ d.end <= Len(text) + 1 /\ d.style \notin {"raw", "allow"}
      BY <1>1 DEF DetOk
    <3>2. CASE d.action = "allow"
      <4>1. p.start = d.start /\ p.end = d.end /\ p.how = "allow" /\ p.out = original
        BY <3>2
      <4>2. p \in AllPieces
        BY <1>2, <2>3, <3>2 DEF AllPieces
      <4>3. PieceOk(text, w, p)
        <5> HIDE DEF p
        <5> QED BY <2>2, <3>1, <4>1 DEF PieceOk, original
      <4> QED BY <4>1, <4>2, <4>3
    <3>3. CASE d.action # "allow"
      <4>1. PICK t \in AllTokens : t = TokenFor(w, original)
        BY <2>3, <2>5, <3>3, StyleTyped
      <4>2. /\ ApplyMaskStyle(w, original, d.style) \in VaultTexts
            /\ d.style \notin {"partial", "format_preserving"} =>
                   ApplyMaskStyle(w, original, d.style) = <<t>>
        BY <2>3, <2>5, <3>3, <4>1, StyleTyped
      <4>3. Stands(w, original, t)
        BY <2>5, <3>3, <4>1, TokenStands
      <4>4. /\ p.start = d.start /\ p.end = d.end /\ p.how = d.style
            /\ p.out = ApplyMaskStyle(w, original, d.style)
        BY <3>3
      <4>5. p \in AllPieces
        BY <1>2, <3>3, <4>2 DEF AllPieces
      <4>6. PieceOk(text, w, p)
        <5> HIDE DEF p
        <5> QED BY <2>2, <3>1, <4>2, <4>3, <4>4 DEF PieceOk, original
      <4> QED BY <3>1, <4>4, <4>5, <4>6
    <3> QED BY <3>2, <3>3
  <2> HIDE DEF p
  <2>7. Laid(text, w, pieces)
    BY <2>4, <2>5, LaidGrown
  <2>8. d.start \in Cursor(pieces)..Len(text) + 1
    <3>1. Cursor(pieces) <= d.start
      BY <1>1, <1>7, <2>2, <2>4, AfterPieces
    <3>2. Cursor(pieces) \in Nat
      <4>1. Cursor(pieces) \in 1..Len(text) + 1
        BY <2>7, LaidCursor
      <4> QED BY <4>1
    <3> QED BY <1>1, <3>1, <3>2 DEF DetOk
  <2>9. /\ Laid(text, w, more) /\ Cursor(more) = d.start
        /\ \A k \in DOMAIN pieces : \E l \in DOMAIN more : more[l] = pieces[k]
        /\ \A l \in DOMAIN more : more[l].how = "raw" \/ \E k \in DOMAIN pieces : more[l] = pieces[k]
    <3>1. LaidUpTo(text, w, pieces, d.start, more)
      BY <2>7, <2>8, LaidRaw, Zenon
    <3> HIDE DEF more
    <3> QED BY <3>1 DEF LaidUpTo
  <2> HIDE DEF more
  <2>10. LaidOn(text, w, more, p, all)
    <3>1. p.start = Cursor(more)
      BY <2>6, <2>9
    <3>2. PICK m : m = all
      OBVIOUS
    <3>3. LaidOn(text, w, more, p, m)
      <4>1. m = more \o <<p>>
        BY <3>2
      <4>2. p \in AllPieces /\ PieceOk(text, w, p) /\ Laid(text, w, more)
        BY <2>6, <2>9
      <4> HIDE DEF all
      <4> QED BY <3>1, <4>1, <4>2, LaidMore, Zenon
    <3> QED BY <3>2, <3>3
  <2> HIDE DEF all
  <2>11. /\ Laid(text, w, all) /\ all # <<>> /\ Last(all) = p
         /\ \A q : (\E k \in DOMAIN all : all[k] = q) <=> (q = p \/ \E k \in DOMAIN more : more[k] = q)
    BY <2>10 DEF LaidOn, Adds
  <2>12. ASSUME NEW k \in DOMAIN all, all[k].how # "raw"
         PROVE  \E j \in 1..i : all[k].start = order[j].start
    <3>1. all[k] = p \/ \E l \in DOMAIN more : more[l] = all[k]
      BY <2>11
    <3>2. CASE all[k] = p
      <4>1. i \in 1..i
        OBVIOUS
      <4> QED BY <1>1, <2>6, <3>2, <4>1
    <3>3. CASE \E l \in DOMAIN more : more[l] = all[k]
      <4>1. PICK l \in DOMAIN pieces : pieces[l] = all[k]
        BY <2>9, <2>12, <3>3
      <4>2. PICK j \in 1..i - 1 : pieces[l].start = order[j].start
        BY <1>5, <2>12, <4>1 DEF MaskedUpTo
      <4> QED BY <1>4, <4>1, <4>2
    <3> QED BY <3>1, <3>2, <3>3
  <2>13. ASSUME NEW j \in 1..i PROVE Accounted(all, order[j])
    <3>1. CASE j = i
      <4>1. PICK k \in DOMAIN all : all[k] = p
        BY <2>11
      <4>2. Covers(p, d.start)
        BY <1>2, <2>2, <2>6 DEF Covers
      <4> QED BY <1>1, <2>6, <3>1, <4>1, <4>2 DEF Accounted
    <3>2. CASE j \in 1..i - 1
      <4>1. PICK e : e = order[j] /\ Accounted(pieces, e)
        BY <1>5, <3>2 DEF MaskedUpTo
      <4>2. ASSUME NEW k \in DOMAIN pieces PROVE \E l \in DOMAIN all : all[l] = pieces[k]
        <5>1. PICK l \in DOMAIN more : more[l] = pieces[k]
          BY <2>9
        <5> QED BY <2>11, <5>1
      <4> QED BY <4>1, <4>2 DEF Accounted
    <3> QED BY <1>3, <3>1, <3>2
  <2>14. VaultGrown(v, w) /\ (PlainVault(v) /\ Plain(text) => PlainVault(w))
    BY <2>3, <2>4, <2>5 DEF VaultGrown
  <2>15. w \in Vaults /\ all \in Seq(AllPieces)
    BY <2>5, <2>11 DEF Sound, Laid
  <2>16. PICK to : to = MaskOne(text, acc, d) /\ to.vault = w /\ to.pieces = all
                   /\ to \in [vault : Vaults, pieces : Seq(AllPieces)]
    BY <2>1, <2>15
  <2>17. MaskedUpTo(text, v, order, i, to)
    BY <2>5, <2>6, <2>11, <2>12, <2>13, <2>14, <2>16 DEF MaskedUpTo
  <2> QED BY <1>1, <2>16, <2>17
<1> QED BY <1>8, <1>9

(* mask_payload_with_vault: the pieces are the whole text, and account for    *)
(* each detection.                                                            *)
PayloadOk(text, given, v, end) ==
    /\ Sound(end.vault) /\ VaultGrown(v, end.vault)
    /\ PlainVault(v) /\ Plain(text) => PlainVault(end.vault)
    /\ Laid(text, end.vault, end.pieces) /\ Cursor(end.pieces) = Len(text) + 1
    /\ \A i \in DOMAIN given : Accounted(end.pieces, given[i])

LEMMA PayloadMasked ==
  ASSUME NEW text \in Seq(Letters), NEW given \in Seq(AllDets),
         \A i \in DOMAIN given : DetOk(text, given[i]),
         NEW v, Sound(v)
  PROVE  PayloadOk(text, given, v, MaskPayload(text, given, v))
<1> DEFINE Acc == [vault : Vaults, pieces : Seq(AllPieces)]
           base == [vault |-> v, pieces |-> <<>>]
           o == ByStart(given)
<1>1. PICK n \in Nat : n = Len(given) /\ DOMAIN given = 1..n
  OBVIOUS
<1>2. /\ o \in [1..n -> AllDets] /\ Len(o) = n
      /\ \A j \in 1..n : DetOk(text, o[j])
      /\ \A j, k \in 1..n : j < k => o[j].start <= o[k].start
      /\ \A i \in 1..n : \E k \in 1..n : o[k] = given[i]
  <2> DEFINE key == [i \in DOMAIN given |-> given[i].start]
  <2>1. key \in [DOMAIN given -> Int]
    BY DEF DetOk
  <2>2. o = InOrder(given, key)
    BY DEF ByStart
  <2>3. \A i \in 1..n : key[i] = given[i].start
    BY <1>1
  <2> HIDE DEF key, o
  <2>4. /\ o \in [1..n -> AllDets]
        /\ \A i \in 1..n : \E k \in 1..n : o[k] = given[i]
        /\ \E at \in [1..n -> 1..n] :
               /\ \A k \in 1..n : o[k] = given[at[k]]
               /\ \A j, k \in 1..n : j < k => key[at[j]] <= key[at[k]]
    <3>1. Ordered(o, given, key, AllDets)
      BY <2>1, <2>2, InOrderIs
    <3> QED BY <1>1, <3>1 DEF Ordered
  <2>5. PICK at \in [1..n -> 1..n] :
               /\ \A k \in 1..n : o[k] = given[at[k]]
               /\ \A j, k \in 1..n : j < k => key[at[j]] <= key[at[k]]
    BY <2>4
  <2>6. \A k \in 1..n : at[k] \in 1..n
    OBVIOUS
  <2>7. \A j \in 1..n : DetOk(text, o[j])
    BY <1>1, <2>5, <2>6
  <2>8. \A j, k \in 1..n : j < k => o[j].start <= o[k].start
    <3> SUFFICES ASSUME NEW j \in 1..n, NEW k \in 1..n, j < k PROVE o[j].start <= o[k].start
      OBVIOUS
    <3>1. key[at[j]] <= key[at[k]]
      BY <2>5
    <3>2. key[at[j]] = o[j].start /\ key[at[k]] = o[k].start
      BY <2>3, <2>5, <2>6
    <3> QED BY <3>1, <3>2
  <2>9. Len(o) = n
    BY <2>4
  <2> QED BY <2>4, <2>7, <2>8, <2>9
<1> HIDE DEF o
<1> DEFINE F(f) == [i \in 0..n |-> IF i = 0 THEN base ELSE MaskOne(text, f[i - 1], o[i])]
           masked == CHOOSE f : f = F(f)
           Ok(i, acc) == MaskedUpTo(text, v, o, i, acc)
           end == masked[n]
           step == [i \in 1..n |-> [acc \in Acc |-> IF Ok(i - 1, acc) THEN MaskOne(text, acc, o[i])
                                                    ELSE base]]
<1>3. base \in Acc /\ Ok(0, base)
  <2>1. base.vault = v /\ base.pieces = <<>> /\ base \in Acc
    BY DEF Sound
  <2>2. Laid(text, v, <<>>)
    BY DEF Laid
  <2> HIDE DEF base
  <2> QED BY <2>1, <2>2 DEF MaskedUpTo, VaultGrown
<1> HIDE DEF base
<1>4. ASSUME NEW i \in 1..n, NEW acc \in Acc, Ok(i - 1, acc)
      PROVE  MaskOne(text, acc, o[i]) \in Acc /\ Ok(i, MaskOne(text, acc, o[i]))
  BY <1>2, <1>4, MaskOneKeeps
<1> HIDE DEF Ok, Acc
<1>5. step \in [1..n -> [Acc -> Acc]]
  BY <1>3, <1>4
<1>6. PICK g : Follows(g, n, Acc, base, step)
  <2> HIDE DEF step
  <2> QED BY <1>3, <1>5, Recursion
<1>7. g \in [0..n -> Acc] /\ g[0] = base
  BY <1>6 DEF Follows
<1>8. ASSUME NEW i \in 1..n, Ok(i - 1, g[i - 1])
      PROVE  g[i] = MaskOne(text, g[i - 1], o[i]) /\ Ok(i, g[i])
  <2>1. PICK acc \in Acc : acc = g[i - 1]
    BY <1>7
  <2>2. g[i] = step[i][acc]
    BY <1>6, <2>1 DEF Follows
  <2>3. step[i][acc] = MaskOne(text, acc, o[i])
    BY <1>8, <2>1
  <2> QED BY <1>4, <1>8, <2>1, <2>2, <2>3
<1>9. \A i \in 0..n : Ok(i, g[i])
  <2> DEFINE T == {i \in 0..n : Ok(i, g[i])}
  <2>1. 0 \in T
    BY <1>3, <1>7
  <2>2. ASSUME NEW i \in 1..n, i - 1 \in T PROVE i \in T
    BY <1>8, <2>2
  <2>3. \A i \in 0..n : i \in T
    <3> HIDE DEF T
    <3> QED BY <2>1, <2>2, StepByStep
  <2> QED BY <2>3
<1>10. g = F(g)
  <2>1. \A i \in 0..n : g[i] = IF i = 0 THEN base ELSE MaskOne(text, g[i - 1], o[i])
    <3> SUFFICES ASSUME NEW i \in 0..n, i # 0 PROVE g[i] = MaskOne(text, g[i - 1], o[i])
      BY <1>7
    <3>1. i \in 1..n /\ i - 1 \in 0..n
      OBVIOUS
    <3> QED BY <1>8, <1>9, <3>1
  <2> QED BY <1>7, <2>1
<1>11. masked = F(masked)
  BY <1>10
<1>12. MaskPayload(text, given, v) =
           [vault |-> end.vault, pieces |-> end.pieces \o Raw(text, Cursor(end.pieces), Len(text) + 1)]
  BY <1>2 DEF MaskPayload, o, base
<1> HIDE DEF masked
<1>13. end \in Acc /\ Ok(n, end)
  <2> DEFINE T == {i \in 0..n : masked[i] \in Acc /\ Ok(i, masked[i])}
  <2>0. masked[0] = base /\ \A i \in 1..n : masked[i] = MaskOne(text, masked[i - 1], o[i])
    BY <1>11
  <2>1. 0 \in T
    BY <1>3, <2>0
  <2>2. ASSUME NEW i \in 1..n, i - 1 \in T PROVE i \in T
    BY <1>4, <2>0, <2>2
  <2>3. \A i \in 0..n : i \in T
    <3> HIDE DEF T
    <3> QED BY <2>1, <2>2, StepByStep
  <2> QED BY <2>3
<1> HIDE DEF end
<1>14. MaskedUpTo(text, v, o, n, end)
  BY <1>13 DEF Ok
<1>15. Len(text) + 1 \in Cursor(end.pieces)..Len(text) + 1
  <2>1. Cursor(end.pieces) \in 1..Len(text) + 1
    BY <1>14, LaidCursor DEF MaskedUpTo
  <2> QED BY <2>1
<1>16. PICK more : more = end.pieces \o Raw(text, Cursor(end.pieces), Len(text) + 1)
  OBVIOUS
<1>17. LaidUpTo(text, end.vault, end.pieces, Len(text) + 1, more)
  <2>1. Laid(text, end.vault, end.pieces)
    BY <1>14 DEF MaskedUpTo
  <2> QED BY <1>15, <1>16, <2>1, LaidRaw, Zenon
<1>18. \A i \in DOMAIN given : Accounted(more, given[i])
  <2> SUFFICES ASSUME NEW i \in 1..n PROVE Accounted(more, given[i])
    BY <1>1
  <2>1. PICK k \in 1..n : o[k] = given[i]
    BY <1>2
  <2>2. PICK d : d = given[i] /\ Accounted(end.pieces, d)
    BY <1>14, <2>1 DEF MaskedUpTo
  <2> QED BY <1>17, <2>2 DEF Accounted, LaidUpTo
<1>19. PICK all : all = MaskPayload(text, given, v) /\ all.vault = end.vault /\ all.pieces = more
  <2>1. PICK r : r = [vault |-> end.vault, pieces |-> more]
    OBVIOUS
  <2>2. r = MaskPayload(text, given, v)
    BY <1>12, <1>16, <2>1
  <2>3. r.vault = end.vault /\ r.pieces = more
    BY <2>1
  <2> QED BY <2>2, <2>3
<1>20. PayloadOk(text, given, v, all)
  BY <1>14, <1>17, <1>18, <1>19 DEF PayloadOk, MaskedUpTo, LaidUpTo
<1> QED BY <1>19, <1>20

(* Replacing a token piece by piece. *)
LEMMA ReplaceTyped ==
  ASSUME NEW A, NEW s \in Seq(A), NEW p, p.original \in Seq(A)
  PROVE  /\ ReplaceToken(s, p) \in Seq(A)
         /\ [i \in DOMAIN s |-> IF s[i] = p.token THEN p.original ELSE <<s[i]>>] \in [1..Len(s) -> Seq(A)]
         /\ s = <<>> => ReplaceToken(s, p) = <<>>
<1> DEFINE q == [i \in DOMAIN s |-> IF s[i] = p.token THEN p.original ELSE <<s[i]>>]
<1>1. PICK n \in Nat : n = Len(s) /\ DOMAIN s = 1..n
  OBVIOUS
<1>2. \A i \in 1..n : <<s[i]>> \in Seq(A)
  <2> SUFFICES ASSUME NEW i \in 1..n PROVE <<s[i]>> \in Seq(A)
    OBVIOUS
  <2>1. s[i] \in A
    BY <1>1
  <2> QED BY <2>1
<1>3. q \in [1..n -> Seq(A)]
  BY <1>1, <1>2
<1>4. ReplaceToken(s, p) = FlattenSeq(q)
  BY DEF ReplaceToken
<1> HIDE DEF q
<1>5. FlattenSeq(q) \in Seq(A) /\ (n = 0 => FlattenSeq(q) = <<>>)
  BY <1>3, FlattenTyped
<1>6. s = <<>> => n = 0
  BY <1>1
<1> QED BY <1>1, <1>3, <1>4, <1>5, <1>6 DEF q

LEMMA ReplaceJoin ==
  ASSUME NEW A, NEW s \in Seq(A), NEW t \in Seq(A), NEW p, p.original \in Seq(A)
  PROVE  ReplaceToken(s \o t, p) = ReplaceToken(s, p) \o ReplaceToken(t, p)
<1> DEFINE by(u) == [i \in DOMAIN u |-> IF u[i] = p.token THEN p.original ELSE <<u[i]>>]
<1>1. PICK m \in Nat, n \in Nat : m = Len(s) /\ n = Len(t) /\ DOMAIN s = 1..m /\ DOMAIN t = 1..n
  OBVIOUS
<1>2. PICK u \in Seq(A) : u = s \o t
  BY ConcatProperties
<1>3. /\ Len(u) = m + n /\ DOMAIN u = 1..m + n
      /\ \A i \in 1..m : u[i] = s[i]
      /\ \A i \in 1..n : u[m + i] = t[i]
  BY <1>1, <1>2, ConcatProperties
<1>4. /\ by(s) \in [1..m -> Seq(A)] /\ by(t) \in [1..n -> Seq(A)] /\ by(u) \in [1..m + n -> Seq(A)]
  <2>1. by(s) \in [1..Len(s) -> Seq(A)]
    BY ReplaceTyped
  <2>2. by(t) \in [1..Len(t) -> Seq(A)]
    BY ReplaceTyped
  <2>3. by(u) \in [1..Len(u) -> Seq(A)]
    BY ReplaceTyped
  <2> HIDE DEF by
  <2> QED BY <1>1, <1>3, <2>1, <2>2, <2>3
<1>5. /\ \A i \in 1..m : i \in 1..m + n /\ by(u)[i] = by(s)[i]
      /\ \A i \in 1..n : m + i \in 1..m + n /\ by(u)[m + i] = by(t)[i]
  BY <1>1, <1>3
<1>6. /\ ReplaceToken(s, p) = FlattenSeq(by(s)) /\ ReplaceToken(t, p) = FlattenSeq(by(t))
      /\ ReplaceToken(u, p) = FlattenSeq(by(u))
  BY DEF ReplaceToken
<1> HIDE DEF by
<1>7. Adjoin(by(s), m, by(t), n, by(u), A)
  BY <1>4, <1>5 DEF Adjoin
<1>8. FlattenSeq(by(u)) = FlattenSeq(by(s)) \o FlattenSeq(by(t))
  BY <1>7, FlattenJoin
<1> QED BY <1>2, <1>6, <1>8

EachReplaced(s, t, p, n, A) ==
    /\ n \in Nat /\ s \in [1..n -> Seq(A)] /\ t \in [1..n -> Seq(A)] /\ p.original \in Seq(A)
    /\ \A k \in 1..n : t[k] = ReplaceToken(s[k], p)

LEMMA ReplaceEach ==
  ASSUME NEW A, NEW n, NEW s, NEW t, NEW p, EachReplaced(s, t, p, n, A)
  PROVE  ReplaceToken(FlattenSeq(s), p) = FlattenSeq(t)
<1>0. /\ n \in Nat /\ s \in [1..n -> Seq(A)] /\ t \in [1..n -> Seq(A)] /\ p.original \in Seq(A)
      /\ \A k \in 1..n : t[k] = ReplaceToken(s[k], p)
  BY DEF EachReplaced
<1> USE <1>0
<1>1. PICK g : Joins(g, s, n, A)
  BY JoinExists
<1>2. g \in [0..n -> Seq(A)] /\ g[0] = <<>> /\ \A i \in 1..n : g[i] = g[i - 1] \o s[i]
  BY <1>1 DEF Joins
<1> DEFINE h == [i \in 0..n |-> ReplaceToken(g[i], p)]
<1>3. h \in [0..n -> Seq(A)] /\ h[0] = <<>>
  <2>1. \A i \in 0..n : ReplaceToken(g[i], p) \in Seq(A)
    <3> SUFFICES ASSUME NEW i \in 0..n PROVE ReplaceToken(g[i], p) \in Seq(A)
      OBVIOUS
    <3>1. g[i] \in Seq(A)
      BY <1>2
    <3> QED BY <3>1, ReplaceTyped
  <2>2. ReplaceToken(g[0], p) = <<>>
    <3>1. g[0] \in Seq(A)
      BY <1>2
    <3> QED BY <1>2, <3>1, ReplaceTyped
  <2> QED BY <2>1, <2>2
<1>4. ASSUME NEW i \in 1..n PROVE h[i] = h[i - 1] \o t[i]
  <2>1. i \in 0..n /\ i - 1 \in 0..n
    OBVIOUS
  <2>2. PICK x \in Seq(A), y \in Seq(A) : x = g[i - 1] /\ y = s[i]
    BY <1>2, <2>1
  <2>3. ReplaceToken(x \o y, p) = ReplaceToken(x, p) \o ReplaceToken(y, p)
    BY ReplaceJoin
  <2>4. g[i] = x \o y /\ t[i] = ReplaceToken(y, p)
    BY <1>2, <2>2
  <2> QED BY <2>1, <2>2, <2>3, <2>4
<1> HIDE DEF h
<1>5. Joins(h, t, n, A)
  BY <1>3, <1>4 DEF Joins
<1>6. FlattenSeq(s) = g[n] /\ FlattenSeq(t) = h[n]
  BY <1>1, <1>5, FlattenIs
<1> QED BY <1>6 DEF h

(* A token on its own, and a text without one. *)
LEMMA ReplaceOne ==
  ASSUME NEW A, NEW c \in A, NEW p, p.original \in Seq(A)
  PROVE  ReplaceToken(<<c>>, p) = IF c = p.token THEN p.original ELSE <<c>>
<1>0. <<c>> \in Seq(A)
  OBVIOUS
<1>1. PICK s \in Seq(A) : s = <<c>> /\ Len(s) = 1 /\ DOMAIN s = 1..1 /\ s[1] = c
  <2>1. Len(<<c>>) = 1 /\ <<c>>[1] = c
    OBVIOUS
  <2>2. PICK s \in Seq(A) : s = <<c>>
    BY <1>0
  <2>3. Len(s) = 1 /\ s[1] = c
    BY <2>1, <2>2
  <2>4. DOMAIN s = 1..1
    BY <2>3
  <2> QED BY <2>2, <2>3, <2>4
<1>2. PICK a \in Seq(A) : a = IF c = p.token THEN p.original ELSE <<c>>
  <2>1. (IF c = p.token THEN p.original ELSE <<c>>) \in Seq(A)
    BY <1>0
  <2> QED BY <2>1
<1> DEFINE q == [i \in DOMAIN s |-> IF s[i] = p.token THEN p.original ELSE <<s[i]>>]
           g == [i \in 0..1 |-> IF i = 0 THEN <<>> ELSE a]
<1>3. q \in [1..1 -> Seq(A)]
  BY <1>1, ReplaceTyped
<1>4. q[1] = a
  BY <1>1, <1>2
<1>5. ReplaceToken(s, p) = FlattenSeq(q)
  BY DEF ReplaceToken
<1> HIDE DEF q
<1>6. g \in [0..1 -> Seq(A)] /\ g[0] = <<>> /\ g[1] = a
  BY EmptySeq
<1> HIDE DEF g
<1>7. <<>> \o a = a
  BY ConcatEmptySeq
<1>8. \A i \in 1..1 : g[i] = g[i - 1] \o q[i]
  <2>1. \A i \in 1..1 : i = 1
    OBVIOUS
  <2> QED BY <1>4, <1>6, <1>7, <2>1
<1>9. Joins(g, q, 1, A)
  BY <1>6, <1>8 DEF Joins
<1>10. FlattenSeq(q) = g[1]
  BY <1>3, <1>9, FlattenIs
<1> QED BY <1>1, <1>2, <1>5, <1>6, <1>10

LEMMA ReplacePlain ==
  ASSUME NEW A, NEW s \in Seq(A), Plain(s), NEW p, p.original \in Seq(A), IsToken(p.token)
  PROVE  ReplaceToken(s, p) = s
<1> DEFINE q == [i \in DOMAIN s |-> IF s[i] = p.token THEN p.original ELSE <<s[i]>>]
<1>1. PICK n \in Nat : n = Len(s) /\ DOMAIN s = 1..n
  OBVIOUS
<1>2. q \in [1..n -> Seq(A)]
  BY <1>1, ReplaceTyped
<1>3. \A i \in 1..n : q[i] = <<s[i]>>
  BY <1>1 DEF Plain
<1>4. ReplaceToken(s, p) = FlattenSeq(q)
  BY DEF ReplaceToken
<1> HIDE DEF q
<1> DEFINE g == [i \in 0..n |-> Slice(s, 1, i + 1)]
<1>5. ASSUME NEW i \in 0..n PROVE g[i] \in Seq(A) /\ Len(g[i]) = i /\ \A j \in 1..i : g[i][j] = s[j]
  <2>1. 1 \in 1..Len(s) + 1 /\ i + 1 \in 1..Len(s) + 1
    BY <1>1
  <2>2. PICK t \in Seq(A) : /\ t = Slice(s, 1, i + 1) /\ Len(t) = (i + 1) - 1
                           /\ \A j \in 1..(i + 1) - 1 : t[j] = s[1 + j - 1]
    <3>0. PICK a \in 1..Len(s) + 1 : a = 1
      BY <2>1
    <3>1. PICK b \in a..Len(s) + 1 : b = i + 1
      BY <2>1, <3>0
    <3>2. PICK t \in Seq(A) : /\ t = Slice(s, a, b) /\ Len(t) = b - a
                             /\ \A j \in 1..b - a : t[j] = s[a + j - 1]
      BY SliceIs
    <3> QED BY <3>0, <3>1, <3>2
  <2>3. g[i] = t
    BY <2>2
  <2> HIDE DEF g
  <2> QED BY <2>2, <2>3
<1> HIDE DEF g
<1>6. g[0] = <<>>
  BY <1>5
<1>7. ASSUME NEW i \in 1..n PROVE g[i] = g[i - 1] \o q[i]
  <2>1. i \in 0..n /\ i - 1 \in 0..n
    OBVIOUS
  <2>2. PICK x \in Seq(A) : x = g[i - 1] /\ Len(x) = i - 1 /\ \A j \in 1..i - 1 : x[j] = s[j]
    BY <1>5, <2>1
  <2>3. PICK y \in Seq(A) : y = g[i] /\ Len(y) = i /\ \A j \in 1..i : y[j] = s[j]
    BY <1>5, <2>1
  <2>4. PICK c \in A : c = s[i]
    BY <1>1
  <2>5. PICK z \in Seq(A) : z = x \o <<c>> /\ Len(z) = i
                           /\ z[i] = c /\ \A j \in 1..i - 1 : z[j] = x[j]
    <3>1. Append(x, c) \in Seq(A) /\ Len(Append(x, c)) = i
          /\ Append(x, c)[i] = c /\ (\A j \in 1..i - 1 : Append(x, c)[j] = x[j]) /\ x \o <<c>> = Append(x, c)
      BY <2>2, OneMore
    <3> QED BY <3>1
  <2>6. \A j \in 1..i : z[j] = y[j]
    <3>1. \A j \in 1..i : j = i \/ j \in 1..i - 1
      OBVIOUS
    <3>2. i \in 1..i
      OBVIOUS
    <3> QED BY <2>2, <2>3, <2>4, <2>5, <3>1, <3>2
  <2>7. z = y
    BY <2>3, <2>5, <2>6, SeqEqual
  <2> QED BY <1>3, <2>2, <2>3, <2>4, <2>5, <2>7
<1>8. Joins(g, q, n, A)
  <2>1. g \in [0..n -> Seq(A)]
    BY <1>5 DEF g
  <2> QED BY <1>6, <1>7, <2>1 DEF Joins
<1>9. FlattenSeq(q) = g[n]
  BY <1>2, <1>8, FlattenIs
<1>10. g[n] = s
  <2>1. PICK y \in Seq(A) : y = g[n] /\ Len(y) = n /\ \A j \in 1..n : y[j] = s[j]
    BY <1>5
  <2>2. y = s
    BY <1>1, <2>1, SeqEqual
  <2> QED BY <2>1, <2>2
<1> QED BY <1>4, <1>9, <1>10

(* The parts of the text that the pieces stand for are the text. *)
LEMMA PartsAreWhole ==
  ASSUME NEW text \in Seq(Letters), NEW v, NEW pieces, Laid(text, v, pieces),
         Cursor(pieces) = Len(text) + 1,
         NEW n \in Nat, n = Len(pieces),
         NEW parts \in [1..n -> VaultTexts],
         \A k \in 1..n : parts[k] = Slice(text, pieces[k].start, pieces[k].end)
  PROVE  FlattenSeq(parts) = text
<1>1. PICK l \in Nat : l = Len(text)
  OBVIOUS
<1>2. pieces \in Seq(AllPieces) /\ DOMAIN pieces = 1..n
  BY DEF Laid
<1> DEFINE upTo(i) == IF i = 0 THEN 1 ELSE pieces[i].end
           g == [i \in 0..n |-> Slice(text, 1, upTo(i))]
<1>3. ASSUME NEW i \in 1..n
      PROVE  /\ pieces[i].start \in 1..l + 1 /\ pieces[i].end \in pieces[i].start..l + 1
             /\ pieces[i].start = upTo(i - 1)
  <2>1. PICK p \in AllPieces : p = pieces[i]
    BY <1>2
  <2>2. 1 <= p.start /\ p.start < p.end /\ p.end <= l + 1
    BY <1>1, <1>2, <2>1 DEF Laid, PieceOk
  <2>3. p.start \in Nat /\ p.end \in Nat
    BY DEF AllPieces
  <2>4. p.start = upTo(i - 1)
    <3>1. CASE i = 1
      <4>1. pieces # <<>> /\ i - 1 = 0
        BY <1>2, <3>1
      <4> QED BY <2>1, <3>1, <4>1 DEF Laid
    <3>2. CASE i # 1
      <4>1. i - 1 \in 1..Len(pieces) - 1 /\ i - 1 + 1 = i /\ i - 1 # 0
        BY <3>2
      <4>2. pieces[i - 1].end = pieces[i - 1 + 1].start
        BY <4>1 DEF Laid
      <4> QED BY <2>1, <4>1, <4>2
    <3> QED BY <3>1, <3>2
  <2> QED BY <1>1, <2>1, <2>2, <2>3, <2>4
<1>4. ASSUME NEW i \in 0..n PROVE upTo(i) \in 1..l + 1
  <2>1. CASE i = 0
    BY <1>1, <2>1
  <2>2. CASE i # 0
    <3>1. i \in 1..n
      BY <2>2
    <3>2. PICK a \in 1..l + 1 : a = pieces[i].start
      BY <1>3, <3>1
    <3>3. pieces[i].end \in a..l + 1
      BY <1>3, <3>1, <3>2
    <3> QED BY <2>2, <3>3
  <2> QED BY <2>1, <2>2
<1>5. VaultTexts = Seq(Letters \cup AllTokens \cup Marks) /\ text \in VaultTexts
  BY DEF VaultTexts
<1> DEFINE A == Letters \cup AllTokens \cup Marks
<1> HIDE DEF A
<1>6. VaultTexts = Seq(A) /\ text \in Seq(A)
  BY <1>5 DEF A
<1>7. g \in [0..n -> Seq(A)]
  <2>1. ASSUME NEW i \in 0..n PROVE Slice(text, 1, upTo(i)) \in Seq(A)
    <3>1. PICK a \in 1..Len(text) + 1 : a = 1
      BY <1>1
    <3>2. PICK b \in a..Len(text) + 1 : b = upTo(i)
      <4> HIDE DEF upTo
      <4> QED BY <1>1, <1>4, <3>1
    <3>3. Slice(text, a, b) \in Seq(A)
      BY <1>6, SliceIs
    <3> QED BY <3>1, <3>2, <3>3
  <2> QED BY <2>1
<1>8. g[0] = <<>>
  <2>1. g[0] = SubSeq(text, 1, 0)
    BY DEF Slice
  <2>2. SubSeq(text, 1, 0) = <<>>
    BY SubSeqEmpty
  <2> QED BY <2>1, <2>2
<1>9. ASSUME NEW i \in 1..n PROVE g[i] = g[i - 1] \o parts[i]
  <2>1. i \in 0..n /\ i - 1 \in 0..n /\ i # 0
    OBVIOUS
  <2>2. PICK a \in 1..Len(text) + 1 : a = 1
    BY <1>1
  <2>3. PICK b \in a..Len(text) + 1 : b = pieces[i].start
    BY <1>1, <1>3, <2>2
  <2>4. PICK c \in b..Len(text) + 1 : c = pieces[i].end
    BY <1>1, <1>3, <2>3
  <2>5. Slice(text, a, b) \o Slice(text, b, c) = Slice(text, a, c)
    BY <1>6, SliceJoin
  <2>6. upTo(i - 1) = b /\ upTo(i) = c
    BY <1>3, <2>1, <2>3, <2>4
  <2>7. g[i] = Slice(text, a, c) /\ g[i - 1] = Slice(text, a, b)
    <3> HIDE DEF upTo
    <3> QED BY <2>1, <2>2, <2>6
  <2>8. parts[i] = Slice(text, b, c)
    BY <2>3, <2>4
  <2> HIDE DEF g
  <2> QED BY <2>5, <2>7, <2>8
<1>10. g[n] = text
  <2>1. upTo(n) = l + 1
    <3>1. CASE n = 0
      <4>1. pieces = <<>>
        BY <1>2, <3>1
      <4> QED BY <1>1, <3>1, <4>1 DEF Cursor
    <3>2. CASE n # 0
      <4>1. pieces # <<>>
        BY <1>2, <3>2
      <4> QED BY <1>1, <3>2, <4>1 DEF Cursor, Last
    <3> QED BY <3>1, <3>2
  <2>2. g[n] = Slice(text, 1, l + 1)
    <3> HIDE DEF upTo
    <3> QED BY <2>1
  <2>3. PICK a \in 1..Len(text) + 1 : a = 1
    BY <1>1
  <2>4. PICK b \in a..Len(text) + 1 : b = l + 1
    BY <1>1, <2>3
  <2>5. PICK t \in Seq(A) : t = Slice(text, a, b) /\ Len(t) = b - a /\ \A j \in 1..b - a : t[j] = text[a + j - 1]
    BY <1>6, SliceIs
  <2>6. Len(t) = l /\ \A j \in 1..l : t[j] = text[j]
    BY <1>1, <2>3, <2>4, <2>5
  <2>7. t = text
    BY <1>1, <1>6, <2>6, SeqEqual
  <2> QED BY <2>2, <2>3, <2>4, <2>5, <2>7
<1> HIDE DEF g
<1>11. parts \in [1..n -> Seq(A)]
  BY <1>6
<1>12. Joins(g, parts, n, A)
  BY <1>7, <1>8, <1>9 DEF Joins
<1> QED BY <1>10, <1>11, <1>12, FlattenIs

(* rehydrate brings back each piece whose token stands for its part.         *)
LEMMA Rehydrated ==
  ASSUME NEW text \in Seq(Letters), Plain(text), NEW v, Sound(v), PlainVault(v),
         NEW pieces, Laid(text, v, pieces), Cursor(pieces) = Len(text) + 1,
         \A k \in DOMAIN pieces : pieces[k].how \notin {"partial", "format_preserving"}
  PROVE  RehydrateVault(v, FlattenSeq([k \in DOMAIN pieces |-> pieces[k].out])) = text
<1> DEFINE A == Letters \cup AllTokens \cup Marks
           P == [token : AllTokens, original : VaultTexts]
           o == ByLength(v.tokens)
           part(k) == Slice(text, pieces[k].start, pieces[k].end)
<1>1. PICK n \in Nat : n = Len(pieces) /\ DOMAIN pieces = 1..n
  BY DEF Laid
<1>2. PICK m \in Nat : m = Len(v.tokens) /\ DOMAIN v.tokens = 1..m
  BY DEF Sound, Vaults
<1>3. /\ o \in [1..m -> P] /\ Len(o) = m
      /\ \A i \in 1..m : \E j \in 1..m : o[j] = v.tokens[i]
      /\ \A j \in 1..m : \E i \in 1..m : o[j] = v.tokens[i]
  <2> DEFINE key == [i \in DOMAIN v.tokens |-> - TokenLength(v.tokens[i].token)]
  <2>1. v.tokens \in Seq(P)
    BY DEF Sound, Vaults
  <2>2. PICK s \in Seq(P) : s = v.tokens /\ DOMAIN s = 1..m /\ Len(s) = m
    BY <1>2, <2>1
  <2>3. \A i \in 1..m : s[i] \in P
    <3> HIDE DEF P
    <3> QED BY <2>2
  <2>4. \A i \in 1..m : TokenLength(s[i].token) \in Nat
    <3> SUFFICES ASSUME NEW i \in 1..m PROVE TokenLength(s[i].token) \in Nat
      OBVIOUS
    <3>1. PICK t \in AllTokens : t = s[i].token
      BY <2>3
    <3>2. t.cat \in DOMAIN NameLength
      BY DEF AllTokens, Token
    <3>3. NameLength[t.cat] \in Nat
      BY <3>2, VaultAssumption
    <3>4. (IF t.blocked THEN 8 ELSE 0) \in Nat
      <4>1. CASE t.blocked
        BY <4>1
      <4>2. CASE ~ t.blocked
        BY <4>2
      <4> QED BY <4>1, <4>2
    <3>5. PICK a \in Nat, b \in Nat : a = NameLength[t.cat] /\ b = IF t.blocked THEN 8 ELSE 0
      BY <3>3, <3>4
    <3>6. TokenLength(t) = a + 2 + b
      BY <3>5 DEF TokenLength
    <3>7. TokenLength(t) \in Nat
      BY <3>5, <3>6
    <3> QED BY <3>1, <3>7, Zenon
  <2>5. key \in [DOMAIN s -> Int]
    BY <2>2, <2>4
  <2>6. o = InOrder(s, key)
    BY <2>2 DEF ByLength
  <2> HIDE DEF key, o, P
  <2>7. Ordered(o, s, key, P)
    BY <2>5, <2>6, InOrderIs
  <2>8. o \in [1..m -> P] /\ Len(o) = m
    BY <2>2, <2>7 DEF Ordered
  <2>9. \A i \in 1..m : \E j \in 1..m : o[j] = v.tokens[i]
    BY <2>2, <2>7 DEF Ordered
  <2>10. \A j \in 1..m : \E i \in 1..m : o[j] = v.tokens[i]
    <3>1. PICK at \in [1..m -> 1..m] : \A k \in 1..m : o[k] = s[at[k]]
      BY <2>2, <2>7 DEF Ordered
    <3>2. \A j \in 1..m : at[j] \in 1..m
      OBVIOUS
    <3> QED BY <2>2, <3>1, <3>2
  <2> QED BY <2>8, <2>9, <2>10
<1> HIDE DEF o
<1>4. \A j \in 1..m : o[j].token \in AllTokens /\ o[j].original \in VaultTexts
  BY <1>3
<1>5. VaultTexts = Seq(A)
  BY DEF VaultTexts
<1>6. ASSUME NEW k \in 1..n
      PROVE  /\ part(k) \in VaultTexts /\ Plain(part(k))
             /\ \/ pieces[k].out = part(k)
                \/ \E i \in 1..m : /\ v.tokens[i].original = part(k)
                                   /\ pieces[k].out = <<v.tokens[i].token>>
             /\ pieces[k].out \in VaultTexts
  <2>1. PICK p \in AllPieces : p = pieces[k]
    BY <1>1 DEF Laid
  <2>2. PieceOk(text, v, p)
    BY <1>1, <2>1 DEF Laid
  <2>3. p.start \in Nat /\ p.end \in Nat /\ p.out \in VaultTexts
    BY DEF AllPieces
  <2>4. PICK a \in 1..Len(text) + 1 : a = p.start
    BY <2>2, <2>3 DEF PieceOk
  <2>5. PICK b \in a..Len(text) + 1 : b = p.end
    BY <2>2, <2>3, <2>4 DEF PieceOk
  <2>6. Slice(text, a, b) \in Seq(Letters) /\ Plain(Slice(text, a, b))
    BY SliceIs
  <2>7. part(k) = Slice(text, a, b)
    BY <2>1, <2>4, <2>5
  <2>8. part(k) \in VaultTexts
    BY <2>6, <2>7 DEF VaultTexts
  <2>9. CASE p.how \in {"raw", "allow"}
    BY <2>1, <2>2, <2>3, <2>6, <2>7, <2>8, <2>9 DEF PieceOk
  <2>10. CASE p.how \notin {"raw", "allow"}
    <3>1. p.how \notin {"partial", "format_preserving"}
      BY <1>1, <2>1
    <3>2. PICK t \in AllTokens : Stands(v, Slice(text, p.start, p.end), t) /\ p.out = <<t>>
      BY <2>2, <2>10, <3>1 DEF PieceOk
    <3>3. PICK i \in 1..m : v.tokens[i].original = part(k) /\ v.tokens[i].token = t
      BY <1>2, <2>1, <3>2 DEF Stands
    <3> QED BY <2>1, <2>3, <2>6, <2>7, <2>8, <3>2, <3>3
  <2> QED BY <2>9, <2>10
<1> HIDE DEF part
<1> DEFINE back(j) == [k \in 1..n |-> IF \E l \in 1..j : o[l].original = part(k) THEN part(k)
                                      ELSE pieces[k].out]
           masked == FlattenSeq([k \in DOMAIN pieces |-> pieces[k].out])
           g == [j \in 0..m |-> FlattenSeq(back(j))]
           F(f) == [j \in 0..m |-> IF j = 0 THEN masked ELSE ReplaceToken(f[j - 1], o[j])]
           result == CHOOSE f : f = F(f)
<1>7. \A j \in 0..m : back(j) \in [1..n -> VaultTexts]
  BY <1>6
<1>8. back(0) = [k \in DOMAIN pieces |-> pieces[k].out]
  BY <1>1
<1>9. ASSUME NEW j \in 1..m, NEW k \in 1..n PROVE back(j)[k] = ReplaceToken(back(j - 1)[k], o[j])
  <2>1. IsToken(o[j].token) /\ o[j].original \in Seq(A)
    BY <1>4, <1>5 DEF AllTokens, Token, IsToken
  <2>2. part(k) \in Seq(A) /\ Plain(part(k))
    BY <1>5, <1>6
  <2> HIDE DEF A
  <2>3. ReplaceToken(part(k), o[j]) = part(k)
    BY <2>1, <2>2, ReplacePlain
  <2>4. \A l \in 1..j : l = j \/ l \in 1..j - 1
    OBVIOUS
  <2>5. \A l \in 1..j - 1 : l \in 1..j
    OBVIOUS
  <2>6. CASE \E l \in 1..j - 1 : o[l].original = part(k)
    BY <2>3, <2>5, <2>6
  <2>7. CASE ~ \E l \in 1..j - 1 : o[l].original = part(k)
    <3>1. back(j - 1)[k] = pieces[k].out
      BY <2>7
    <3>2. CASE pieces[k].out = part(k)
      BY <2>3, <3>1, <3>2
    <3>3. CASE \E i \in 1..m : v.tokens[i].original = part(k) /\ pieces[k].out = <<v.tokens[i].token>>
      <4>1. PICK i \in 1..m : v.tokens[i].original = part(k) /\ pieces[k].out = <<v.tokens[i].token>>
        BY <3>3
      <4>2. PICK e \in 1..m : o[j] = v.tokens[e]
        BY <1>3
      <4>3. PICK d \in 1..m : o[d] = v.tokens[i]
        BY <1>3
      <4>4. PICK t \in AllTokens : t = v.tokens[i].token
        BY <1>4, <4>3
      <4>5. t \in A
        BY <4>4 DEF A
      <4>6. ReplaceToken(<<t>>, o[j]) = IF t = o[j].token THEN o[j].original ELSE <<t>>
        BY <2>1, <4>5, ReplaceOne
      <4>7. CASE e = i
        <5>1. o[j].original = part(k) /\ o[j].token = t /\ j \in 1..j
          BY <4>1, <4>2, <4>4, <4>7
        <5>2. back(j)[k] = part(k)
          BY <5>1
        <5> HIDE DEF back
        <5> QED BY <3>1, <4>1, <4>4, <4>6, <5>1, <5>2
      <4>8. CASE e # i
        <5>1. o[j].original # part(k) /\ o[j].token # t
          BY <1>2, <4>1, <4>2, <4>4, <4>8 DEF Sound
        <5>2. back(j)[k] = pieces[k].out
          BY <2>4, <2>7, <5>1
        <5> HIDE DEF back
        <5> QED BY <3>1, <4>1, <4>4, <4>6, <5>1, <5>2
      <4> QED BY <4>7, <4>8
    <3> QED BY <1>6, <3>2, <3>3
  <2> QED BY <2>6, <2>7
<1>10. ASSUME NEW k \in 1..n PROVE back(m)[k] = part(k)
  <2>1. CASE pieces[k].out = part(k)
    BY <2>1
  <2>2. CASE \E i \in 1..m : v.tokens[i].original = part(k)
    <3>1. PICK i \in 1..m : v.tokens[i].original = part(k)
      BY <2>2
    <3>2. PICK l \in 1..m : o[l] = v.tokens[i]
      BY <1>3
    <3> QED BY <3>1, <3>2
  <2> QED BY <1>6, <2>1, <2>2
<1>11. FlattenSeq(back(m)) = text
  <2>1. m \in 0..m
    OBVIOUS
  <2>2. back(m) \in [1..n -> VaultTexts]
    BY <1>7, <2>1
  <2>3. \A k \in 1..n : back(m)[k] = Slice(text, pieces[k].start, pieces[k].end)
    BY <1>10 DEF part
  <2> HIDE DEF back
  <2> QED BY <1>1, <2>2, <2>3, PartsAreWhole
<1>12. ASSUME NEW j \in 1..m PROVE FlattenSeq(back(j)) = ReplaceToken(FlattenSeq(back(j - 1)), o[j])
  <2>1. j \in 0..m /\ j - 1 \in 0..m
    OBVIOUS
  <2>2. back(j) \in [1..n -> Seq(A)] /\ back(j - 1) \in [1..n -> Seq(A)]
    BY <1>5, <1>7, <2>1
  <2>3. o[j].original \in Seq(A)
    BY <1>4, <1>5
  <2>4. \A k \in 1..n : back(j)[k] = ReplaceToken(back(j - 1)[k], o[j])
    BY <1>9
  <2> HIDE DEF back, A
  <2>5. PICK x \in [1..n -> Seq(A)], y \in [1..n -> Seq(A)] : x = back(j - 1) /\ y = back(j)
    BY <2>2
  <2>6. \A k \in 1..n : y[k] = ReplaceToken(x[k], o[j])
    BY <2>4, <2>5
  <2>7. ReplaceToken(FlattenSeq(x), o[j]) = FlattenSeq(y)
    <3>1. PICK p : p = o[j]
      OBVIOUS
    <3>2. p.original \in Seq(A) /\ \A k \in 1..n : y[k] = ReplaceToken(x[k], p)
      BY <2>3, <2>6, <3>1
    <3>3. ReplaceToken(FlattenSeq(x), p) = FlattenSeq(y)
      <4>1. EachReplaced(x, y, p, n, A)
        BY <3>2 DEF EachReplaced
      <4> QED BY <4>1, ReplaceEach
    <3> QED BY <3>1, <3>3
  <2> QED BY <2>5, <2>7
<1>13. FlattenSeq(back(0)) = masked
  BY <1>8
<1> HIDE DEF back, masked
<1>14. g = F(g)
  <2>1. ASSUME NEW j \in 0..m PROVE g[j] = IF j = 0 THEN masked ELSE ReplaceToken(g[j - 1], o[j])
    <3>1. CASE j = 0
      BY <1>13, <3>1
    <3>2. CASE j # 0
      <4>1. j \in 1..m /\ j - 1 \in 0..m
        BY <3>2
      <4> QED BY <1>12, <3>2, <4>1
    <3> QED BY <3>1, <3>2
  <2> QED BY <2>1
<1>15. result = F(result)
  BY <1>14
<1>16. RehydrateVault(v, masked) = result[m]
  BY <1>3 DEF RehydrateVault, o
<1> HIDE DEF result
<1>18. g[m] = FlattenSeq(back(m))
  OBVIOUS
<1> HIDE DEF g
<1>17. result[m] = g[m]
  <2> DEFINE T == {j \in 0..m : result[j] = g[j]}
  <2>1. result[0] = masked /\ \A j \in 1..m : result[j] = ReplaceToken(result[j - 1], o[j])
    <3>1. PICK f : f = result
      OBVIOUS
    <3>2. f = F(f)
      BY <1>15, <3>1
    <3>3. \A j \in 0..m : f[j] = IF j = 0 THEN masked ELSE ReplaceToken(f[j - 1], o[j])
      BY <3>2
    <3>4. 0 \in 0..m /\ \A j \in 1..m : j \in 0..m /\ j # 0
      OBVIOUS
    <3> QED BY <3>1, <3>3, <3>4
  <2>2. g[0] = masked /\ \A j \in 1..m : g[j] = ReplaceToken(g[j - 1], o[j])
    <3>1. PICK f : f = g
      OBVIOUS
    <3>2. f = F(f)
      BY <1>14, <3>1
    <3>3. \A j \in 0..m : f[j] = IF j = 0 THEN masked ELSE ReplaceToken(f[j - 1], o[j])
      BY <3>2
    <3>4. 0 \in 0..m /\ \A j \in 1..m : j \in 0..m /\ j # 0
      OBVIOUS
    <3> QED BY <3>1, <3>3, <3>4
  <2>3. 0 \in T
    BY <2>1, <2>2
  <2>4. ASSUME NEW j \in 1..m, j - 1 \in T PROVE j \in T
    BY <2>1, <2>2, <2>4
  <2>5. \A j \in 0..m : j \in T
    <3> HIDE DEF T
    <3> QED BY <2>3, <2>4, StepByStep
  <2> QED BY <2>5
<1> QED BY <1>11, <1>16, <1>17, <1>18 DEF masked

(* The texts so far, their pieces seen against the vault of now.             *)
SentOk(s, v) ==
    /\ Laid(s.text, v, s.pieces) /\ Cursor(s.pieces) = Len(s.text) + 1
    /\ \A i \in DOMAIN s.dets : DetOk(s.text, s.dets[i]) /\ Accounted(s.pieces, s.dets[i])
VaultInv ==
    /\ Sound(vault)
    /\ sent \in Seq([text : Seq(Letters), dets : Seq(AllDets), pieces : Seq(AllPieces)])
    /\ \A i \in DOMAIN sent : SentOk(sent[i], vault)
    /\ (\A i \in DOMAIN sent : ~ HasLiteral(sent[i])) => PlainVault(vault)

(* What is given is a text and detections of it. *)
LEMMA GivenOk ==
  ASSUME NEW c \in FirstTexts \cup LaterTexts
  PROVE  /\ c.text \in Seq(Letters) /\ c.dets \in Seq(AllDets)
         /\ \A i \in DOMAIN c.dets : DetOk(c.text, c.dets[i])
<1>1. /\ c.text \in Seq(ToSet(c.text)) /\ c.dets \in Seq(ToSet(c.dets))
      /\ \A d \in ToSet(c.dets) : /\ {d.start, d.end} \subseteq 1..Len(c.text) + 1
                                /\ d.cat \in DOMAIN NameLength /\ d.style \notin {"raw", "allow"}
  BY VaultAssumption
<1>2. ToSet(c.text) \subseteq Letters /\ ToSet(c.dets) \subseteq AllDets
  BY DEF Letters, AllDets
<1>3. c.text \in Seq(Letters) /\ c.dets \in Seq(AllDets)
  <2>1. ASSUME NEW S, NEW T, S \subseteq T, NEW s \in Seq(S) PROVE s \in Seq(T)
    <3>1. PICK n \in Nat : n = Len(s) /\ DOMAIN s = 1..n
      OBVIOUS
    <3>2. s \in [1..n -> T]
      BY <2>1, <3>1
    <3> QED BY <3>2
  <2>2. c.text \in Seq(Letters)
    BY <1>1, <1>2, <2>1
  <2>3. c.dets \in Seq(AllDets)
    BY <1>1, <1>2, <2>1
  <2> QED BY <2>2, <2>3
<1>4. ASSUME NEW i \in DOMAIN c.dets PROVE DetOk(c.text, c.dets[i])
  <2>1. PICK d \in ToSet(c.dets) : d = c.dets[i]
    BY DEF ToSet
  <2> QED BY <1>1, <1>2, <2>1 DEF DetOk
<1> QED BY <1>3, <1>4

LEMMA VaultBegins == VaultInit => VaultInv
<1> SUFFICES ASSUME VaultInit PROVE VaultInv
  OBVIOUS
<1>1. vault = NewVault /\ sent = <<>>
  BY DEF VaultInit
<1>2. vault.tokens = <<>> /\ vault \in Vaults
  BY <1>1 DEF NewVault, Vaults
<1> QED BY <1>1, <1>2 DEF VaultInv, Sound, PlainVault

LEMMA VaultKept == VaultInv /\ [VaultNext]_vaultVars => VaultInv'
<1> SUFFICES ASSUME VaultInv, [VaultNext]_vaultVars PROVE VaultInv'
  OBVIOUS
<1>1. CASE UNCHANGED vaultVars
  BY <1>1 DEF VaultInv, vaultVars
<1>2. CASE VaultNext
  <2> DEFINE Sent == [text : Seq(Letters), dets : Seq(AllDets), pieces : Seq(AllPieces)]
  <2>1. PICK c \in FirstTexts \cup LaterTexts : MaskText(c)
    BY <1>2 DEF VaultNext
  <2>2. PICK end : /\ end = MaskPayload(c.text, c.dets, vault)
                   /\ vault' = end.vault
                   /\ sent' = Append(sent, [text |-> c.text, dets |-> c.dets, pieces |-> end.pieces])
    BY <2>1 DEF MaskText
  <2>3. /\ c.text \in Seq(Letters) /\ c.dets \in Seq(AllDets)
        /\ \A i \in DOMAIN c.dets : DetOk(c.text, c.dets[i])
    BY GivenOk
  <2>4. PayloadOk(c.text, c.dets, vault, end)
    BY <2>2, <2>3, PayloadMasked DEF VaultInv
  <2>5. PICK s : s = [text |-> c.text, dets |-> c.dets, pieces |-> end.pieces]
    OBVIOUS
  <2>6. s \in Sent /\ s.text = c.text /\ s.dets = c.dets /\ s.pieces = end.pieces
    BY <2>3, <2>4, <2>5 DEF PayloadOk, Laid
  <2>7. sent \in Seq(Sent)
    BY DEF VaultInv
  <2> HIDE DEF Sent
  <2>8. /\ sent' \in Seq(Sent) /\ DOMAIN sent' = 1..Len(sent) + 1 /\ DOMAIN sent = 1..Len(sent)
        /\ Len(sent) \in Nat
        /\ \A i \in DOMAIN sent : sent'[i] = sent[i]
        /\ sent'[Len(sent) + 1] = s
    BY <2>2, <2>5, <2>6, <2>7, OneMore
  <2>9. \A i \in DOMAIN sent' : i \in DOMAIN sent \/ i = Len(sent) + 1
    BY <2>8
  <2>10. SentOk(s, vault')
    BY <2>2, <2>3, <2>4, <2>6 DEF SentOk, PayloadOk
  <2>11. ASSUME NEW i \in DOMAIN sent PROVE SentOk(sent[i], vault')
    <3>1. PICK e : e = sent[i] /\ SentOk(e, vault)
      BY DEF VaultInv
    <3>2. VaultGrown(vault, vault')
      BY <2>2, <2>4 DEF PayloadOk
    <3>3. Laid(e.text, vault', e.pieces)
      BY <3>1, <3>2, LaidGrown DEF SentOk
    <3> QED BY <3>1, <3>3 DEF SentOk
  <2>12. (\A i \in DOMAIN sent' : ~ HasLiteral(sent'[i])) => PlainVault(vault')
    <3> SUFFICES ASSUME \A i \in DOMAIN sent' : ~ HasLiteral(sent'[i]) PROVE PlainVault(vault')
      OBVIOUS
    <3>1. \A i \in DOMAIN sent : i \in DOMAIN sent' /\ ~ HasLiteral(sent[i])
      BY <2>8
    <3>2. PlainVault(vault)
      BY <3>1 DEF VaultInv
    <3>3. ~ HasLiteral(s)
      BY <2>8
    <3>4. Plain(c.text)
      BY <2>6, <3>3 DEF HasLiteral, Plain
    <3> QED BY <2>2, <2>4, <3>2, <3>4 DEF PayloadOk
  <2>13. \A i \in DOMAIN sent' : SentOk(sent'[i], vault')
    BY <2>8, <2>9, <2>10, <2>11
  <2>14. Sound(vault')
    BY <2>2, <2>4 DEF PayloadOk
  <2> QED BY <2>8, <2>12, <2>13, <2>14 DEF VaultInv, Sent
<1> QED BY <1>1, <1>2 DEF vaultVars

(* The invariant of the vault (vault.py: RequestVault, mask_payload_with_    *)
(* vault): indexes bounded by their counters, so that no token or original   *)
(* is there twice, and each text so far laid out in pieces of which what is  *)
(* hidden is in the vault.                                                   *)
THEOREM VaultInvariance == VaultSpec => []VaultInv
BY VaultBegins, VaultKept, PTL DEF VaultSpec

(* No piece begins before the end of one before it. *)
LEMMA PiecesApart ==
  ASSUME NEW text, NEW v, NEW pieces, Laid(text, v, pieces)
  PROVE  \A i, j \in DOMAIN pieces : j < i => pieces[j].end <= pieces[i].start
<1>1. PICK n \in Nat : n = Len(pieces) /\ DOMAIN pieces = 1..n
  BY DEF Laid
<1>2. \A i \in 1..n : /\ pieces[i].start \in Nat /\ pieces[i].end \in Nat
                      /\ pieces[i].start < pieces[i].end
  <2> SUFFICES ASSUME NEW i \in 1..n
               PROVE  /\ pieces[i].start \in Nat /\ pieces[i].end \in Nat
                      /\ pieces[i].start < pieces[i].end
    OBVIOUS
  <2>1. PICK p \in AllPieces : p = pieces[i]
    BY <1>1 DEF Laid
  <2>2. p.start < p.end
    BY <1>1, <2>1 DEF Laid, PieceOk
  <2> QED BY <2>1, <2>2 DEF AllPieces
<1> DEFINE T == {i \in 0..n : \A j \in 1..i - 1 : pieces[j].end <= pieces[i].start}
<1>3. 0 \in T
  OBVIOUS
<1>4. ASSUME NEW i \in 1..n, i - 1 \in T PROVE i \in T
  <2> SUFFICES ASSUME NEW j \in 1..i - 1 PROVE pieces[j].end <= pieces[i].start
    OBVIOUS
  <2>1. i - 1 \in 1..Len(pieces) - 1 /\ i - 1 + 1 = i /\ i - 1 \in 1..n
    BY <1>1
  <2>2. pieces[i - 1].end = pieces[i].start
    BY <2>1 DEF Laid
  <2>3. CASE j = i - 1
    BY <1>2, <2>1, <2>2, <2>3
  <2>4. CASE j # i - 1
    <3>1. j \in 1..(i - 1) - 1 /\ j \in 1..n
      BY <2>4
    <3>2. pieces[j].end <= pieces[i - 1].start
      BY <1>4, <3>1
    <3>3. pieces[i - 1].start < pieces[i - 1].end
      BY <1>2, <2>1
    <3> QED BY <1>2, <2>1, <2>2, <3>1, <3>2, <3>3
  <2> QED BY <2>3, <2>4
<1>5. \A i \in 0..n : i \in T
  <2> HIDE DEF T
  <2> QED BY <1>3, <1>4, StepByStep
<1> SUFFICES ASSUME NEW i \in 1..n, NEW j \in 1..n, j < i PROVE pieces[j].end <= pieces[i].start
  BY <1>1
<1>6. i \in T /\ j \in 1..i - 1
  <2>1. i \in 0..n
    OBVIOUS
  <2>2. i \in T
    <3> HIDE DEF T
    <3> QED BY <1>5, <2>1
  <2> QED BY <2>2
<1> QED BY <1>6

(* RawExplained, for any texts and detections: a detection leaves the text   *)
(* as it is only where one accepted earlier covers its first character       *)
(* (mask_payload_with_vault, the overlap check).                             *)
THEOREM EveryRawCharacterExplained == VaultSpec => []RawExplained
<1>1. VaultInv => RawExplained
  <2> SUFFICES ASSUME VaultInv, NEW i \in DOMAIN sent, NEW k \in DOMAIN sent[i].dets,
                      sent[i].dets[k].action # "allow",
                      NEW at \in sent[i].dets[k].start..sent[i].dets[k].end - 1,
                      ~ Skipped(sent[i], sent[i].dets[k])
               PROVE  Hidden(sent[i], at)
    BY DEF RawExplained
  <2>1. PICK s, d : s = sent[i] /\ d = s.dets[k]
    OBVIOUS
  <2>2. SentOk(s, vault)
    BY <2>1 DEF VaultInv
  <2>3. DetOk(s.text, d) /\ Accounted(s.pieces, d)
    BY <2>1, <2>2 DEF SentOk
  <2>4. d.start \in Nat /\ d.end \in Nat /\ d.style \notin {"raw", "allow"}
    BY <2>3 DEF DetOk
  <2>5. at \in Nat /\ d.start <= at /\ at < d.end /\ d.start < d.end
    BY <2>1, <2>4
  <2>6. PICK l \in DOMAIN s.pieces : s.pieces[l].how # "raw" /\ Covers(s.pieces[l], d.start)
    BY <2>3, <2>5 DEF Accounted
  <2>7. s.pieces[l].start = d.start /\ s.pieces[l].end = d.end /\ s.pieces[l].how = d.style
    BY <2>1, <2>6 DEF Skipped
  <2>8. ASSUME NEW e \in DOMAIN s.pieces, Covers(s.pieces[e], at) PROVE e = l
    <3>1. Laid(s.text, vault, s.pieces)
      BY <2>2 DEF SentOk
    <3>2. /\ l < e => s.pieces[l].end <= s.pieces[e].start
          /\ e < l => s.pieces[e].end <= s.pieces[l].start
      BY <3>1, PiecesApart
    <3>3. s.pieces[e].start <= at /\ at < s.pieces[e].end
      BY <2>8 DEF Covers
    <3>4. PICK p \in AllPieces : p = s.pieces[e]
      BY <3>1 DEF Laid
    <3>5. p.start \in Nat /\ p.end \in Nat
      BY DEF AllPieces
    <3>6. e \in Nat /\ l \in Nat
      BY <3>1 DEF Laid
    <3> QED BY <2>4, <2>5, <2>7, <3>2, <3>3, <3>4, <3>5, <3>6
  <2> QED BY <2>1, <2>4, <2>7, <2>8 DEF Hidden
<1>2. VaultSpec => []VaultInv
  BY VaultInvariance
<1> QED BY <1>1, <1>2, PTL

(* RestoresWhatItHides, for any texts and detections: rehydrate brings back  *)
(* every text masked with the vault in whatever order (vault.py: rehydrate,  *)
(* restore, token_for), unless a lossy style was used or the texts held      *)
(* something like a token; and what such a style hid is still to be had.     *)
THEOREM HiddenIsRestored == VaultSpec => []RestoresWhatItHides
<1>1. VaultInv => RestoresWhatItHides
  <2> SUFFICES ASSUME VaultInv PROVE RestoresWhatItHides
    OBVIOUS
  <2>1. ASSUME NEW i \in DOMAIN sent, Tokenized(sent[i]), \A j \in DOMAIN sent : ~ HasLiteral(sent[j])
        PROVE  RehydrateVault(vault, Masked(sent[i])) = sent[i].text
    <3> DEFINE Sent == [text : Seq(Letters), dets : Seq(AllDets), pieces : Seq(AllPieces)]
    <3>0. PICK s \in Sent : s = sent[i]
      <4>1. sent \in Seq(Sent)
        BY DEF VaultInv
      <4> HIDE DEF Sent
      <4> QED BY <4>1
    <3>1. s = sent[i] /\ SentOk(s, vault) /\ s.text \in Seq(Letters)
      BY <3>0 DEF VaultInv
    <3> HIDE DEF Sent
    <3>2. Plain(s.text)
      BY <2>1, <3>1 DEF HasLiteral, Plain
    <3>3. PlainVault(vault) /\ Sound(vault)
      BY <2>1 DEF VaultInv
    <3>4. \A k \in DOMAIN s.pieces : s.pieces[k].how \notin {"partial", "format_preserving"}
      BY <2>1, <3>1 DEF Tokenized
    <3>5. Laid(s.text, vault, s.pieces) /\ Cursor(s.pieces) = Len(s.text) + 1
      BY <3>1 DEF SentOk
    <3>6. RehydrateVault(vault, FlattenSeq([k \in DOMAIN s.pieces |-> s.pieces[k].out])) = s.text
      BY <3>1, <3>2, <3>3, <3>4, <3>5, Rehydrated
    <3> QED BY <3>1, <3>6 DEF Masked
  <2>2. ASSUME NEW i \in DOMAIN sent, NEW k \in DOMAIN sent[i].pieces,
               sent[i].pieces[k].how \notin {"raw", "allow"},
               NEW original, original = Slice(sent[i].text, sent[i].pieces[k].start, sent[i].pieces[k].end)
        PROVE  HasOriginal(vault, original) /\ Restore(vault, TokenFor(vault, original)) = original
    <3>1. SentOk(sent[i], vault) /\ Sound(vault)
      BY DEF VaultInv
    <3>2. PieceOk(sent[i].text, vault, sent[i].pieces[k])
      BY <3>1 DEF SentOk, Laid
    <3>3. PICK t \in AllTokens : Stands(vault, original, t)
      BY <2>2, <3>2 DEF PieceOk
    <3> QED BY <3>1, <3>3, LookUp
  <2> QED BY <2>1, <2>2 DEF RestoresWhatItHides
<1>2. VaultSpec => []VaultInv
  BY VaultInvariance
<1> QED BY <1>1, <1>2, PTL
=============================================================================
