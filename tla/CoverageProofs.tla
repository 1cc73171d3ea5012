----------------------------- MODULE CoverageProofs -----------------------------
(***************************************************************************)
(* Proofs about Coverage: for every request of each provider and any       *)
(* settings, the scrubber's walk agrees with the parser's map, and what    *)
(* the strictest settings let through unscanned sits where Unread says.    *)
(*                                                                         *)
(* CoverageInv says that the variables hold what the walks give for one    *)
(* and the same request, so both theorems come down to facts about walks.  *)
(* For the second, a text of the user is followed from the root: Passes    *)
(* says that it is at or below a value, Onward that one key or position    *)
(* leads further, and each function of a scrubber either reads the text,   *)
(* finds something to refuse, or leaves it at a place of Unread.  For the  *)
(* first, Agrees is shown of each function and of unions of what they give.*)
(***************************************************************************)
EXTENDS Coverage, DataLemmas

-----------------------------------------------------------------------------
(* JSON values and the paths in them.                                        *)

(* The levels of a value are what their recursive definition says: a         *)
(* function on 0..Depth with those equations exists, so CHOOSE finds it.     *)
LEMMA LevelsAre ==
  ASSUME NEW v, NEW at
  PROVE  /\ Levels(v, at)[0] = {<<at, v>>}
         /\ \A n \in 1..Depth : Levels(v, at)[n] = Below(Levels(v, at)[n - 1])
<1> DEFINE Level(g, n) == IF n = 0 THEN {<<at, v>>} ELSE Below(g[n - 1])
           Upto(k, g) == g = [n \in 0..k |-> Level(g, n)]
           T == {k \in 0..Depth : \E g : Upto(k, g)}
<1>0. Depth \in Nat
  BY JsonAssumption
<1>1. 0 \in T
  <2>1. Upto(0, [n \in 0..0 |-> {<<at, v>>}])
    OBVIOUS
  <2> HIDE DEF Upto
  <2>2. \E g : Upto(0, g)
    BY <2>1
  <2> QED BY <2>2, <1>0
<1>2. ASSUME NEW k \in 1..Depth, k - 1 \in T PROVE k \in T
  <2>1. PICK h : Upto(k - 1, h)
    BY <1>2
  <2> DEFINE g == [n \in 0..k |-> IF n = k THEN Below(h[k - 1]) ELSE h[n]]
  <2>2. Upto(k, g)
    <3>1. ASSUME NEW n \in 0..k PROVE g[n] = Level(g, n)
      <4>1. CASE n = k
        <5>1. k - 1 \in 0..k /\ k - 1 # k /\ k # 0
          BY <1>0
        <5>2. g[k - 1] = h[k - 1] /\ g[k] = Below(h[k - 1])
          BY <5>1, <1>0
        <5> QED BY <4>1, <5>1, <5>2
      <4>2. CASE n # k
        <5>1. n \in 0..k - 1 /\ (n # 0 => n - 1 \in 0..k /\ n - 1 # k)
          BY <4>2, <1>0
        <5>2. g[n] = h[n] /\ (n # 0 => g[n - 1] = h[n - 1])
          BY <4>2, <5>1
        <5>3. h[n] = Level(h, n)
          BY <2>1, <5>1
        <5> QED BY <5>1, <5>2, <5>3
      <4> QED BY <4>1, <4>2
    <3> QED BY <3>1
  <2> HIDE DEF Upto, g
  <2> QED BY <2>2, <1>0
<1>3. Depth \in T
  <2> HIDE DEF T
  <2> QED BY <1>0, <1>1, <1>2, StepByStep
<1>4. PICK g : Upto(Depth, g)
  BY <1>3
<1>5. Upto(Depth, Levels(v, at))
  BY <1>4 DEF Levels
<1>6. 0 \in 0..Depth /\ \A n \in 1..Depth : n \in 0..Depth /\ n # 0
  BY <1>0
<1> QED BY <1>5, <1>6

(* The same of ValueAt. *)
Child(v, k) == IF IsList(v) THEN v[2][IndexOf(k)] ELSE Get(v, k)
Follow(g, v, at, m) ==
    DOMAIN g = 0..m /\ g[0] = v /\ \A n \in 1..m : g[n] = Child(g[n - 1], at[n])

(* Follow is a function along the path: it exists, and only one does.        *)
LEMMA Extended ==
  ASSUME NEW v, NEW at, NEW m \in Nat, NEW k \in 1..m, NEW h, Follow(h, v, at, k - 1)
  PROVE  \E g : Follow(g, v, at, k) /\ g[k] = Child(h[k - 1], at[k])
<1> DEFINE g == [n \in 0..k |-> IF n = k THEN Child(h[k - 1], at[k]) ELSE h[n]]
<1>1. DOMAIN g = 0..k /\ g[k] = Child(h[k - 1], at[k]) /\ \A n \in 0..k - 1 : g[n] = h[n]
  <2>1. k \in 0..k /\ \A n \in 0..k - 1 : n \in 0..k /\ n # k
    OBVIOUS
  <2> QED BY <2>1
<1> HIDE DEF g
<1>2. g[0] = v
  BY <1>1 DEF Follow
<1>3. ASSUME NEW n \in 1..k PROVE g[n] = Child(g[n - 1], at[n])
  <2>1. CASE n = k
    <3>1. k - 1 \in 0..k - 1
      OBVIOUS
    <3> QED BY <1>1, <2>1, <3>1
  <2>2. CASE n # k
    <3>1. n \in 0..k - 1 /\ n - 1 \in 0..k - 1 /\ n \in 1..k - 1
      BY <2>2
    <3> QED BY <1>1, <3>1 DEF Follow
  <2> QED BY <2>1, <2>2
<1> QED BY <1>1, <1>2, <1>3 DEF Follow

LEMMA FollowExists ==
  ASSUME NEW v, NEW at, NEW m \in Nat
  PROVE  \E g : Follow(g, v, at, m)
<1> DEFINE T == {k \in 0..m : \E g : Follow(g, v, at, k)}
<1>1. 0 \in T
  <2>1. Follow([n \in 0..0 |-> v], v, at, 0)
    BY DEF Follow
  <2> QED BY <2>1
<1>2. ASSUME NEW k \in 1..m, k - 1 \in T PROVE k \in T
  <2>1. PICK h : Follow(h, v, at, k - 1)
    BY <1>2
  <2>2. \E g : Follow(g, v, at, k)
    BY <2>1, Extended
  <2>3. k \in 0..m
    OBVIOUS
  <2> QED BY <2>2, <2>3
<1>3. m \in T
  <2> HIDE DEF T
  <2> QED BY <1>1, <1>2, StepByStep
<1> QED BY <1>3

LEMMA FollowUnique ==
  ASSUME NEW v, NEW at, NEW bt, NEW m \in Nat, \A i \in 1..m : at[i] = bt[i],
         NEW n \in Nat, m <= n,
         NEW g, Follow(g, v, at, m), NEW h, Follow(h, v, bt, n)
  PROVE  g[m] = h[m]
<1> DEFINE T == {k \in 0..m : g[k] = h[k]}
<1>1. 0 \in T
  BY DEF Follow
<1>2. ASSUME NEW k \in 1..m, k - 1 \in T PROVE k \in T
  <2>1. k \in 1..n
    OBVIOUS
  <2> QED BY <1>2, <2>1 DEF Follow
<1>3. m \in T
  <2> HIDE DEF T
  <2> QED BY <1>1, <1>2, StepByStep
<1> QED BY <1>3

(* ValueAt is its last value.                                                *)
LEMMA ValueFollows ==
  ASSUME NEW v, NEW at, Len(at) \in Nat
  PROVE  \E g : Follow(g, v, at, Len(at)) /\ ValueAt(v, at) = g[Len(at)]
<1> DEFINE Along(g) == g = [n \in 0..Len(at) |->
                         CASE n = 0 -> v
                           [] n > 0 /\ IsList(g[n - 1]) -> g[n - 1][2][IndexOf(at[n])]
                           [] OTHER -> Get(g[n - 1], at[n])]
<1>1. PICK h : Follow(h, v, at, Len(at))
  BY FollowExists
<1>2. Along(h)
  <2>1. \A n \in 0..Len(at) : n # 0 => n \in 1..Len(at) /\ n > 0
    OBVIOUS
  <2>2. ASSUME NEW n \in 0..Len(at)
        PROVE h[n] = CASE n = 0 -> v
                           [] n > 0 /\ IsList(h[n - 1]) -> h[n - 1][2][IndexOf(at[n])]
                           [] OTHER -> Get(h[n - 1], at[n])
    BY <1>1, <2>1 DEF Follow, Child
  <2>3. h = [n \in 0..Len(at) |-> h[n]]
    BY <1>1 DEF Follow
  <2> QED BY <2>2, <2>3
<1>3. PICK g : Along(g) /\ ValueAt(v, at) = g[Len(at)]
  BY <1>2 DEF ValueAt
<1>4. Follow(g, v, at, Len(at))
  <2>1. \A n \in 1..Len(at) : n # 0 /\ n > 0 /\ n \in 0..Len(at)
    OBVIOUS
  <2>2. DOMAIN g = 0..Len(at) /\ g[0] = v
    BY <1>3
  <2>3. ASSUME NEW n \in 1..Len(at) PROVE g[n] = Child(g[n - 1], at[n])
    BY <1>3, <2>1 DEF Child
  <2> QED BY <2>2, <2>3 DEF Follow
<1> QED BY <1>3, <1>4

-----------------------------------------------------------------------------
Elements == STRING \cup ToSet(Positions)
Path == Seq(Elements)

LEMMA ValueOfRoot == ASSUME NEW v PROVE ValueAt(v, <<>>) = v
<1>1. PICK g : Follow(g, v, <<>>, 0) /\ ValueAt(v, <<>>) = g[0]
  BY ValueFollows
<1> QED BY <1>1 DEF Follow

(* One key or position further, it is the child of the value before.         *)
LEMMA ValueOfChild ==
  ASSUME NEW v, NEW q \in Path, NEW k \in Elements
  PROVE  ValueAt(v, Append(q, k)) = Child(ValueAt(v, q), k)
<1>1. Len(q) \in Nat /\ Len(Append(q, k)) = Len(q) + 1 /\ Append(q, k)[Len(q) + 1] = k
  BY DEF Path
<1>2. \A i \in 1..Len(q) : q[i] = Append(q, k)[i]
  BY DEF Path
<1>3. PICK g : Follow(g, v, q, Len(q)) /\ ValueAt(v, q) = g[Len(q)]
  BY <1>1, ValueFollows
<1>4. PICK h : Follow(h, v, Append(q, k), Len(q) + 1) /\ ValueAt(v, Append(q, k)) = h[Len(q) + 1]
  <2>1. Len(Append(q, k)) \in Nat
    BY <1>1
  <2> QED BY <2>1, <1>1, ValueFollows
<1>5. g[Len(q)] = h[Len(q)]
  <2> DEFINE n == Len(q) + 1
             bt == Append(q, k)
  <2>1. Len(q) \in Nat /\ n \in Nat /\ Len(q) <= n /\ \A i \in 1..Len(q) : q[i] = bt[i]
    BY <1>1, <1>2
  <2>2. Follow(g, v, q, Len(q)) /\ Follow(h, v, bt, n)
    BY <1>3, <1>4
  <2> HIDE DEF n, bt
  <2>3. g[Len(q)] = h[Len(q)]
    BY <2>1, <2>2, FollowUnique
  <2> QED BY <2>3
<1>6. h[Len(q) + 1] = Child(h[Len(q)], k)
  <2>1. Len(q) + 1 \in 1..Len(q) + 1 /\ Len(q) + 1 - 1 = Len(q)
    BY <1>1
  <2> QED BY <2>1, <1>1, <1>4 DEF Follow
<1> QED BY <1>3, <1>4, <1>5, <1>6

(* The name of a position leads back to it.                                  *)
LEMMA PositionsAre ==
  /\ \A i \in 1..Len(Positions) :
        Index(i) \in Elements /\ IsIndex(Index(i)) /\ Index(i) \notin STRING /\ IndexOf(Index(i)) = i
  /\ \A k \in STRING : k \in Elements /\ ~ IsIndex(k) /\ k # Anywhere
<1>1. DOMAIN Positions = 1..Len(Positions)
  BY JsonAssumption
<1>2. ToSet(Positions) = {Positions[i] : i \in DOMAIN Positions}
  BY DEF ToSet
<1>3. ASSUME NEW i \in 1..Len(Positions)
      PROVE  Index(i) \in ToSet(Positions) /\ IndexOf(Index(i)) = i
  <2>1. \A j \in DOMAIN Positions : Index(j) = Index(i) => j = i
    BY <1>1, JsonAssumption DEF IsInjective, Index
  <2> QED BY <1>1, <1>2, <2>1 DEF Index, IndexOf
<1> QED BY <1>3, JsonAssumption DEF Elements, IsIndex

-----------------------------------------------------------------------------
(* What the children of a node are, by the kind of its value.                *)
LEMMA ChildrenAre ==
  ASSUME NEW at, NEW v
  PROVE  \A c \in Children(<<at, v>>) :
            \/ IsDict(v) /\ \E k \in Keys(v) : c = <<Append(at, k), v[2][k]>>
            \/ IsList(v) /\ \E i \in DOMAIN v[2] : c = <<Append(at, Index(i)), v[2][i]>>
            \/ IsEncoded(v) /\ c = <<at, v[2]>>
BY DEF Children, IsDict, IsList, IsEncoded

LEMMA ChildrenArePairs ==
  ASSUME NEW x, NEW c \in Children(x)
  PROVE  c = <<c[1], c[2]>>
BY DEF Children

LEMMA OneKind ==
  ASSUME NEW v
  PROVE  (IsDict(v) => ~ IsList(v) /\ ~ IsEncoded(v)) /\ (IsList(v) => ~ IsEncoded(v))
BY DEF IsDict, IsList, IsEncoded

(* A level below the first is that of the children, one higher. *)
LEMMA FromTheTop ==
  ASSUME NEW v, NEW at
  PROVE  \A m \in 1..Depth :
            Levels(v, at)[m] = UNION {Levels(c[2], c[1])[m - 1] : c \in Children(<<at, v>>)}
<1> DEFINE Top(m) == Levels(v, at)[m] = UNION {Levels(c[2], c[1])[m - 1] : c \in Children(<<at, v>>)}
           T == {m \in 0..Depth : m # 0 => Top(m)}
<1>0. Depth \in Nat
  BY JsonAssumption
<1>1. 0 \in T
  BY <1>0
<1>2. ASSUME NEW m \in 1..Depth, m - 1 \in T PROVE m \in T
  <2>1. Levels(v, at)[m] = Below(Levels(v, at)[m - 1])
    BY LevelsAre
  <2>2. CASE m = 1
    <3>1. Levels(v, at)[0] = {<<at, v>>}
      BY LevelsAre
    <3>2. Levels(v, at)[1] = Children(<<at, v>>)
      BY <2>1, <2>2, <3>1 DEF Below
    <3>3. \A c \in Children(<<at, v>>) : Levels(c[2], c[1])[0] = {c}
      BY ChildrenArePairs, LevelsAre
    <3> QED BY <2>2, <3>2, <3>3, <1>0
  <2>3. CASE m # 1
    <3>1. Top(m - 1) /\ m - 1 \in 1..Depth
      BY <1>2, <2>3, <1>0
    <3>2. \A c : Levels(c[2], c[1])[m - 1] = Below(Levels(c[2], c[1])[m - 1 - 1])
      BY <3>1, LevelsAre
    <3>3. Below(UNION {Levels(c[2], c[1])[m - 1 - 1] : c \in Children(<<at, v>>)})
            = UNION {Below(Levels(c[2], c[1])[m - 1 - 1]) : c \in Children(<<at, v>>)}
      BY DEF Below
    <3>4. Top(m)
      BY <2>1, <3>1, <3>2, <3>3
    <3> QED BY <3>4, <1>0
  <2> QED BY <2>2, <2>3
<1>3. \A m \in 0..Depth : m \in T
  <2> HIDE DEF T
  <2> QED BY <1>0, <1>1, <1>2, StepByStep
<1> QED BY <1>3, <1>0

(* What is below a node of v is below v. *)
LEMMA LevelsBelow ==
  ASSUME NEW v, NEW at, NEW n \in 0..Depth, NEW x, NEW q, <<q, x>> \in Levels(v, at)[n]
  PROVE  \A m \in 0..Depth - n : Levels(x, q)[m] \subseteq Levels(v, at)[n + m]
<1> DEFINE T == {m \in 0..Depth - n : Levels(x, q)[m] \subseteq Levels(v, at)[n + m]}
<1>0. Depth \in Nat /\ n \in Nat /\ Depth - n \in Nat /\ n + 0 = n
  BY JsonAssumption
<1>1. 0 \in T
  <2>1. Levels(x, q)[0] = {<<q, x>>}
    BY LevelsAre
  <2> QED BY <2>1, <1>0
<1>2. ASSUME NEW m \in 1..Depth - n, m - 1 \in T PROVE m \in T
  <2>1. m \in 1..Depth /\ n + m \in 1..Depth /\ n + m - 1 = n + (m - 1) /\ m \in 0..Depth - n
    BY <1>0
  <2>2. Levels(x, q)[m] = Below(Levels(x, q)[m - 1])
    BY <2>1, LevelsAre
  <2>3. Levels(v, at)[n + m] = Below(Levels(v, at)[n + (m - 1)])
    BY <2>1, LevelsAre
  <2>4. Levels(x, q)[m - 1] \subseteq Levels(v, at)[n + (m - 1)]
    BY <1>2
  <2>5. \A A, B : A \subseteq B => Below(A) \subseteq Below(B)
    BY DEF Below
  <2> QED BY <2>1, <2>2, <2>3, <2>4, <2>5
<1> HIDE DEF T
<1>3. \A m \in 0..Depth - n : m \in T
  BY <1>0, <1>1, <1>2, StepByStep
<1> QED BY <1>3 DEF T

-----------------------------------------------------------------------------
(* The nodes of a request's payload. *)
LEMMA NodesInPlace ==
  ASSUME NEW r \in Requests
  PROVE  \A n \in 0..Depth : \A node \in Levels(r.payload, <<>>)[n] :
            /\ node = <<node[1], node[2]>> /\ node[1] \in Path
            /\ InPlace(node, r.provider)
<1> DEFINE L == Levels(r.payload, <<>>)
           Good(node) == node = <<node[1], node[2]>> /\ node[1] \in Path
           T == {n \in 0..Depth : \A node \in L[n] : Good(node)}
<1>0. Depth \in Nat /\ Len(Positions) \in Nat
  BY JsonAssumption
<1>1. \A n \in 0..Depth : \A node \in L[n] : InPlace(node, r.provider)
  BY CoverageAssumption DEF Nodes
<1>2. 0 \in T
  <2>1. L[0] = {<<<<>>, r.payload>>} /\ <<>> \in Path
    BY LevelsAre DEF Path
  <2> QED BY <2>1, <1>0
<1>3. ASSUME NEW n \in 1..Depth, n - 1 \in T PROVE n \in T
  <2>1. L[n] = Below(L[n - 1]) /\ n - 1 \in 0..Depth
    BY LevelsAre, <1>0
  <2>2. ASSUME NEW node \in L[n - 1], NEW c \in Children(node) PROVE Good(c)
    <3> DEFINE at == node[1]
               v == node[2]
    <3>1. node = <<at, v>> /\ at \in Path /\ InPlace(node, r.provider)
      BY <1>1, <1>3, <2>1
    <3>2. c = <<c[1], c[2]>> /\ c \in Children(<<at, v>>)
      BY <3>1, ChildrenArePairs
    <3>3. CASE IsDict(v)
      <4>1. PICK k \in Keys(v) : c = <<Append(at, k), v[2][k]>>
        BY <3>2, <3>3, ChildrenAre, OneKind
      <4>2. k \in Elements
        BY <3>1, <4>1, PositionsAre DEF InPlace
      <4> HIDE DEF at, v
      <4> QED BY <3>1, <4>1, <4>2 DEF Path
    <3>4. CASE IsList(v)
      <4>1. PICK i \in DOMAIN v[2] : c = <<Append(at, Index(i)), v[2][i]>>
        BY <3>2, <3>4, ChildrenAre, OneKind
      <4>2. i \in 1..Len(Positions)
        BY <3>1, <3>4, <1>0 DEF InPlace
      <4>3. Index(i) \in Elements
        BY <4>2, PositionsAre
      <4> HIDE DEF at, v
      <4> QED BY <3>1, <4>1, <4>3 DEF Path
    <3>5. CASE IsEncoded(v)
      BY <3>1, <3>2, <3>5, ChildrenAre, OneKind
    <3> HIDE DEF at, v
    <3> QED BY <3>2, <3>3, <3>4, <3>5, ChildrenAre, OneKind
  <2>3. \A c \in L[n] : Good(c)
    BY <2>1, <2>2 DEF Below
  <2> HIDE DEF Good, L
  <2> QED BY <2>3
<1> HIDE DEF L
<1>4. \A n \in 0..Depth : n \in T
  <2> HIDE DEF T
  <2> QED BY <1>0, <1>2, <1>3, StepByStep
<1> QED BY <1>1, <1>4 DEF L

(* One path starts with another; IsPrefix for paths. *)
LEMMA PrefixAppend ==
  ASSUME NEW q \in Path, NEW at \in Path, NEW k \in Elements, IsPrefix(q, at)
  PROVE  IsPrefix(q, Append(at, k))
BY DEF IsPrefix, Path

LEMMA PrefixSelf ==
  ASSUME NEW q \in Path
  PROVE  IsPrefix(q, q)
BY DEF IsPrefix, Path

(* A path further down starts with that of the node above.                   *)
LEMMA PathsExtend ==
  ASSUME NEW r \in Requests, NEW n \in 0..Depth, NEW x, NEW q,
         <<q, x>> \in Levels(r.payload, <<>>)[n]
  PROVE  \A m \in 0..Depth - n : \A node \in Levels(x, q)[m] : IsPrefix(q, node[1])
<1> DEFINE L == Levels(r.payload, <<>>)
           T == {m \in 0..Depth - n : \A node \in Levels(x, q)[m] : IsPrefix(q, node[1])}
<1>0. Depth \in Nat /\ n \in Nat /\ Depth - n \in Nat
  BY JsonAssumption
<1>1. q \in Path
  BY NodesInPlace
<1>2. 0 \in T
  <2>1. Levels(x, q)[0] = {<<q, x>>}
    BY LevelsAre
  <2> QED BY <2>1, <1>0, <1>1, PrefixSelf
<1>3. ASSUME NEW m \in 1..Depth - n, m - 1 \in T PROVE m \in T
  <2>1. m - 1 \in 0..Depth - n /\ n + (m - 1) \in 0..Depth /\ n + m \in 0..Depth /\ m \in 1..Depth
        /\ m \in 0..Depth - n
    BY <1>0
  <2>2. Levels(x, q)[m] = Below(Levels(x, q)[m - 1])
    BY <2>1, LevelsAre
  <2>3. Levels(x, q)[m - 1] \subseteq L[n + (m - 1)] /\ Levels(x, q)[m] \subseteq L[n + m]
    BY <2>1, LevelsBelow
  <2>4. ASSUME NEW node \in Levels(x, q)[m - 1], NEW c \in Children(node), c \in L[n + m]
        PROVE  IsPrefix(q, c[1])
    <3> DEFINE at == node[1]
               v == node[2]
    <3>1. node = <<at, v>> /\ at \in Path /\ InPlace(node, r.provider) /\ c = <<c[1], c[2]>>
      BY <2>1, <2>3, <2>4, NodesInPlace
    <3>2. IsPrefix(q, at) /\ c \in Children(<<at, v>>)
      BY <1>3, <3>1
    <3>3. CASE IsDict(v)
      <4>1. PICK k \in Keys(v) : c = <<Append(at, k), v[2][k]>>
        BY <3>2, <3>3, ChildrenAre, OneKind
      <4>2. k \in Elements
        BY <3>1, <4>1, PositionsAre DEF InPlace
      <4> HIDE DEF at, v
      <4> QED BY <1>1, <3>1, <3>2, <4>1, <4>2, PrefixAppend
    <3>4. CASE IsList(v)
      <4>1. PICK i \in DOMAIN v[2] : c = <<Append(at, Index(i)), v[2][i]>>
        BY <3>2, <3>4, ChildrenAre, OneKind
      <4>2. i \in 1..Len(Positions)
        BY <3>1, <3>4, JsonAssumption DEF InPlace
      <4>3. Index(i) \in Elements
        BY <4>2, PositionsAre
      <4> HIDE DEF at, v
      <4> QED BY <1>1, <3>1, <3>2, <4>1, <4>3, PrefixAppend
    <3>5. CASE IsEncoded(v)
      BY <3>1, <3>2, <3>5, ChildrenAre, OneKind
    <3> HIDE DEF at, v
    <3> QED BY <3>2, <3>3, <3>4, <3>5, ChildrenAre, OneKind
  <2>5. \A c \in Levels(x, q)[m] : IsPrefix(q, c[1])
    BY <2>2, <2>3, <2>4 DEF Below
  <2> HIDE DEF L
  <2> QED BY <2>1, <2>5
<1>4. \A m \in 0..Depth - n : m \in T
  <2> HIDE DEF T, L
  <2> QED BY <1>0, <1>2, <1>3, StepByStep
<1> QED BY <1>4

(* A text of the user at `at` is at or below the value x at q.               *)
Passes(r, at, q, x) ==
    /\ \E n, m \in 0..Depth : /\ n + m <= Depth
                              /\ <<q, x>> \in Levels(r.payload, <<>>)[n]
                              /\ <<at, Text>> \in Levels(x, q)[m]
    /\ ValueAt(r.payload, q) = x

(* At the root of the request every text of the user is still to come.       *)
LEMMA Start ==
  ASSUME NEW r \in Requests, NEW at \in TextPaths(r.payload)
  PROVE  Passes(r, at, <<>>, r.payload)
<1>0. PICK n \in 0..Depth : \E node \in Levels(r.payload, <<>>)[n] : node[1] = at /\ node[2] = Text
  BY DEF TextPaths, Leaves, Nodes
<1>1. PICK node \in Levels(r.payload, <<>>)[n] : node[1] = at /\ node[2] = Text
  BY <1>0
<1>2. node = <<at, Text>>
  BY <1>1, NodesInPlace
<1>3. <<<<>>, r.payload>> \in Levels(r.payload, <<>>)[0]
  BY LevelsAre
<1>4. 0 \in 0..Depth /\ 0 + n <= Depth
  BY JsonAssumption
<1>5. ValueAt(r.payload, <<>>) = r.payload
  BY ValueOfRoot
<1> QED BY <1>1, <1>2, <1>3, <1>4, <1>5 DEF Passes

(* A string walk over a value finds the texts at and below it.               *)
LEMMA Ends ==
  ASSUME NEW r \in Requests, NEW at, NEW q, NEW x, Passes(r, at, q, x)
  PROVE  at \in StringPaths(x, q)
<1>1. PICK m \in 0..Depth : <<at, Text>> \in Levels(x, q)[m]
  BY DEF Passes
<1>2. <<at, Text>> \in Leaves(x, q)
  BY <1>1 DEF Leaves, Nodes, IsString, Text, String
<1> QED BY <1>2 DEF StringPaths

(* The value on the way stands where the assumption on requests says.        *)
LEMMA OnTheWay ==
  ASSUME NEW r \in Requests, NEW at, NEW q, NEW x, Passes(r, at, q, x)
  PROVE  /\ q \in Path /\ at \in Path /\ IsPrefix(q, at)
         /\ InPlace(<<q, x>>, r.provider) /\ ValueAt(r.payload, q) = x
<1>1. PICK n, m \in 0..Depth : /\ n + m <= Depth
                               /\ <<q, x>> \in Levels(r.payload, <<>>)[n]
                               /\ <<at, Text>> \in Levels(x, q)[m]
  BY DEF Passes
<1>2. m \in 0..Depth - n /\ n + m \in 0..Depth
  BY <1>1, JsonAssumption
<1>3. <<at, Text>> \in Levels(r.payload, <<>>)[n + m]
  BY <1>1, <1>2, LevelsBelow
<1>4. at \in Path /\ q \in Path /\ InPlace(<<q, x>>, r.provider)
  BY <1>1, <1>2, <1>3, NodesInPlace
<1>5. IsPrefix(q, at)
  BY <1>1, <1>2, PathsExtend
<1> QED BY <1>4, <1>5 DEF Passes

(* From a value on the way: it is the text, or one child is on the way.      *)
LEMMA Down ==
  ASSUME NEW r \in Requests, NEW at, NEW q, NEW x, Passes(r, at, q, x)
  PROVE  \/ at = q /\ x = Text
         \/ IsDict(x) /\ \E k \in Keys(x) : k \in STRING /\ Passes(r, at, Append(q, k), Get(x, k))
         \/ IsList(x) /\ \E i \in DOMAIN x[2] :
               i \in 1..Len(Positions) /\ Passes(r, at, Append(q, Index(i)), x[2][i])
         \/ IsEncoded(x)
<1>0. Depth \in Nat /\ Len(Positions) \in Nat
  BY JsonAssumption
<1>1. PICK n, m \in 0..Depth : /\ n + m <= Depth
                               /\ <<q, x>> \in Levels(r.payload, <<>>)[n]
                               /\ <<at, Text>> \in Levels(x, q)[m]
  BY DEF Passes
<1>2. CASE m = 0
  <2>1. <<at, Text>> = <<q, x>>
    BY <1>1, <1>2, LevelsAre
  <2> QED BY <2>1
<1>3. CASE m # 0
  <2>1. m \in 1..Depth /\ n + 1 \in 1..Depth /\ m - 1 \in 0..Depth /\ n + 1 \in 0..Depth
        /\ (n + 1) + (m - 1) <= Depth /\ n + 1 - 1 = n
    BY <1>0, <1>1, <1>3
  <2>2. PICK c \in Children(<<q, x>>) : <<at, Text>> \in Levels(c[2], c[1])[m - 1]
    BY <1>1, <2>1, FromTheTop
  <2>3. c \in Levels(r.payload, <<>>)[n + 1]
    BY <1>1, <2>1, <2>2, LevelsAre DEF Below
  <2>4. c = <<c[1], c[2]>> /\ InPlace(<<q, x>>, r.provider) /\ q \in Path
    BY <1>1, <2>2, ChildrenArePairs, NodesInPlace
  <2>5. ValueAt(r.payload, c[1]) = c[2] => Passes(r, at, c[1], c[2])
    BY <2>1, <2>2, <2>3, <2>4 DEF Passes
  <2>6. ValueAt(r.payload, q) = x
    BY DEF Passes
  <2>7. CASE IsDict(x)
    <3>1. PICK k \in Keys(x) : c = <<Append(q, k), x[2][k]>>
      BY <2>2, <2>7, ChildrenAre, OneKind
    <3>2. k \in STRING /\ k \in Elements /\ ~ IsList(x)
      BY <2>4, <2>7, <3>1, PositionsAre DEF InPlace, IsDict, IsList
    <3>3. ValueAt(r.payload, Append(q, k)) = Get(x, k) /\ Get(x, k) = x[2][k]
      BY <2>4, <2>6, <3>1, <3>2, ValueOfChild DEF Child, Get
    <3> QED BY <2>5, <2>7, <3>1, <3>2, <3>3
  <2>8. CASE IsList(x)
    <3>1. PICK i \in DOMAIN x[2] : c = <<Append(q, Index(i)), x[2][i]>>
      BY <2>2, <2>8, ChildrenAre, OneKind
    <3>2. i \in 1..Len(Positions)
      BY <2>4, <2>8, <3>1, <1>0 DEF InPlace
    <3>3. Index(i) \in Elements /\ IndexOf(Index(i)) = i
      BY <3>2, PositionsAre
    <3>4. ValueAt(r.payload, Append(q, Index(i))) = x[2][i]
      BY <2>4, <2>6, <2>8, <3>3, ValueOfChild DEF Child
    <3> QED BY <2>5, <2>8, <3>1, <3>2, <3>4
  <2>9. CASE ~ IsDict(x) /\ ~ IsList(x)
    BY <2>2, <2>9, ChildrenAre, OneKind
  <2> QED BY <2>7, <2>8, <2>9
<1> QED BY <1>2, <1>3

-----------------------------------------------------------------------------
(* The patterns of longer paths.                                             *)
LEMMA PatternOfChild ==
  ASSUME NEW q \in Path, NEW k \in Elements
  PROVE  Pattern(Append(q, k)) = Append(Pattern(q), IF IsIndex(k) THEN Anywhere ELSE k)
<1> DEFINE e == IF IsIndex(k) THEN Anywhere ELSE k
<1>1. DOMAIN q = 1..Len(q) /\ Len(q) \in Nat
      /\ DOMAIN Append(q, k) = 1..Len(q) + 1 /\ Append(q, k)[Len(q) + 1] = k
      /\ \A i \in 1..Len(q) : Append(q, k)[i] = q[i]
  BY DEF Path
<1>2. DOMAIN Pattern(q) = 1..Len(q) /\ Len(Pattern(q)) = Len(q) /\ \A i \in 1..Len(q) : Pattern(q)[i] \in Elements \cup {Anywhere}
  BY <1>1, ElementOfSeq DEF Pattern, Path
<1>3. Pattern(q) \in Seq(Elements \cup {Anywhere})
  BY <1>1, <1>2 DEF Pattern
<1>4. Append(Pattern(q), e) = [i \in 1..Len(q) + 1 |-> IF i = Len(q) + 1 THEN e ELSE Pattern(q)[i]]
  BY <1>1, <1>2, <1>3
<1>5. Pattern(Append(q, k)) = [i \in 1..Len(q) + 1 |-> IF IsIndex(Append(q, k)[i]) THEN Anywhere ELSE Append(q, k)[i]]
  BY <1>1 DEF Pattern
<1>6. \A i \in 1..Len(q) + 1 : i # Len(q) + 1 => i \in 1..Len(q)
  BY <1>1
<1>7. \A i \in 1..Len(q) : Pattern(q)[i] = IF IsIndex(q[i]) THEN Anywhere ELSE q[i]
  BY <1>1 DEF Pattern
<1> QED BY <1>1, <1>4, <1>5, <1>6, <1>7

LEMMA PatternPrefix ==
  ASSUME NEW q \in Path, NEW at \in Path, IsPrefix(q, at)
  PROVE  IsPrefix(Pattern(q), Pattern(at))
<1>1. Len(q) \in Nat /\ Len(at) \in Nat /\ Len(q) <= Len(at) /\ SubSeq(q, 1, Len(q)) = SubSeq(at, 1, Len(q))
      /\ DOMAIN q = 1..Len(q) /\ DOMAIN at = 1..Len(at)
  BY DEF IsPrefix, Path
<1>2. \A i \in 1..Len(q) : q[i] = at[i]
  <2>1. ASSUME NEW i \in 1..Len(q) PROVE SubSeq(q, 1, Len(q))[i] = q[i] /\ SubSeq(at, 1, Len(q))[i] = at[i]
    BY <1>1 DEF Path
  <2> QED BY <1>1, <2>1
<1>3. DOMAIN Pattern(q) = 1..Len(q) /\ DOMAIN Pattern(at) = 1..Len(at)
  BY <1>1 DEF Pattern
<1>4. \A i \in 1..Len(q) : Pattern(q)[i] = Pattern(at)[i]
  BY <1>1, <1>2 DEF Pattern
<1>5. Len(Pattern(q)) = Len(q) /\ Len(Pattern(at)) = Len(at)
  BY <1>1, <1>3
<1>6. Pattern(q) \in Seq(Elements \cup {Anywhere}) /\ Pattern(at) \in Seq(Elements \cup {Anywhere})
  BY <1>1, <1>3, ElementOfSeq DEF Pattern, Path
<1>7. SubSeq(Pattern(q), 1, Len(q)) = SubSeq(Pattern(at), 1, Len(q))
  BY <1>1, <1>3, <1>4, <1>5, <1>6
<1> QED BY <1>1, <1>5, <1>7 DEF IsPrefix

(* What stands on the way to a text shows at its place. *)
LEMMA PrefixParts ==
  ASSUME NEW q \in Path, NEW k \in Elements, NEW at \in Path, IsPrefix(Append(q, k), at)
  PROVE  /\ Len(q) + 1 \in 1..Len(at) /\ at[Len(q) + 1] = k
         /\ SubSeq(at, 1, Len(q) + 1) = Append(q, k)
<1>1. Len(Append(q, k)) = Len(q) + 1 /\ Len(q) \in Nat /\ Append(q, k) \in Path /\ Len(at) \in Nat
  BY DEF Path
<1>2. Len(q) + 1 <= Len(at) /\ SubSeq(Append(q, k), 1, Len(q) + 1) = SubSeq(at, 1, Len(q) + 1)
  BY <1>1 DEF IsPrefix
<1>3. SubSeq(Append(q, k), 1, Len(q) + 1) = Append(q, k)
  BY <1>1 DEF Path
<1>4. SubSeq(at, 1, Len(q) + 1)[Len(q) + 1] = at[Len(q) + 1]
  BY <1>1, <1>2 DEF Path
<1> QED BY <1>1, <1>2, <1>3, <1>4

(* A value of another type than expected makes the path Misshapen.           *)
LEMMA WrongShape ==
  ASSUME NEW r \in Requests, NEW at, NEW q \in Path, NEW k \in Elements, NEW x,
         Passes(r, at, Append(q, k), x), NEW patterns,
         Pattern(Append(q, k)) \in patterns,
         IF IsIndex(k) THEN ~ IsDict(x) ELSE ~ IsList(x)
  PROVE  Misshapen(r.payload, at, patterns)
<1>1. at \in Path /\ IsPrefix(Append(q, k), at) /\ ValueAt(r.payload, Append(q, k)) = x
  BY OnTheWay
<1>2. /\ Len(q) + 1 \in 1..Len(at) /\ at[Len(q) + 1] = k
      /\ SubSeq(at, 1, Len(q) + 1) = Append(q, k)
  BY <1>1, PrefixParts
<1> QED BY <1>1, <1>2 DEF Misshapen

-----------------------------------------------------------------------------
(* Sequences one element longer, and the patterns of up to six elements.     *)
LEMMA LongerPath ==
  ASSUME NEW q \in Path, NEW k \in Elements
  PROVE  Append(q, k) \in Path /\ Len(Append(q, k)) = Len(q) + 1 /\ Len(q) \in Nat
         /\ SubSeq(Append(q, k), 1, Len(q)) = q
<1>1. Append(q, k) \in Path /\ Len(Append(q, k)) = Len(q) + 1 /\ Len(q) \in Nat
  BY DEF Path
<1>2. SubSeq(Append(q, k), 1, Len(q)) = q
  BY DEF Path
<1> QED BY <1>1, <1>2

LEMMA LongerBy ==
  ASSUME NEW S, NEW s \in Seq(S), NEW a \in S, NEW t \in Seq(S), Len(t) = Len(s) + 1,
         \A i \in 1..Len(s) : t[i] = s[i], t[Len(s) + 1] = a
  PROVE  Append(s, a) = t
<1>1. Append(s, a) \in Seq(S) /\ Len(Append(s, a)) = Len(t) /\ \A i \in 1..Len(t) : Append(s, a)[i] = t[i]
  OBVIOUS
<1> QED BY <1>1, SeqEqual

LEMMA Appended1 ==
  ASSUME NEW a, NEW b
  PROVE  Append(<<b>>, a) = <<b, a>>
<1> DEFINE S == {b, a}
           s == <<b>>
           t == <<b, a>>
<1>1. s \in Seq(S) /\ a \in S /\ t \in Seq(S) /\ Len(s) = 1 /\ Len(t) = 1 + 1 /\ t[1 + 1] = a
  OBVIOUS
<1>2. \A i \in 1..1 : t[i] = s[i]
  OBVIOUS
<1> HIDE DEF S, s, t
<1>3. Append(s, a) = t
  BY <1>1, <1>2, LongerBy
<1> QED BY <1>3 DEF s, t

LEMMA Appended2 ==
  ASSUME NEW a, NEW b, NEW c
  PROVE  Append(<<b, c>>, a) = <<b, c, a>>
<1> DEFINE S == {b, c, a}
           s == <<b, c>>
           t == <<b, c, a>>
<1>1. s \in Seq(S) /\ a \in S /\ t \in Seq(S) /\ Len(s) = 2 /\ Len(t) = 2 + 1 /\ t[2 + 1] = a
  OBVIOUS
<1>2. \A i \in 1..2 : t[i] = s[i]
  OBVIOUS
<1> HIDE DEF S, s, t
<1>3. Append(s, a) = t
  BY <1>1, <1>2, LongerBy
<1> QED BY <1>3 DEF s, t

LEMMA Appended3 ==
  ASSUME NEW a, NEW b, NEW c, NEW d
  PROVE  Append(<<b, c, d>>, a) = <<b, c, d, a>>
<1> DEFINE S == {b, c, d, a}
           s == <<b, c, d>>
           t == <<b, c, d, a>>
<1>1. s \in Seq(S) /\ a \in S /\ t \in Seq(S) /\ Len(s) = 3 /\ Len(t) = 3 + 1 /\ t[3 + 1] = a
  OBVIOUS
<1>2. \A i \in 1..3 : t[i] = s[i]
  OBVIOUS
<1> HIDE DEF S, s, t
<1>3. Append(s, a) = t
  BY <1>1, <1>2, LongerBy
<1> QED BY <1>3 DEF s, t

LEMMA Appended4 ==
  ASSUME NEW a, NEW b, NEW c, NEW d, NEW e
  PROVE  Append(<<b, c, d, e>>, a) = <<b, c, d, e, a>>
<1> DEFINE S == {b, c, d, e, a}
           s == <<b, c, d, e>>
           t == <<b, c, d, e, a>>
<1>1. s \in Seq(S) /\ a \in S /\ t \in Seq(S) /\ Len(s) = 4 /\ Len(t) = 4 + 1 /\ t[4 + 1] = a
  OBVIOUS
<1>2. \A i \in 1..4 : t[i] = s[i]
  OBVIOUS
<1> HIDE DEF S, s, t
<1>3. Append(s, a) = t
  BY <1>1, <1>2, LongerBy
<1> QED BY <1>3 DEF s, t

LEMMA Appended5 ==
  ASSUME NEW a, NEW b, NEW c, NEW d, NEW e, NEW f
  PROVE  Append(<<b, c, d, e, f>>, a) = <<b, c, d, e, f, a>>
<1> DEFINE S == {b, c, d, e, f, a}
           s == <<b, c, d, e, f>>
           t == <<b, c, d, e, f, a>>
<1>1. s \in Seq(S) /\ a \in S /\ t \in Seq(S) /\ Len(s) = 5 /\ Len(t) = 5 + 1 /\ t[5 + 1] = a
  OBVIOUS
<1>2. \A i \in 1..5 : t[i] = s[i]
  OBVIOUS
<1> HIDE DEF S, s, t
<1>3. Append(s, a) = t
  BY <1>1, <1>2, LongerBy
<1> QED BY <1>3 DEF s, t

LEMMA Appended6 ==
  ASSUME NEW a, NEW b, NEW c, NEW d, NEW e, NEW f, NEW g
  PROVE  Append(<<b, c, d, e, f, g>>, a) = <<b, c, d, e, f, g, a>>
<1> DEFINE S == {b, c, d, e, f, g, a}
           s == <<b, c, d, e, f, g>>
           t == <<b, c, d, e, f, g, a>>
<1>1. s \in Seq(S) /\ a \in S /\ t \in Seq(S) /\ Len(s) = 6 /\ Len(t) = 6 + 1 /\ t[6 + 1] = a
  OBVIOUS
<1>2. \A i \in 1..6 : t[i] = s[i]
  OBVIOUS
<1> HIDE DEF S, s, t
<1>3. Append(s, a) = t
  BY <1>1, <1>2, LongerBy
<1> QED BY <1>3 DEF s, t

(* A walk that neither reads the text at `at` nor finds anything to refuse.  *)
Clean(S, at) == at \notin Places(S, {"text"}) /\ Places(S, {"error", "unknown", "unscannable"}) = {}

(* A clean walk is clean in every part, and no place found makes it unclean. *)
LEMMA CleanPart ==
  ASSUME NEW S, NEW T, NEW at, S \subseteq T, Clean(T, at)
  PROVE  Clean(S, at)
BY DEF Clean, Places

LEMMA CleanFound ==
  ASSUME NEW q, NEW how, NEW at, Clean(Found(q, how), at)
  PROVE  how \notin {"error", "unknown", "unscannable"} /\ (how = "text" => at # q)
<1> DEFINE found == [at |-> q, how |-> how]
<1>1. Found(q, how) = {found} /\ found.at = q /\ found.how = how
  BY DEF Found
<1> HIDE DEF found
<1>2. \A hows : how \in hows => q \in Places(Found(q, how), hows)
  BY <1>1 DEF Places
<1> QED BY <1>2 DEF Clean

(* What is falsy or a word of the API holds no text of the user.             *)
LEMMA FalsyIs ==
  ASSUME NEW x
  PROVE  /\ Falsy(x) => x # Text /\ ~ IsEncoded(x)
                        /\ (IsDict(x) => Keys(x) = {}) /\ (IsList(x) => DOMAIN x[2] = {})
         /\ IsString(x) => ~ IsDict(x) /\ ~ IsList(x) /\ ~ IsEncoded(x)
<1>1. IsString(x) => ~ IsDict(x) /\ ~ IsList(x) /\ ~ IsEncoded(x)
  BY DEF IsString, IsDict, IsList, IsEncoded
<1>2. Text[1] = "str" /\ Text[2] = "text of the user"
  BY DEF Text, String
<1>3. ASSUME x \in {Null, Zero, String("")}
      PROVE  x # Text /\ x[1] \in {"null", "zero", "str"}
  <2>1. Null[1] = "null" /\ Zero[1] = "zero" /\ String("")[1] = "str" /\ String("")[2] = ""
    BY DEF Null, Zero, String
  <2> QED BY <1>2, <1>3, <2>1
<1>4. CASE x \in {Null, Zero, String("")}
  BY <1>1, <1>3, <1>4 DEF IsDict, IsList, IsEncoded
<1>5. CASE IsDict(x) /\ Keys(x) = {}
  BY <1>1, <1>2, <1>5, OneKind DEF IsDict
<1>6. CASE IsList(x) /\ x[2] = <<>>
  <2>1. \A s : s = <<>> => DOMAIN s = {}
    OBVIOUS
  <2>2. DOMAIN x[2] = {} /\ ~ IsDict(x) /\ ~ IsEncoded(x) /\ x # Text
    BY <1>2, <1>6, <2>1, OneKind DEF IsList
  <2> QED BY <1>1, <2>2
<1> QED BY <1>1, <1>4, <1>5, <1>6 DEF Falsy

LEMMA NothingBelow ==
  ASSUME NEW r \in Requests, NEW at, NEW q, NEW x, Passes(r, at, q, x)
  PROVE  ~ Falsy(x) /\ (IsString(x) => at = q /\ x = Text)
<1>1. \/ at = q /\ x = Text
      \/ IsDict(x) /\ Keys(x) # {}
      \/ IsList(x) /\ DOMAIN x[2] # {}
      \/ IsEncoded(x)
  BY Down
<1> QED BY <1>1, FalsyIs

(* A step from q towards the text, by the key or position k to the value x. *)
Onward(r, at, q, k, x) ==
    /\ k \in Elements /\ Append(q, k) \in Path /\ Len(Append(q, k)) = Len(q) + 1
    /\ Pattern(Append(q, k)) = Append(Pattern(q), IF IsIndex(k) THEN Anywhere ELSE k)
    /\ Passes(r, at, Append(q, k), x)

(* Down, as a step by a key of an object or a position of an array.          *)
LEMMA DownDict ==
  ASSUME NEW r \in Requests, NEW at, NEW q, NEW x, Passes(r, at, q, x), IsDict(x)
  PROVE  \E k \in Keys(x) : ~ IsIndex(k) /\ k \in STRING /\ Onward(r, at, q, k, Get(x, k))
<1>1. x # Text
  <2>1. Text[1] = "str"
    BY DEF Text, String
  <2> QED BY <2>1 DEF IsDict
<1>2. PICK k \in Keys(x) : k \in Elements /\ ~ IsIndex(k) /\ k \in STRING
                           /\ Passes(r, at, Append(q, k), Get(x, k))
  BY <1>1, Down, OneKind, PositionsAre
<1>3. q \in Path
  BY OnTheWay
<1>4. Pattern(Append(q, k)) = Append(Pattern(q), IF IsIndex(k) THEN Anywhere ELSE k)
  BY <1>2, <1>3, PatternOfChild
<1> QED BY <1>2, <1>3, <1>4, LongerPath DEF Onward

LEMMA DownList ==
  ASSUME NEW r \in Requests, NEW at, NEW q, NEW x, Passes(r, at, q, x), IsList(x)
  PROVE  \E i \in DOMAIN x[2] : IsIndex(Index(i)) /\ IndexOf(Index(i)) = i /\ Onward(r, at, q, Index(i), x[2][i])
<1>1. x # Text
  <2>1. Text[1] = "str"
    BY DEF Text, String
  <2> QED BY <2>1 DEF IsList
<1>2. PICK i \in DOMAIN x[2] : /\ Index(i) \in Elements /\ IsIndex(Index(i)) /\ IndexOf(Index(i)) = i
                               /\ Passes(r, at, Append(q, Index(i)), x[2][i])
  BY <1>1, Down, OneKind, PositionsAre
<1>3. q \in Path
  BY OnTheWay
<1>4. Pattern(Append(q, Index(i))) = Append(Pattern(q), IF IsIndex(Index(i)) THEN Anywhere ELSE Index(i))
  BY <1>2, <1>3, PatternOfChild
<1> QED BY <1>2, <1>3, <1>4, LongerPath DEF Onward

LEMMA DownRoot ==
  ASSUME NEW r \in Requests, NEW at \in TextPaths(r.payload)
  PROVE  \E k \in Keys(r.payload) :
            /\ ~ IsIndex(k) /\ k \in STRING /\ Pattern(<<k>>) = <<k>> /\ <<k>> \in Path /\ Len(<<k>>) = 1
            /\ k \in Elements /\ Passes(r, at, <<k>>, Get(r.payload, k)) /\ Onward(r, at, <<>>, k, Get(r.payload, k))
<1>1. IsDict(r.payload) /\ Passes(r, at, <<>>, r.payload)
  BY Start, CoverageAssumption
<1>2. PICK k \in Keys(r.payload) : ~ IsIndex(k) /\ k \in STRING /\ Onward(r, at, <<>>, k, Get(r.payload, k))
  BY <1>1, DownDict
<1>3. Append(<<>>, k) = <<k>> /\ Pattern(<<>>) = <<>> /\ Len(<<k>>) = 1
  BY DEF Pattern
<1> QED BY <1>2, <1>3 DEF Onward

(* The step from q towards the text. *)
LEMMA NextOnTheWay ==
  ASSUME NEW r \in Requests, NEW at, NEW q, NEW x, Passes(r, at, q, x), Len(at) > Len(q), ~ IsEncoded(x)
  PROVE  LET k == at[Len(q) + 1]
         IN  /\ k \in Elements /\ IF IsIndex(k) THEN IsList(x) /\ k = Index(IndexOf(k)) /\ IndexOf(k) \in DOMAIN x[2] ELSE IsDict(x)
             /\ \E c : Passes(r, at, Append(q, k), c)
                       /\ c = IF IsIndex(k) THEN x[2][IndexOf(k)] ELSE Get(x, k)
<1>1. q \in Path /\ at \in Path
  BY OnTheWay
<1>2. CASE IsDict(x)
  <2>1. PICK k \in Keys(x) : ~ IsIndex(k) /\ k \in STRING /\ Onward(r, at, q, k, Get(x, k))
    BY <1>2, DownDict
  <2>2. at[Len(q) + 1] = k
    BY <1>1, <2>1, OnTheWay, PrefixParts DEF Onward
  <2> QED BY <1>2, <2>1, <2>2 DEF Onward
<1>3. CASE IsList(x)
  <2>1. PICK i \in DOMAIN x[2] : IsIndex(Index(i)) /\ IndexOf(Index(i)) = i /\ Onward(r, at, q, Index(i), x[2][i])
    BY <1>3, DownList
  <2>2. at[Len(q) + 1] = Index(i)
    <3>1. Index(i) \in Elements /\ IsPrefix(Append(q, Index(i)), at)
      BY <2>1, OnTheWay DEF Onward
    <3> QED BY <1>1, <3>1, PrefixParts
  <2> QED BY <1>3, <2>1, <2>2 DEF Onward
<1>4. at # q
  BY <1>1 DEF Path
<1> QED BY <1>2, <1>3, <1>4, Down

(* The type of a block is a word of the API, not what the user wrote. *)
LEMMA NotInWord ==
  ASSUME NEW r \in Requests, NEW at, NEW q, NEW x, NEW k, Word(x, k) # "", Word(x, k) # "text of the user"
  PROVE  ~ Passes(r, at, q, Get(x, k))
<1>1. Text[2] = "text of the user"
  BY DEF Text, String
<1> QED BY <1>1, NothingBelow DEF Word

(* The three ways a scrubber reads: a span, the strings of a value, and the  *)
(* strings of the JSON in a string.  None leaves a text below unread.        *)
LEMMA SpanIsRead ==
  ASSUME NEW r \in Requests, NEW at, NEW q, NEW x, Passes(r, at, q, x), Clean(ScanSpan(x, q), at)
  PROVE  FALSE
<1>1. CASE IsString(x)
  BY <1>1, NothingBelow, CleanFound DEF ScanSpan
<1>2. CASE ~ IsString(x)
  <2>1. ScanSpan(x, q) = Found(q, "error")
    BY <1>2, NothingBelow DEF ScanSpan
  <2> QED BY <2>1, CleanFound
<1> QED BY <1>1, <1>2

LEMMA JsonIsRead ==
  ASSUME NEW r \in Requests, NEW at, NEW q, NEW x, Passes(r, at, q, x)
  PROVE  /\ ~ Clean(UNION {Found(p, "text") : p \in StringPaths(OrEmpty(x), q)}, at)
         /\ ~ Clean(UNION {Found(p, "text") : p \in StringPaths(x, q)}, at)
<1>1. at \in StringPaths(x, q) /\ OrEmpty(x) = x
  BY Ends, NothingBelow DEF OrEmpty
<1> DEFINE S == UNION {Found(p, "text") : p \in StringPaths(x, q)}
<1>2. [at |-> at, how |-> "text"] \in S
  BY <1>1 DEF Found
<1>3. at \in Places(S, {"text"})
  <2>1. [at |-> at, how |-> "text"].at = at /\ [at |-> at, how |-> "text"].how = "text"
    OBVIOUS
  <2> HIDE DEF S
  <2> QED BY <1>2, <2>1 DEF Places
<1> QED BY <1>1, <1>3 DEF Clean

LEMMA EncodedIsRead ==
  ASSUME NEW r \in Requests, NEW at, NEW q, NEW x, Passes(r, at, q, x), IsEncoded(x)
  PROVE  ~ Clean(UNION {Found(p, "text") : p \in StringPaths(x[2], q)}, at)
<1>1. PICK m \in 0..Depth : <<at, Text>> \in Levels(x, q)[m]
  BY DEF Passes
<1>2. m # 0
  <2>1. Text[1] = "str"
    BY DEF Text, String
  <2>2. <<at, Text>> # <<q, x>>
    BY <2>1 DEF IsEncoded
  <2> QED BY <1>1, <2>2, LevelsAre
<1>3. m \in 1..Depth /\ m - 1 \in 0..Depth
  BY <1>2, JsonAssumption
<1>4. PICK c \in Children(<<q, x>>) : <<at, Text>> \in Levels(c[2], c[1])[m - 1]
  BY <1>1, <1>3, FromTheTop
<1>5. c = <<q, x[2]>>
  BY <1>4, ChildrenAre, OneKind
<1>6. <<at, Text>> \in Levels(x[2], q)[m - 1]
  BY <1>4, <1>5
<1>7. <<at, Text>> \in Leaves(x[2], q)
  BY <1>3, <1>6 DEF Leaves, Nodes, IsString, Text, String
<1>8. at \in StringPaths(x[2], q)
  BY <1>7 DEF StringPaths
<1> DEFINE S == UNION {Found(p, "text") : p \in StringPaths(x[2], q)}
<1>9. [at |-> at, how |-> "text"] \in S
  BY <1>8 DEF Found
<1>10. at \in Places(S, {"text"})
  <2>1. [at |-> at, how |-> "text"].at = at /\ [at |-> at, how |-> "text"].how = "text"
    OBVIOUS
  <2> HIDE DEF S
  <2> QED BY <1>9, <2>1 DEF Places
<1> QED BY <1>10 DEF Clean

(* No key beyond the known ones.                                             *)
LEMMA Known ==
  ASSUME NEW v, NEW at, NEW known, Extra(v, at, known) = {}
  PROVE  Keys(v) \subseteq known
BY DEF Extra

-----------------------------------------------------------------------------
(* OpenAI. *)
(* The instance speaks of the same values, paths and places as this module.  *)
LEMMA OpenAISame ==
  /\ \A v : O!IsString(v) = IsString(v) /\ O!IsDict(v) = IsDict(v) /\ O!IsList(v) = IsList(v)
            /\ O!IsEncoded(v) = IsEncoded(v) /\ O!Falsy(v) = Falsy(v) /\ O!Keys(v) = Keys(v)
  /\ \A v, k : O!Get(v, k) = Get(v, k) /\ O!Word(v, k) = Word(v, k)
  /\ O!Null = Null
  /\ \A s, t : O!IsPrefix(s, t) = IsPrefix(s, t)
  /\ \A at, how : O!Found(at, how) = Found(at, how)
  /\ \A v, at : O!ScanSpan(v, at) = ScanSpan(v, at)
  /\ \A v, at, known : O!Extra(v, at, known) = Extra(v, at, known)
  /\ \A at : O!Unknown(at) = Found(at, "unknown") /\ O!Unscannable(at) = Found(at, "unscannable")
             /\ O!ScanTarget(at) = Found(at, "text")
  /\ \A i : O!Index(i) = Index(i)
BY DEF O!Unknown, O!Unscannable, O!ScanTarget, O!Index, Index, O!IsString, O!IsDict, O!IsList, O!IsEncoded, O!Falsy, O!Keys, O!Get, O!Word, O!Found, O!ScanSpan, O!Extra,
       O!Null, O!IsPrefix, IsPrefix, O!Zero, O!String,
       IsString, IsDict, IsList, IsEncoded, Falsy, Keys, Get, Word, Found, ScanSpan, Extra, Null, Zero, String

(* The same of what is defined along a path.                                 *)
LEMMA OpenAIPaths ==
  /\ \A v, at : O!StringPaths(v, at) = StringPaths(v, at)
  /\ \A at : O!Pattern(at) = Pattern(at)
  /\ \A v, at : O!ValueAt(v, at) = ValueAt(v, at)
  /\ \A v, at, patterns : O!Misshapen(v, at, patterns) = Misshapen(v, at, patterns)
<1>1. \A v, at : O!StringPaths(v, at) = StringPaths(v, at)
  BY DEF O!StringPaths, O!Leaves, O!Nodes, O!Levels, O!Below, O!Children, O!IsString, O!IsDict, O!IsList, O!IsEncoded,
         O!Keys, O!Index,
         StringPaths, Leaves, Nodes, Levels, Below, Children, IsString, IsDict, IsList, IsEncoded, Keys, Index
<1>2. \A at : O!Pattern(at) = Pattern(at)
  BY DEF O!Pattern, O!IsIndex, O!ToSet, Pattern, IsIndex, ToSet
<1>3. \A v, at : O!ValueAt(v, at) = ValueAt(v, at)
  BY DEF O!ValueAt, O!IsList, O!IndexOf, O!Index, O!Get, O!Keys, O!Null, O!IsDict,
         ValueAt, IsList, IndexOf, Index, Get, Keys, Null, IsDict
<1>4. \A v, at, patterns : O!Misshapen(v, at, patterns) = Misshapen(v, at, patterns)
  BY <1>2, <1>3 DEF O!Misshapen, Misshapen, O!IsIndex, IsIndex, O!ToSet, ToSet, O!IsDict, IsDict, O!IsList, IsList
<1> QED BY <1>1, <1>2, <1>3, <1>4

(* Each function, on the way to a text: a part of the content, the content,  *)
(* the arguments, the tool calls, a message, the request.                    *)
LEMMA OpenAIPart ==
  ASSUME NEW r \in Requests, NEW at, NEW q, NEW b, Passes(r, at, q, b), IsDict(b),
         Clean(O!ScrubPart(b, q), at), O!DiffPart(b, q) = {}
  PROVE  FALSE
<1>0. PICK k \in Keys(b) : ~ IsIndex(k) /\ k \in STRING /\ Onward(r, at, q, k, Get(b, k))
  BY DownDict
<1>1. Passes(r, at, Append(q, k), Get(b, k))
  BY <1>0 DEF Onward
<1> DEFINE w == Word(b, "type")
<1>2. k \in O!PartKeys(b)
  BY <1>1, Known, OpenAISame DEF O!DiffPart
<1>3. CASE w \in {"text", "refusal"}
  <2>1. O!ScrubPart(b, q) = ScanSpan(Get(b, w), Append(q, w))
    BY <1>3, OpenAISame DEF O!ScrubPart
  <2>2. k = "type" \/ k = w
    BY <1>2, <1>3, OpenAISame DEF O!PartKeys, O!PartTypes
  <2>3. k # "type"
    BY <1>1, <1>3, NotInWord
  <2> QED BY <1>1, <2>1, <2>2, <2>3, SpanIsRead
<1>4. CASE w \in {"image_url", "input_audio", "file"}
  <2>1. O!ScrubPart(b, q) = Found(q, "unscannable")
    BY <1>4, OpenAISame DEF O!ScrubPart, O!Unscannable
  <2> QED BY <2>1, CleanFound
<1>5. CASE w \notin {"text", "refusal", "image_url", "input_audio", "file"}
  <2>1. O!ScrubPart(b, q) = Found(q, "unknown")
    BY <1>5, OpenAISame DEF O!ScrubPart, O!Unknown
  <2> QED BY <2>1, CleanFound
<1> QED BY <1>3, <1>4, <1>5

(* Below a key that nothing reads, or a value of the wrong shape.            *)
LEMMA OpenAIUnreadKey ==
  ASSUME NEW r \in Requests, NEW at, NEW q \in Path, NEW x, Passes(r, at, q, x), Pattern(q) \in O!UnreadKeys
  PROVE  O!Unread(r.payload, at)
BY OnTheWay, PatternPrefix, OpenAIPaths, OpenAISame DEF O!Unread

LEMMA OpenAIWrongShape ==
  ASSUME NEW r \in Requests, NEW at, NEW q \in Path, NEW k \in Elements, NEW x,
         Passes(r, at, Append(q, k), x),
         Pattern(Append(q, k)) \in O!Shapes,
         IF IsIndex(k) THEN ~ IsDict(x) ELSE ~ IsList(x)
  PROVE  O!Unread(r.payload, at)
<1>1. Misshapen(r.payload, at, O!Shapes)
  BY WrongShape
<1> QED BY <1>1, OpenAIPaths DEF O!Unread

LEMMA OpenAIContent ==
  ASSUME NEW r \in Requests, NEW at, NEW q \in Path, NEW v, Passes(r, at, q, v),
         Pattern(q) = <<"messages", Anywhere, "content">>,
         Clean(O!ScrubContent(v, q), at),
         IsList(v) => \A i \in DOMAIN v[2] : O!DiffPart(v[2][i], Append(q, Index(i))) = {}
  PROVE  O!Unread(r.payload, at)
<1>1. v # Null /\ ~ Falsy(v)
  BY NothingBelow DEF Falsy
<1>2. CASE IsString(v)
  <2>1. O!ScrubContent(v, q) = ScanSpan(v, q)
    BY <1>1, <1>2, FalsyIs, OpenAISame DEF O!ScrubContent, O!EachItem
  <2> QED BY <2>1, SpanIsRead
<1>3. CASE IsList(v)
  <2>0. PICK i \in DOMAIN v[2] : IsIndex(Index(i)) /\ IndexOf(Index(i)) = i /\ Onward(r, at, q, Index(i), v[2][i])
    BY <1>3, DownList
  <2>1. /\ Index(i) \in Elements /\ IsIndex(Index(i)) /\ Passes(r, at, Append(q, Index(i)), v[2][i])
        /\ Pattern(Append(q, Index(i))) = Append(Pattern(q), Anywhere)
    BY <2>0 DEF Onward
  <2> DEFINE b == v[2][i]
             here == Append(q, Index(i))
  <2>2. Index(i) \in Elements /\ IsIndex(Index(i))
    BY <2>1
  <2>3. O!ScrubContent(v, q) = UNION {O!ScrubPart(v[2][j], Append(q, O!Index(j))) : j \in DOMAIN v[2]}
    BY <1>1, <1>3, FalsyIs, OpenAISame DEF O!ScrubContent, O!EachItem
  <2>4. Clean(O!ScrubPart(b, here), at)
    <3>1. O!ScrubPart(b, here) \subseteq O!ScrubContent(v, q)
      BY <2>1, <2>3 DEF O!Index, Index
    <3> QED BY <3>1, CleanPart
  <2>5. ~ IsDict(b)
    BY <1>3, <2>1, <2>4, OpenAIPart
  <2>6. Pattern(here) \in O!Shapes
    BY <2>1, Appended3 DEF O!Shapes
  <2> QED BY <2>1, <2>2, <2>5, <2>6, OpenAIWrongShape
<1>4. CASE ~ IsString(v) /\ ~ IsList(v)
  <2>1. O!ScrubContent(v, q) = Found(q, "unknown")
    BY <1>1, <1>4, OpenAISame DEF O!ScrubContent, O!EachItem, O!Unknown
  <2> QED BY <2>1, CleanFound
<1> QED BY <1>2, <1>3, <1>4

(* The arguments of a call are read when they are a string. *)
LEMMA OpenAIArguments ==
  ASSUME NEW r \in Requests, NEW at, NEW q, NEW v, Passes(r, at, q, v),
         Clean(O!ScrubArguments(v, q), at)
  PROVE  IsDict(v) \/ IsList(v)
<1>1. v # Null
  BY NothingBelow DEF Falsy
<1>2. CASE IsString(v)
  <2>1. O!ScrubArguments(v, q) = ScanSpan(v, q)
    BY <1>1, <1>2, FalsyIs, OpenAISame DEF O!ScrubArguments
  <2> QED BY <2>1, SpanIsRead
<1>3. CASE IsEncoded(v)
  <2>1. O!ScrubArguments(v, q) = UNION {Found(p, "text") : p \in StringPaths(v[2], q)}
    BY <1>1, <1>3, FalsyIs, OpenAISame, OpenAIPaths DEF O!ScrubArguments, O!ScrubJsonObject
  <2> QED BY <2>1, <1>3, EncodedIsRead
<1>4. IsString(Text)
  BY DEF IsString, Text, String
<1> QED BY <1>2, <1>3, <1>4, Down

(* A pattern tells keys and positions apart. *)
LEMMA PatternTells ==
  ASSUME NEW at \in Path, NEW i \in 1..Len(at)
  PROVE  /\ at[i] \in Elements /\ Pattern(at)[i] = IF IsIndex(at[i]) THEN Anywhere ELSE at[i]
         /\ Pattern(at)[i] = Anywhere => IsIndex(at[i])
         /\ \A k \in STRING : Pattern(at)[i] = k => at[i] = k /\ ~ IsIndex(k)
<1>1. at[i] \in Elements /\ Pattern(at)[i] = IF IsIndex(at[i]) THEN Anywhere ELSE at[i]
  BY DEF Path, Pattern
<1>2. IsIndex(at[i]) \/ at[i] \in STRING
  BY <1>1 DEF Elements, IsIndex
<1> QED BY <1>1, <1>2, PositionsAre

LEMMA PrefixSame ==
  ASSUME NEW S, NEW s \in Seq(S), NEW T, NEW t \in Seq(T), IsPrefix(s, t)
  PROVE  Len(s) <= Len(t) /\ \A i \in 1..Len(s) : s[i] = t[i]
<1>1. Len(s) <= Len(t) /\ SubSeq(s, 1, Len(s)) = SubSeq(t, 1, Len(s))
  BY DEF IsPrefix
<1>2. ASSUME NEW i \in 1..Len(s) PROVE SubSeq(s, 1, Len(s))[i] = s[i] /\ SubSeq(t, 1, Len(s))[i] = t[i]
  BY <1>1
<1> QED BY <1>1, <1>2

LEMMA PatternTyped ==
  ASSUME NEW at \in Path
  PROVE  Pattern(at) \in Seq(Elements \cup {Anywhere}) /\ Len(Pattern(at)) = Len(at)
<1>1. Len(at) \in Nat /\ DOMAIN at = 1..Len(at) /\ \A i \in 1..Len(at) : at[i] \in Elements
  BY DEF Path
<1> QED BY <1>1 DEF Pattern

LEMMA OpenAIUnderArguments ==
  ASSUME NEW at \in Path, IsPrefix(O!ArgumentsPath, Pattern(at))
  PROVE  Len(at) >= 6 /\ IsIndex(at[4]) /\ at[5] = "function" /\ at[6] = "arguments"
         /\ ~ IsIndex(at[5]) /\ ~ IsIndex(at[6])
<1> DEFINE a == O!ArgumentsPath
<1>1. Len(a) = 6 /\ a[4] = Anywhere /\ a[5] = "function" /\ a[6] = "arguments"
  BY DEF O!ArgumentsPath
<1>2. a \in Seq({"messages", Anywhere, "tool_calls", "function", "arguments"})
  BY DEF O!ArgumentsPath
<1>0. "function" \in STRING /\ "arguments" \in STRING
  BY StringAssumption DEF O!ToolCallKeys, O!CalledFunctionKeys
<1>3. 6 <= Len(at) /\ \A i \in 1..6 : a[i] = Pattern(at)[i]
  BY <1>1, <1>2, PatternTyped, PrefixSame
<1>4. 4 \in 1..Len(at) /\ 5 \in 1..Len(at) /\ 6 \in 1..Len(at) /\ 4 \in 1..6 /\ 5 \in 1..6 /\ 6 \in 1..6
  BY <1>3 DEF Path
<1>5. Pattern(at)[4] = Anywhere /\ Pattern(at)[5] = "function" /\ Pattern(at)[6] = "arguments"
  BY <1>1, <1>3, <1>4
<1>6. IsIndex(at[4])
  BY <1>4, <1>5, PatternTells
<1>7. at[5] = "function" /\ ~ IsIndex("function")
  BY <1>0, <1>4, <1>5, PatternTells
<1>8. at[6] = "arguments" /\ ~ IsIndex("arguments")
  BY <1>0, <1>4, <1>5, PatternTells
<1> QED BY <1>3, <1>6, <1>7, <1>8 DEF Path

(* Nothing in a message but the arguments is a string that holds JSON. *)
LEMMA EncodedArguments ==
  ASSUME NEW r \in Requests, NEW at, NEW q, NEW x, Passes(r, at, q, x), IsEncoded(x)
  PROVE  Len(q) = 6 /\ q[6] = "arguments"
<1>1. q \in Path /\ IsPrefix(O!ArgumentsPath, Pattern(q)) /\ Pattern(q) = O!ArgumentsPath
  <2>1. q \in Path /\ Pattern(q) = O!ArgumentsPath
    BY OnTheWay DEF InPlace
  <2>2. IsPrefix(Pattern(q), Pattern(q))
    BY <2>1, PrefixSelf, PatternPrefix
  <2> QED BY <2>1, <2>2
<1>2. Len(Pattern(q)) = 6
  BY <1>1 DEF O!ArgumentsPath, O!ToolCallPath
<1> QED BY <1>1, <1>2, PatternTyped, OpenAIUnderArguments

LEMMA OpenAIToolCalls ==
  ASSUME NEW r \in Requests, NEW at, NEW q \in Path, NEW m, NEW v, "tool_calls" \in STRING,
         Passes(r, at, Append(q, "tool_calls"), v),
         ValueAt(r.payload, q) = m, v = Get(m, "tool_calls"), Len(q) = 2,
         Pattern(q) = <<"messages", Anywhere>>,
         Clean(O!ScrubMessage(m, q), at)
  PROVE  O!Unread(r.payload, at)
<1> DEFINE calls == Append(q, "tool_calls")
<1>1. "tool_calls" \in Elements /\ ~ IsIndex("tool_calls")
  BY PositionsAre
<1>2. calls \in Path /\ Len(calls) = 3 /\ SubSeq(calls, 1, 2) = q
  <2>1. calls \in Path /\ Len(calls) = Len(q) + 1 /\ SubSeq(calls, 1, Len(q)) = q
    BY <1>1, LongerPath
  <2> QED BY <2>1
<1>3. Pattern(calls) = O!ToolCallPath
  BY <1>1, PatternOfChild, Appended2 DEF O!ToolCallPath
<1> HIDE DEF calls
<1>4. IsPrefix(O!ToolCallPath, Pattern(at)) /\ at \in Path /\ IsPrefix(calls, at) /\ Passes(r, at, calls, v)
  BY <1>2, <1>3, OnTheWay, PatternPrefix DEF calls
<1> SUFFICES ASSUME IsPrefix(O!ArgumentsPath, Pattern(at)), Word(ValueAt(r.payload, SubSeq(at, 1, 2)), "role") = "assistant",
                    ~ IsDict(ValueAt(r.payload, SubSeq(at, 1, 6))), ~ IsList(ValueAt(r.payload, SubSeq(at, 1, 6)))
             PROVE  FALSE
  BY <1>4, OpenAISame, OpenAIPaths DEF O!Unread, O!UnreadToolCall
<1>5. Len(at) \in Nat /\ Len(at) >= 6 /\ IsIndex(at[4]) /\ at[5] = "function" /\ at[6] = "arguments"
      /\ ~ IsIndex(at[5]) /\ ~ IsIndex(at[6])
  BY <1>4, OpenAIUnderArguments DEF Path
<1>6. Word(m, "role") = "assistant"
  <2>1. SubSeq(at, 1, 3) = calls
    <3>1. SubSeq(at, 1, Len(q) + 1) = calls
      BY <1>1, <1>4, PrefixParts DEF calls
    <3> QED BY <3>1
  <2>2. SubSeq(SubSeq(at, 1, 3), 1, 2) = SubSeq(at, 1, 2)
    BY <1>4, <1>5 DEF Path
  <2> QED BY <1>2, <2>1, <2>2
<1> DEFINE here == Append(calls, at[4])
           func == Append(here, at[5])
           args == Append(func, at[6])
<1>7. PICK c : IsList(v) /\ at[4] \in Elements /\ at[4] = Index(IndexOf(at[4])) /\ IndexOf(at[4]) \in DOMAIN v[2] /\ Passes(r, at, here, c) /\ c = v[2][IndexOf(at[4])]
  <2>1. ~ IsEncoded(v)
    BY <1>2, <1>4, EncodedArguments
  <2>2. Len(at) > Len(calls) /\ Len(calls) + 1 = 4
    BY <1>2, <1>5
  <2> QED BY <1>4, <1>5, <2>1, <2>2, NextOnTheWay
<1>8. here \in Path /\ Len(here) = 4
  <2>1. here \in Path /\ Len(here) = Len(calls) + 1
    BY <1>2, <1>7, LongerPath
  <2> QED BY <1>2, <2>1
<1> HIDE DEF here
<1>9. PICK f : at[5] \in Elements /\ IsDict(c) /\ Passes(r, at, func, f) /\ f = Get(c, at[5])
  <2>1. ~ IsEncoded(c)
    BY <1>7, <1>8, EncodedArguments
  <2>2. Len(at) > Len(here) /\ Len(here) + 1 = 5
    BY <1>8, <1>5
  <2> QED BY <1>5, <1>7, <2>1, <2>2, NextOnTheWay
<1>10. func \in Path /\ Len(func) = 5
  <2>1. func \in Path /\ Len(func) = Len(here) + 1
    BY <1>8, <1>9, LongerPath
  <2> QED BY <1>8, <2>1
<1> HIDE DEF func
<1>11. PICK a : at[6] \in Elements /\ Passes(r, at, args, a) /\ a = Get(f, at[6])
  <2>1. ~ IsEncoded(f)
    BY <1>9, <1>10, EncodedArguments
  <2>2. Len(at) > Len(func) /\ Len(func) + 1 = 6
    BY <1>10, <1>5
  <2> QED BY <1>5, <1>9, <2>1, <2>2, NextOnTheWay
<1>12. SubSeq(at, 1, 6) = args /\ ValueAt(r.payload, args) = a
  <2>1. IsPrefix(args, at) /\ ValueAt(r.payload, args) = a
    BY <1>11, OnTheWay
  <2>2. SubSeq(at, 1, Len(func) + 1) = args
    BY <1>4, <1>10, <1>11, <2>1, PrefixParts
  <2>3. Len(func) + 1 = 6
    BY <1>10
  <2> HIDE DEF args
  <2> QED BY <2>1, <2>2, <2>3
<1> HIDE DEF args
<1>13. O!ScrubArguments(a, args) = O!ScrubToolCall(c, here)
  BY <1>5, <1>9, <1>11, OpenAISame DEF O!ScrubToolCall, args, func
<1>14. at[4] = O!Index(IndexOf(at[4])) /\ IndexOf(at[4]) \in DOMAIN v[2]
  BY <1>7 DEF Index, O!Index
<1>15. O!ScrubToolCall(c, here) \subseteq O!ScrubMessage(m, q)
  BY <1>6, <1>7, <1>14, OpenAISame DEF O!ScrubMessage, O!EachItem, here, calls
<1>16. Clean(O!ScrubArguments(a, args), at)
  BY <1>13, <1>15, CleanPart
<1> QED BY <1>11, <1>12, <1>16, OpenAIArguments

LEMMA OpenAIMessage ==
  ASSUME NEW r \in Requests, NEW at, NEW q \in Path, NEW m, Passes(r, at, q, m), IsDict(m),
         Pattern(q) = <<"messages", Anywhere>>, Len(q) = 2,
         Clean(O!ScrubMessage(m, q), at), O!DiffMessage(m, q) = {}
  PROVE  O!Unread(r.payload, at)
<1>0. PICK k \in Keys(m) : ~ IsIndex(k) /\ k \in STRING /\ Onward(r, at, q, k, Get(m, k))
  BY DownDict
<1>1. /\ k \in STRING /\ Passes(r, at, Append(q, k), Get(m, k))
      /\ Append(q, k) \in Path /\ Pattern(Append(q, k)) = Append(Pattern(q), k)
  BY <1>0 DEF Onward
<1>2. k \in O!MessageKeys
  <2>1. O!Extra(m, q, O!MessageKeys) = {}
    BY DEF O!DiffMessage
  <2> QED BY <2>1, Known, OpenAISame
<1>3. Append(q, k) \in Path /\ Pattern(Append(q, k)) = <<"messages", Anywhere, k>>
  BY <1>1, Appended2
<1>4. CASE k \in {"role", "name", "tool_call_id", "refusal", "audio"}
  <2>1. Pattern(Append(q, k)) \in O!UnreadKeys
    BY <1>3, <1>4 DEF O!UnreadKeys
  <2> QED BY <1>1, <1>3, <2>1, OpenAIUnreadKey
<1>5. CASE k = "content"
  <2> DEFINE v == Get(m, "content")
             here == Append(q, "content")
  <2>1. Clean(O!ScrubContent(v, here), at)
    <3>1. O!ScrubContent(v, here) \subseteq O!ScrubMessage(m, q)
      BY OpenAISame DEF O!ScrubMessage
    <3> QED BY <3>1, CleanPart
  <2>2. IsList(v) => \A i \in DOMAIN v[2] : O!DiffPart(v[2][i], Append(here, Index(i))) = {}
    BY OpenAISame DEF O!DiffMessage, O!EachItem, O!Index, Index
  <2> QED BY <1>1, <1>3, <1>5, <2>1, <2>2, OpenAIContent
<1>6. CASE k = "tool_calls"
  <2>1. ValueAt(r.payload, q) = m
    BY OnTheWay
  <2> QED BY <1>1, <1>6, <2>1, OpenAIToolCalls
<1> QED BY <1>2, <1>4, <1>5, <1>6 DEF O!MessageKeys

LEMMA OpenAIStrict ==
  ASSUME NEW r \in Requests, NEW at \in TextPaths(r.payload),
         Clean(O!Scrub(r.payload), at), O!Diff(r.payload) = {}
  PROVE  O!Unread(r.payload, at)
<1> DEFINE p == r.payload
<1>2. PICK k \in Keys(p) : /\ ~ IsIndex(k) /\ k \in STRING /\ Pattern(<<k>>) = <<k>> /\ <<k>> \in Path /\ Len(<<k>>) = 1
                           /\ k \in Elements /\ Passes(r, at, <<k>>, Get(p, k)) /\ Onward(r, at, <<>>, k, Get(p, k))
  BY DownRoot
<1>3. k \in O!RootKeys
  <2>1. O!Extra(p, <<>>, O!RootKeys) = {}
    BY DEF O!Diff
  <2> QED BY <2>1, Known, OpenAISame
<1>5. CASE k # "messages"
  <2>1. Pattern(<<k>>) \in O!UnreadKeys
    BY <1>2, <1>3, <1>5 DEF O!UnreadKeys
  <2> QED BY <1>2, <2>1, OpenAIUnreadKey
<1>6. CASE k = "messages" /\ ~ IsList(Get(p, k))
  <2>1. <<k>> = Append(<<>>, k) /\ <<>> \in Path
    BY DEF Path
  <2>2. Pattern(Append(<<>>, k)) \in O!Shapes
    BY <1>2, <1>6, <2>1 DEF O!Shapes
  <2> QED BY <1>2, <1>6, <2>1, <2>2, OpenAIWrongShape
<1>7. CASE k = "messages" /\ IsList(Get(p, k))
  <2> DEFINE v == Get(p, "messages")
  <2>0. PICK i \in DOMAIN v[2] : IsIndex(Index(i)) /\ IndexOf(Index(i)) = i /\ Onward(r, at, <<"messages">>, Index(i), v[2][i])
    BY <1>2, <1>7, DownList
  <2>1. /\ Index(i) \in Elements /\ IsIndex(Index(i))
        /\ Passes(r, at, Append(<<"messages">>, Index(i)), v[2][i])
        /\ Append(<<"messages">>, Index(i)) \in Path
        /\ Len(Append(<<"messages">>, Index(i))) = Len(<<"messages">>) + 1
        /\ Pattern(Append(<<"messages">>, Index(i))) = Append(Pattern(<<"messages">>), Anywhere)
    BY <2>0 DEF Onward
  <2> DEFINE m == v[2][i]
             q == Append(<<"messages">>, Index(i))
  <2>2. q \in Path /\ Pattern(q) = <<"messages", Anywhere>> /\ Len(q) = 2
    <3>1. Append(<<"messages">>, Anywhere) = <<"messages", Anywhere>>
      BY Appended1
    <3>2. Len(<<"messages">>) = 1 /\ Pattern(<<"messages">>) = <<"messages">>
      BY <1>2, <1>7
    <3>3. /\ q \in Path /\ Len(q) = Len(<<"messages">>) + 1
          /\ Pattern(q) = Append(Pattern(<<"messages">>), Anywhere)
      BY <2>1
    <3> HIDE DEF q
    <3> QED BY <3>1, <3>2, <3>3
  <2>3. CASE ~ IsDict(m)
    <3>1. Pattern(q) \in O!Shapes
      BY <2>2 DEF O!Shapes
    <3> QED BY <1>2, <1>7, <2>1, <2>3, <3>1, OpenAIWrongShape
  <2>4. CASE IsDict(m)
    <3>1. Clean(O!ScrubMessage(m, q), at)
      <4>1. O!ScrubMessage(m, q) \subseteq O!Scrub(p)
        BY <1>7, <2>1, OpenAISame DEF O!Scrub, O!EachOf, O!EachItem, O!Index, Index
      <4> QED BY <4>1, CleanPart
    <3>2. O!DiffMessage(m, q) = {}
      BY <1>7, <2>1, OpenAISame DEF O!Diff, O!EachOf, O!EachItem, O!Index, Index
    <3> HIDE DEF m, q
    <3> QED BY <2>1, <2>2, <2>4, <3>1, <3>2, OpenAIMessage DEF m, q
  <2> QED BY <2>3, <2>4
<1> QED BY <1>5, <1>6, <1>7

-----------------------------------------------------------------------------
(* Claude. *)
(* The instance speaks of the same values, paths and places as this module.  *)
LEMMA ClaudeSame ==
  /\ \A v : C!IsString(v) = IsString(v) /\ C!IsDict(v) = IsDict(v) /\ C!IsList(v) = IsList(v)
            /\ C!Falsy(v) = Falsy(v) /\ C!Keys(v) = Keys(v) /\ C!OrEmpty(v) = OrEmpty(v)
  /\ \A v, k : C!Get(v, k) = Get(v, k) /\ C!Word(v, k) = Word(v, k)
  /\ C!Null = Null
  /\ \A s, t : C!IsPrefix(s, t) = IsPrefix(s, t)
  /\ \A at, how : C!Found(at, how) = Found(at, how)
  /\ \A at : C!Unknown(at) = Found(at, "unknown") /\ C!Unscannable(at) = Found(at, "unscannable")
             /\ C!ScanTarget(at) = Found(at, "text")
  /\ \A v, at : C!ScanSpan(v, at) = ScanSpan(v, at)
  /\ \A v, at, known : C!Extra(v, at, known) = Extra(v, at, known)
  /\ \A i : C!Index(i) = Index(i)
BY DEF C!IsString, C!IsDict, C!IsList, C!Falsy, C!Keys, C!Get, C!Word, C!Found, C!ScanSpan, C!Extra,
       C!Null, C!IsPrefix, IsPrefix, C!Zero, C!String, C!OrEmpty, C!Dict, C!Unknown, C!Unscannable, C!ScanTarget, C!Index,
       IsString, IsDict, IsList, Falsy, Keys, Get, Word, Found, ScanSpan, Extra, Null, Zero, String, OrEmpty, Dict, Index

(* The same of what is defined along a path.                                 *)
LEMMA ClaudePaths ==
  /\ \A v, at : C!StringPaths(v, at) = StringPaths(v, at)
  /\ \A at : C!Pattern(at) = Pattern(at)
  /\ \A v, at : C!ValueAt(v, at) = ValueAt(v, at)
  /\ \A v, at, patterns : C!Misshapen(v, at, patterns) = Misshapen(v, at, patterns)
<1>1. \A v, at : C!StringPaths(v, at) = StringPaths(v, at)
  BY DEF C!StringPaths, C!Leaves, C!Nodes, C!Levels, C!Below, C!Children, C!IsString, C!IsDict, C!IsList, C!IsEncoded,
         C!Keys, C!Index,
         StringPaths, Leaves, Nodes, Levels, Below, Children, IsString, IsDict, IsList, IsEncoded, Keys, Index
<1>2. \A at : C!Pattern(at) = Pattern(at)
  BY DEF C!Pattern, C!IsIndex, C!ToSet, Pattern, IsIndex, ToSet
<1>3. \A v, at : C!ValueAt(v, at) = ValueAt(v, at)
  BY DEF C!ValueAt, C!IsList, C!IndexOf, C!Index, C!Get, C!Keys, C!Null, C!IsDict,
         ValueAt, IsList, IndexOf, Index, Get, Keys, Null, IsDict
<1>4. \A v, at, patterns : C!Misshapen(v, at, patterns) = Misshapen(v, at, patterns)
  BY <1>2, <1>3 DEF C!Misshapen, Misshapen, C!IsIndex, IsIndex, C!ToSet, ToSet, C!IsDict, IsDict, C!IsList, IsList
<1> QED BY <1>1, <1>2, <1>3, <1>4

(* Below a key that nothing reads, or a value of the wrong shape.            *)
LEMMA ClaudeUnreadKey ==
  ASSUME NEW r \in Requests, NEW at, NEW q \in Path, NEW x, Passes(r, at, q, x), Pattern(q) \in C!UnreadKeys
  PROVE  C!Unread(r.payload, at)
BY OnTheWay, PatternPrefix, ClaudePaths, ClaudeSame DEF C!Unread

LEMMA ClaudeWrongShape ==
  ASSUME NEW r \in Requests, NEW at, NEW q \in Path, NEW k \in Elements, NEW x,
         Passes(r, at, Append(q, k), x),
         Pattern(Append(q, k)) \in C!Shapes,
         IF IsIndex(k) THEN ~ IsDict(x) ELSE ~ IsList(x)
  PROVE  C!Unread(r.payload, at)
<1>1. Misshapen(r.payload, at, C!Shapes)
  BY WrongShape
<1> QED BY <1>1, ClaudePaths DEF C!Unread

(* What unclean walks find at once. *)
LEMMA NotClean ==
  ASSUME NEW q, NEW at
  PROVE  ~ Clean(Found(q, "unknown"), at) /\ ~ Clean(Found(q, "unscannable"), at)
BY CleanFound

(* Of a block of text its type is no text of the user, and its text is read. *)
LEMMA TextOfBlock ==
  ASSUME NEW r \in Requests, NEW at, NEW q, NEW b, NEW k, Onward(r, at, q, k, Get(b, k)),
         Word(b, "type") = "text", Clean(ScanSpan(Get(b, "text"), Append(q, "text")), at)
  PROVE  k \notin {"type", "text"}
<1>1. Passes(r, at, Append(q, k), Get(b, k))
  BY DEF Onward
<1>2. k # "type"
  BY <1>1, NotInWord
<1>3. k # "text"
  BY <1>1, SpanIsRead
<1> QED BY <1>2, <1>3

(* A dictionary on the way: the step goes by a key the schema knows. *)
LEMMA ClaudeDown ==
  ASSUME NEW r \in Requests, NEW at, NEW q, NEW b, Passes(r, at, q, b), IsDict(b),
         NEW known, C!Extra(b, q, known) = {}
  PROVE  \E k \in known : k \in Keys(b) /\ ~ IsIndex(k) /\ Onward(r, at, q, k, Get(b, k))
<1>1. PICK k \in Keys(b) : ~ IsIndex(k) /\ k \in STRING /\ Onward(r, at, q, k, Get(b, k))
  BY DownDict
<1>2. k \in known
  BY ClaudeSame, Known
<1> QED BY <1>1, <1>2

LEMMA ClaudeKeyLeft ==
  ASSUME NEW r \in Requests, NEW at, NEW q, NEW k, NEW x, Onward(r, at, q, k, x), ~ IsIndex(k),
         Append(Pattern(q), k) \in C!UnreadKeys
  PROVE  C!Unread(r.payload, at)
<1>1. Append(q, k) \in Path /\ Pattern(Append(q, k)) = Append(Pattern(q), k) /\ Passes(r, at, Append(q, k), x)
  BY DEF Onward
<1> QED BY <1>1, ClaudeUnreadKey

(* An item of an array on the way is an object, or out of shape.             *)
LEMMA ClaudeItem ==
  ASSUME NEW r \in Requests, NEW at, NEW q \in Path, NEW k, NEW x, Onward(r, at, q, k, x), IsIndex(k),
         Append(Pattern(q), Anywhere) \in C!Shapes, ~ IsDict(x)
  PROVE  C!Unread(r.payload, at)
<1>1. k \in Elements /\ Pattern(Append(q, k)) = Append(Pattern(q), Anywhere) /\ Passes(r, at, Append(q, k), x)
  BY DEF Onward
<1> QED BY <1>1, ClaudeWrongShape

(* The patterns of the places that the walks come to.                        *)
LEMMA ClaudePatterns ==
  /\ Append(<<"system">>, Anywhere) = C!SystemBlock
  /\ Append(<<"messages">>, Anywhere) = <<"messages", Anywhere>>
  /\ Append(<<"messages", Anywhere>>, "content") = <<"messages", Anywhere, "content">>
  /\ Append(<<"messages", Anywhere, "content">>, Anywhere) = C!Block
  /\ Append(Append(C!Block, "content"), Anywhere) = C!NestedBlock
<1>1. Append(<<"system">>, Anywhere) = C!SystemBlock /\ Append(<<"messages">>, Anywhere) = <<"messages", Anywhere>>
  BY Appended1 DEF C!SystemBlock
<1>2. Append(<<"messages", Anywhere>>, "content") = <<"messages", Anywhere, "content">>
  BY Appended2
<1>3. Append(<<"messages", Anywhere, "content">>, Anywhere) = C!Block
  BY Appended3 DEF C!Block
<1>4. Append(C!Block, "content") = <<"messages", Anywhere, "content", Anywhere, "content">>
  BY Appended4 DEF C!Block
<1>5. Append(<<"messages", Anywhere, "content", Anywhere, "content">>, Anywhere) = C!NestedBlock
  BY Appended5 DEF C!NestedBlock
<1> QED BY <1>1, <1>2, <1>3, <1>4, <1>5

(* Each function, on the way to a text: the system prompt, a source, nested  *)
(* content, a tool result, a block, the content, a message, the request.     *)
LEMMA ClaudeSystem ==
  ASSUME NEW r \in Requests, NEW at, NEW q \in Path, NEW v, Passes(r, at, q, v),
         Pattern(q) = <<"system">>,
         Clean(C!ScrubSystem(v, q), at),
         IsList(v) => \A i \in DOMAIN v[2] : C!DiffSystemBlock(v[2][i], Append(q, Index(i))) = {}
  PROVE  C!Unread(r.payload, at)
<1>1. CASE IsString(v)
  <2>1. C!ScrubSystem(v, q) = ScanSpan(v, q)
    BY <1>1, ClaudeSame, FalsyIs DEF C!ScrubSystem, C!EachItem
  <2> QED BY <2>1, SpanIsRead
<1>2. CASE IsList(v)
  <2>1. PICK i \in DOMAIN v[2] : IsIndex(Index(i)) /\ IndexOf(Index(i)) = i /\ Onward(r, at, q, Index(i), v[2][i])
    BY <1>2, DownList
  <2> DEFINE b == v[2][i]
             here == Append(q, Index(i))
  <2>2. Append(Pattern(q), Anywhere) = C!SystemBlock
    BY ClaudePatterns
  <2>3. CASE ~ IsDict(b)
    <3>1. C!SystemBlock \in C!Shapes
      BY DEF C!Shapes
    <3> QED BY <2>1, <2>2, <2>3, <3>1, ClaudeItem
  <2>4. CASE IsDict(b)
    <3>1. C!ScrubSystemBlock(b, here) \subseteq C!ScrubSystem(v, q)
      BY <1>2, FalsyIs, ClaudeSame DEF C!ScrubSystem, C!EachItem
    <3>2. Clean(C!ScrubSystemBlock(b, here), at)
      BY <3>1, CleanPart
    <3>3. Pattern(here) = C!SystemBlock /\ Passes(r, at, here, b)
      BY <2>1, <2>2 DEF Onward
    <3>4. C!Extra(b, here, C!SystemKeys) = {}
      BY <1>2 DEF C!DiffSystemBlock
    <3> HIDE DEF b, here
    <3>5. PICK k \in C!SystemKeys : k \in Keys(b) /\ ~ IsIndex(k) /\ Onward(r, at, here, k, Get(b, k))
      BY <2>4, <3>3, <3>4, ClaudeDown
    <3>6. Word(b, "type") = "text"
      <4>1. SUFFICES ASSUME Word(b, "type") # "text" PROVE FALSE
        OBVIOUS
      <4>2. C!ScrubSystemBlock(b, here) = Found(here, "unknown")
        BY <2>4, <4>1, ClaudeSame DEF C!ScrubSystemBlock
      <4> QED BY <3>2, <4>2, NotClean
    <3>7. C!ScrubSystemBlock(b, here) = ScanSpan(Get(b, "text"), Append(here, "text"))
      BY <2>4, <3>6, ClaudeSame DEF C!ScrubSystemBlock
    <3>8. k = "cache_control"
      BY <3>2, <3>5, <3>6, <3>7, TextOfBlock DEF C!SystemKeys
    <3>9. Append(Pattern(here), k) \in C!UnreadKeys
      BY <3>3, <3>8 DEF C!UnreadKeys
    <3> QED BY <3>5, <3>9, ClaudeKeyLeft
  <2> QED BY <2>3, <2>4
<1>3. CASE ~ IsString(v) /\ ~ IsList(v)
  <2>1. C!ScrubSystem(v, q) = Found(q, "unknown")
    BY <1>3, ClaudeSame DEF C!ScrubSystem, C!EachItem
  <2> QED BY <2>1, NotClean
<1> QED BY <1>1, <1>2, <1>3

LEMMA ClaudeSource ==
  ASSUME NEW r \in Requests, NEW at, NEW q \in Path, NEW s, Passes(r, at, q, s),
         Pattern(q) = Append(C!Block, "source"),
         Clean(C!ScrubDocumentSource(s, q), at), C!Extra(s, q, C!SourceKeys) = {}
  PROVE  C!Unread(r.payload, at)
<1>1. Word(s, "type") = "text"
  <2>1. CASE Word(s, "type") \in {"base64", "url"}
    <3>1. C!ScrubDocumentSource(s, q) = Found(q, "unscannable")
      BY <2>1, ClaudeSame DEF C!ScrubDocumentSource
    <3> QED BY <3>1, NotClean
  <2>2. CASE Word(s, "type") \notin {"text", "base64", "url"}
    <3>1. C!ScrubDocumentSource(s, q) = Found(q, "unknown")
      BY <2>2, ClaudeSame DEF C!ScrubDocumentSource
    <3> QED BY <3>1, NotClean
  <2> QED BY <2>1, <2>2
<1>2. IsDict(s)
  BY <1>1 DEF Word, Get, Keys, IsString, Null
<1>3. PICK k \in C!SourceKeys : k \in Keys(s) /\ ~ IsIndex(k) /\ Onward(r, at, q, k, Get(s, k))
  BY <1>2, ClaudeDown
<1>4. Passes(r, at, Append(q, k), Get(s, k))
  BY <1>3 DEF Onward
<1>5. k # "type"
  BY <1>1, <1>4, NotInWord
<1>6. k # "data"
  <2>1. C!ScrubDocumentSource(s, q) = ScanSpan(Get(s, "data"), Append(q, "data"))
    BY <1>1, ClaudeSame DEF C!ScrubDocumentSource
  <2> QED BY <1>4, <2>1, SpanIsRead
<1>7. Append(Pattern(q), k) \in C!UnreadKeys
  BY <1>3, <1>5, <1>6 DEF C!UnreadKeys, C!SourceKeys
<1> QED BY <1>3, <1>7, ClaudeKeyLeft

LEMMA ClaudeNested ==
  ASSUME NEW r \in Requests, NEW at, NEW q \in Path, NEW b, Passes(r, at, q, b), IsDict(b),
         Pattern(q) = C!NestedBlock,
         Clean(C!ScrubToolResultBlock(b, q), at), C!DiffNestedBlock(b, q) = {}
  PROVE  C!Unread(r.payload, at)
<1>1. Word(b, "type") = "text"
  <2>1. CASE Word(b, "type") = "image"
    <3>1. C!ScrubToolResultBlock(b, q) = Found(q, "unscannable")
      BY <2>1, ClaudeSame DEF C!ScrubToolResultBlock
    <3> QED BY <3>1, NotClean
  <2>2. CASE Word(b, "type") \notin {"text", "image"}
    <3>1. C!ScrubToolResultBlock(b, q) = Found(q, "unknown")
      BY <2>2, ClaudeSame DEF C!ScrubToolResultBlock
    <3> QED BY <3>1, NotClean
  <2> QED BY <2>1, <2>2
<1>2. C!BlockKeys(b) = {"type", "text", "cache_control"} /\ C!Extra(b, q, C!BlockKeys(b)) = {}
  BY <1>1, ClaudeSame DEF C!BlockKeys, C!DiffNestedBlock
<1>3. PICK k \in {"type", "text", "cache_control"} :
        k \in Keys(b) /\ ~ IsIndex(k) /\ Onward(r, at, q, k, Get(b, k))
  BY <1>2, ClaudeDown
<1>4. C!ScrubToolResultBlock(b, q) = ScanSpan(Get(b, "text"), Append(q, "text"))
  BY <1>1, ClaudeSame DEF C!ScrubToolResultBlock
<1>5. k = "cache_control"
  BY <1>1, <1>3, <1>4, TextOfBlock
<1>6. Append(Pattern(q), k) \in C!UnreadKeys
  BY <1>5 DEF C!UnreadKeys
<1> QED BY <1>3, <1>6, ClaudeKeyLeft

LEMMA ClaudeToolResult ==
  ASSUME NEW r \in Requests, NEW at, NEW q \in Path, NEW v, Passes(r, at, q, v),
         Pattern(q) = Append(C!Block, "content"),
         Clean(C!ScrubToolResultContent(v, q), at),
         IsList(v) => \A i \in DOMAIN v[2] : C!DiffNestedBlock(v[2][i], Append(q, Index(i))) = {}
  PROVE  C!Unread(r.payload, at)
<1>1. v # Null /\ ~ Falsy(v)
  BY NothingBelow DEF Falsy
<1>2. CASE IsString(v)
  <2>1. C!ScrubToolResultContent(v, q) = ScanSpan(v, q)
    BY <1>1, <1>2, ClaudeSame, FalsyIs DEF C!ScrubToolResultContent, C!EachItem
  <2> QED BY <2>1, SpanIsRead
<1>3. CASE IsList(v)
  <2>1. PICK i \in DOMAIN v[2] : IsIndex(Index(i)) /\ IndexOf(Index(i)) = i /\ Onward(r, at, q, Index(i), v[2][i])
    BY <1>3, DownList
  <2> DEFINE b == v[2][i]
             here == Append(q, Index(i))
  <2>2. Append(Pattern(q), Anywhere) = C!NestedBlock
    BY ClaudePatterns
  <2>3. CASE ~ IsDict(b)
    <3>1. C!NestedBlock \in C!Shapes
      BY DEF C!Shapes
    <3> QED BY <2>1, <2>2, <2>3, <3>1, ClaudeItem
  <2>4. CASE IsDict(b)
    <3>1. C!ScrubToolResultBlock(b, here) \subseteq C!ScrubToolResultContent(v, q)
      BY <1>1, <1>3, FalsyIs, ClaudeSame DEF C!ScrubToolResultContent, C!EachItem
    <3>2. Clean(C!ScrubToolResultBlock(b, here), at)
      BY <3>1, CleanPart
    <3>3. here \in Path /\ Pattern(here) = C!NestedBlock /\ Passes(r, at, here, b)
      BY <2>1, <2>2 DEF Onward
    <3>4. C!DiffNestedBlock(b, here) = {}
      BY <1>3
    <3> HIDE DEF b, here
    <3> QED BY <2>4, <3>2, <3>3, <3>4, ClaudeNested
  <2> QED BY <2>3, <2>4
<1>4. CASE ~ IsString(v) /\ ~ IsList(v)
  <2>1. C!ScrubToolResultContent(v, q) = Found(q, "unknown")
    BY <1>1, <1>4, ClaudeSame DEF C!ScrubToolResultContent, C!EachItem
  <2> QED BY <2>1, NotClean
<1> QED BY <1>2, <1>3, <1>4

LEMMA ClaudeBlock ==
  ASSUME NEW r \in Requests, NEW at, NEW q \in Path, NEW b, Passes(r, at, q, b), IsDict(b),
         Pattern(q) = C!Block,
         Clean(C!ScrubBlock(b, q), at), C!DiffBlock(b, q) = {}
  PROVE  C!Unread(r.payload, at)
<1> DEFINE type == Word(b, "type")
<1>1. C!Extra(b, q, C!BlockKeys(b)) = {}
  BY DEF C!DiffBlock
<1>2. PICK k \in C!BlockKeys(b) : k \in Keys(b) /\ ~ IsIndex(k) /\ Onward(r, at, q, k, Get(b, k))
  BY <1>1, ClaudeDown
<1>3. /\ Append(q, k) \in Path /\ Pattern(Append(q, k)) = Append(Pattern(q), k)
      /\ Passes(r, at, Append(q, k), Get(b, k))
  BY <1>2 DEF Onward
<1>4. ASSUME type \in {"text", "tool_use", "tool_result", "document"} PROVE k # "type"
  BY <1>3, <1>4, NotInWord
<1>5. ASSUME k \in {"title", "citations", "id", "name", "tool_use_id", "cache_control", "is_error"}
      PROVE  C!Unread(r.payload, at)
  <2>1. Append(Pattern(q), k) \in C!UnreadKeys
    BY <1>5 DEF C!UnreadKeys
  <2> QED BY <1>2, <2>1, ClaudeKeyLeft
<1>6. CASE type = "text"
  <2>1. C!ScrubBlock(b, q) = ScanSpan(Get(b, "text"), Append(q, "text"))
    BY <1>6, ClaudeSame DEF C!ScrubBlock
  <2>2. k \in {"type", "text", "cache_control"}
    BY <1>2, <1>6, ClaudeSame DEF C!BlockKeys
  <2>3. k = "cache_control"
    BY <1>2, <1>6, <2>1, <2>2, TextOfBlock
  <2> QED BY <1>5, <2>3
<1>7. CASE type = "tool_use"
  <2>1. C!ScrubBlock(b, q) = UNION {Found(p, "text") : p \in StringPaths(OrEmpty(Get(b, "input")), Append(q, "input"))}
    BY <1>7, ClaudeSame, ClaudePaths DEF C!ScrubBlock, C!ScrubJsonObject
  <2>2. k \in {"type", "id", "name", "input", "cache_control"}
    BY <1>2, <1>7, ClaudeSame DEF C!BlockKeys
  <2>3. k # "input"
    BY <1>3, <2>1, JsonIsRead
  <2> QED BY <1>4, <1>5, <1>7, <2>2, <2>3
<1>8. CASE type = "tool_result"
  <2>1. k \in {"type", "tool_use_id", "content", "cache_control", "is_error"}
    BY <1>2, <1>8, ClaudeSame DEF C!BlockKeys
  <2>2. CASE k = "content"
    <3> DEFINE v == Get(b, "content")
               here == Append(q, "content")
    <3>1. Clean(C!ScrubToolResultContent(v, here), at)
      BY <1>8, ClaudeSame DEF C!ScrubBlock
    <3>2. IsList(v) => \A i \in DOMAIN v[2] : C!DiffNestedBlock(v[2][i], Append(here, Index(i))) = {}
      BY <1>8, ClaudeSame DEF C!DiffBlock, C!EachItem
    <3>3. here \in Path /\ Pattern(here) = Append(C!Block, "content") /\ Passes(r, at, here, v)
      BY <1>3, <2>2
    <3> HIDE DEF v, here
    <3> QED BY <3>1, <3>2, <3>3, ClaudeToolResult
  <2> QED BY <1>4, <1>5, <1>8, <2>1, <2>2
<1>9. CASE type = "document"
  <2>1. k \in {"type", "source", "title", "cache_control", "citations"}
    BY <1>2, <1>9, ClaudeSame DEF C!BlockKeys
  <2>2. CASE k = "source"
    <3> DEFINE s == Get(b, "source")
               here == Append(q, "source")
    <3>1. Clean(C!ScrubDocumentSource(s, here), at)
      BY <1>9, ClaudeSame DEF C!ScrubBlock
    <3>2. C!Extra(s, here, C!SourceKeys) = {}
      BY ClaudeSame DEF C!DiffBlock
    <3>3. here \in Path /\ Pattern(here) = Append(C!Block, "source") /\ Passes(r, at, here, s)
      BY <1>3, <2>2
    <3> HIDE DEF s, here
    <3> QED BY <3>1, <3>2, <3>3, ClaudeSource
  <2> QED BY <1>4, <1>5, <1>9, <2>1, <2>2
<1>10. type # "image"
  <2>1. SUFFICES ASSUME type = "image" PROVE FALSE
    OBVIOUS
  <2>2. C!ScrubBlock(b, q) = Found(q, "unscannable")
    BY <2>1, ClaudeSame DEF C!ScrubBlock
  <2> QED BY <2>2, NotClean
<1>11. type \in {"text", "tool_use", "tool_result", "document", "image"}
  <2>1. SUFFICES ASSUME type \notin {"text", "tool_use", "tool_result", "document", "image"} PROVE FALSE
    OBVIOUS
  <2>2. C!ScrubBlock(b, q) = Found(q, "unknown")
    BY <2>1, ClaudeSame DEF C!ScrubBlock
  <2> QED BY <2>2, NotClean
<1> QED BY <1>6, <1>7, <1>8, <1>9, <1>10, <1>11

LEMMA ClaudeContent ==
  ASSUME NEW r \in Requests, NEW at, NEW q \in Path, NEW v, Passes(r, at, q, v),
         Pattern(q) = <<"messages", Anywhere, "content">>,
         Clean(C!ScrubContent(v, q), at),
         IsList(v) => \A i \in DOMAIN v[2] : C!DiffBlock(v[2][i], Append(q, Index(i))) = {}
  PROVE  C!Unread(r.payload, at)
<1>1. CASE IsString(v)
  <2>1. C!ScrubContent(v, q) = ScanSpan(v, q)
    BY <1>1, ClaudeSame, FalsyIs DEF C!ScrubContent, C!EachItem
  <2> QED BY <2>1, SpanIsRead
<1>2. CASE IsList(v)
  <2>1. PICK i \in DOMAIN v[2] : IsIndex(Index(i)) /\ IndexOf(Index(i)) = i /\ Onward(r, at, q, Index(i), v[2][i])
    BY <1>2, DownList
  <2> DEFINE b == v[2][i]
             here == Append(q, Index(i))
  <2>2. Append(Pattern(q), Anywhere) = C!Block
    BY ClaudePatterns
  <2>3. CASE ~ IsDict(b)
    <3>1. C!Block \in C!Shapes
      BY DEF C!Shapes
    <3> QED BY <2>1, <2>2, <2>3, <3>1, ClaudeItem
  <2>4. CASE IsDict(b)
    <3>1. C!ScrubBlock(b, here) \subseteq C!ScrubContent(v, q)
      BY <1>2, FalsyIs, ClaudeSame DEF C!ScrubContent, C!EachItem
    <3>2. Clean(C!ScrubBlock(b, here), at)
      BY <3>1, CleanPart
    <3>3. here \in Path /\ Pattern(here) = C!Block /\ Passes(r, at, here, b)
      BY <2>1, <2>2 DEF Onward
    <3>4. C!DiffBlock(b, here) = {}
      BY <1>2
    <3> HIDE DEF b, here
    <3> QED BY <2>4, <3>2, <3>3, <3>4, ClaudeBlock
  <2> QED BY <2>3, <2>4
<1>3. CASE ~ IsString(v) /\ ~ IsList(v)
  <2>1. C!ScrubContent(v, q) = Found(q, "unknown")
    BY <1>3, ClaudeSame DEF C!ScrubContent, C!EachItem
  <2> QED BY <2>1, NotClean
<1> QED BY <1>1, <1>2, <1>3

LEMMA ClaudeMessage ==
  ASSUME NEW r \in Requests, NEW at, NEW q \in Path, NEW m, Passes(r, at, q, m), IsDict(m),
         Pattern(q) = <<"messages", Anywhere>>,
         Clean(C!ScrubMessage(m, q), at), C!DiffMessage(m, q) = {}
  PROVE  C!Unread(r.payload, at)
<1>1. C!Extra(m, q, C!MessageKeys) = {}
  BY DEF C!DiffMessage
<1>2. PICK k \in C!MessageKeys : k \in Keys(m) /\ ~ IsIndex(k) /\ Onward(r, at, q, k, Get(m, k))
  BY <1>1, ClaudeDown
<1>3. CASE k = "role"
  <2>1. Append(Pattern(q), k) \in C!UnreadKeys
    BY <1>3, Appended2 DEF C!UnreadKeys
  <2> QED BY <1>2, <2>1, ClaudeKeyLeft
<1>4. CASE k = "content"
  <2> DEFINE v == Get(m, "content")
             here == Append(q, "content")
  <2>1. Passes(r, at, here, v) /\ here \in Path /\ Pattern(here) = <<"messages", Anywhere, "content">>
    BY <1>2, <1>4, ClaudePatterns DEF Onward
  <2>2. v # Null
    BY <2>1, NothingBelow DEF Falsy
  <2>3. Clean(C!ScrubContent(v, here), at)
    BY <2>2, ClaudeSame DEF C!ScrubMessage
  <2>4. IsList(v) => \A i \in DOMAIN v[2] : C!DiffBlock(v[2][i], Append(here, Index(i))) = {}
    BY ClaudeSame DEF C!DiffMessage, C!EachItem
  <2> HIDE DEF v, here
  <2> QED BY <2>1, <2>3, <2>4, ClaudeContent
<1> QED BY <1>2, <1>3, <1>4 DEF C!MessageKeys

LEMMA ClaudeMessages ==
  ASSUME NEW r \in Requests, NEW at, NEW q \in Path, NEW v, Passes(r, at, q, v),
         Pattern(q) = <<"messages">>, IsList(v),
         \A i \in DOMAIN v[2] : /\ Clean(C!ScrubMessage(v[2][i], Append(q, Index(i))), at)
                                /\ C!DiffMessage(v[2][i], Append(q, Index(i))) = {}
  PROVE  C!Unread(r.payload, at)
<1>1. PICK i \in DOMAIN v[2] : IsIndex(Index(i)) /\ IndexOf(Index(i)) = i /\ Onward(r, at, q, Index(i), v[2][i])
  BY DownList
<1> DEFINE m == v[2][i]
           here == Append(q, Index(i))
<1>2. Append(Pattern(q), Anywhere) = <<"messages", Anywhere>>
  BY ClaudePatterns
<1>3. CASE ~ IsDict(m)
  <2>1. <<"messages", Anywhere>> \in C!Shapes
    BY DEF C!Shapes
  <2> QED BY <1>1, <1>2, <1>3, <2>1, ClaudeItem
<1>4. CASE IsDict(m)
  <2>1. here \in Path /\ Pattern(here) = <<"messages", Anywhere>> /\ Passes(r, at, here, m)
    BY <1>1, <1>2 DEF Onward
  <2>2. Clean(C!ScrubMessage(m, here), at) /\ C!DiffMessage(m, here) = {}
    OBVIOUS
  <2> HIDE DEF m, here
  <2> QED BY <1>4, <2>1, <2>2, ClaudeMessage
<1> QED BY <1>3, <1>4

LEMMA ClaudeStrict ==
  ASSUME NEW r \in Requests, NEW at \in TextPaths(r.payload),
         Clean(C!Scrub(r.payload), at), C!Diff(r.payload) = {}
  PROVE  C!Unread(r.payload, at)
<1> DEFINE p == r.payload
<1>1. PICK k \in Keys(p) : /\ ~ IsIndex(k) /\ k \in STRING /\ Pattern(<<k>>) = <<k>> /\ <<k>> \in Path /\ Len(<<k>>) = 1
                           /\ k \in Elements /\ Passes(r, at, <<k>>, Get(p, k)) /\ Onward(r, at, <<>>, k, Get(p, k))
  BY DownRoot
<1>2. k \in C!RootKeys
  <2>1. C!Extra(p, <<>>, C!RootKeys) = {}
    BY DEF C!Diff
  <2> QED BY <2>1, Known, ClaudeSame
<1>3. CASE k \notin {"system", "messages"}
  <2>1. Pattern(<<k>>) \in C!UnreadKeys
    BY <1>1, <1>2, <1>3 DEF C!UnreadKeys
  <2> QED BY <1>1, <2>1, ClaudeUnreadKey
<1>4. CASE k = "system"
  <2> DEFINE v == Get(p, "system")
             q == <<"system">>
  <2>1. C!ScrubSystem(v, q) \subseteq C!Scrub(p)
    BY <1>1, <1>4, ClaudeSame DEF C!Scrub
  <2>2. IsList(v) => \A i \in DOMAIN v[2] : C!DiffSystemBlock(v[2][i], Append(q, Index(i))) = {}
    BY ClaudeSame DEF C!Diff, C!EachOf, C!EachItem
  <2>3. q \in Path /\ Pattern(q) = <<"system">> /\ Passes(r, at, q, v)
    BY <1>1, <1>4
  <2>4. Clean(C!ScrubSystem(v, q), at)
    BY <2>1, CleanPart
  <2> HIDE DEF v, q
  <2> QED BY <2>2, <2>3, <2>4, ClaudeSystem
<1>5. CASE k = "messages" /\ ~ IsList(Get(p, k))
  <2>1. <<k>> = Append(<<>>, k) /\ <<>> \in Path
    BY DEF Path
  <2>2. Pattern(Append(<<>>, k)) \in C!Shapes
    BY <1>1, <1>5, <2>1 DEF C!Shapes
  <2> QED BY <1>1, <1>5, <2>1, <2>2, ClaudeWrongShape
<1>6. CASE k = "messages" /\ IsList(Get(p, k))
  <2> DEFINE v == Get(p, "messages")
             q == <<"messages">>
  <2>1. q \in Path /\ Pattern(q) = <<"messages">> /\ Passes(r, at, q, v) /\ IsList(v)
    BY <1>1, <1>6
  <2>2. ASSUME NEW i \in DOMAIN v[2]
        PROVE  Clean(C!ScrubMessage(v[2][i], Append(q, Index(i))), at)
    <3>1. C!ScrubMessage(v[2][i], Append(q, Index(i))) \subseteq C!Scrub(p)
      BY <2>1, ClaudeSame DEF C!Scrub, C!EachOf, C!EachItem
    <3> QED BY <3>1, CleanPart
  <2>3. ASSUME NEW i \in DOMAIN v[2] PROVE C!DiffMessage(v[2][i], Append(q, Index(i))) = {}
    BY <2>1, ClaudeSame DEF C!Diff, C!EachOf, C!EachItem
  <2> HIDE DEF v, q
  <2> QED BY <2>1, <2>2, <2>3, ClaudeMessages
<1> QED BY <1>3, <1>4, <1>5, <1>6

-----------------------------------------------------------------------------
(* Gemini. *)
(* The instance speaks of the same values, paths and places as this module.  *)
LEMMA GeminiSame ==
  /\ \A v : G!IsString(v) = IsString(v) /\ G!IsDict(v) = IsDict(v) /\ G!IsList(v) = IsList(v)
            /\ G!Falsy(v) = Falsy(v) /\ G!Keys(v) = Keys(v) /\ G!OrEmpty(v) = OrEmpty(v)
  /\ \A v, k : G!Get(v, k) = Get(v, k)
  /\ G!Null = Null
  /\ \A s, t : G!IsPrefix(s, t) = IsPrefix(s, t)
  /\ \A at, how : G!Found(at, how) = Found(at, how)
  /\ \A at : G!Unknown(at) = Found(at, "unknown") /\ G!Unscannable(at) = Found(at, "unscannable")
             /\ G!ScanTarget(at) = Found(at, "text")
  /\ \A v, at : G!ScanSpan(v, at) = ScanSpan(v, at)
  /\ \A v, at, known : G!Extra(v, at, known) = Extra(v, at, known)
  /\ \A i : G!Index(i) = Index(i)
BY DEF G!IsString, G!IsDict, G!IsList, G!Falsy, G!Keys, G!Get, G!Found, G!ScanSpan, G!Extra,
       G!Null, G!IsPrefix, IsPrefix, G!Zero, G!String, G!OrEmpty, G!Dict, G!Unknown, G!Unscannable, G!ScanTarget, G!Index,
       IsString, IsDict, IsList, Falsy, Keys, Get, Found, ScanSpan, Extra, Null, Zero, String, OrEmpty, Dict, Index

(* The same of what is defined along a path.                                 *)
LEMMA GeminiPaths ==
  /\ \A v, at : G!StringPaths(v, at) = StringPaths(v, at)
  /\ \A at : G!Pattern(at) = Pattern(at)
  /\ \A v, at : G!ValueAt(v, at) = ValueAt(v, at)
  /\ \A v, at, patterns : G!Misshapen(v, at, patterns) = Misshapen(v, at, patterns)
<1>1. \A v, at : G!StringPaths(v, at) = StringPaths(v, at)
  BY DEF G!StringPaths, G!Leaves, G!Nodes, G!Levels, G!Below, G!Children, G!IsString, G!IsDict, G!IsList, G!IsEncoded,
         G!Keys, G!Index,
         StringPaths, Leaves, Nodes, Levels, Below, Children, IsString, IsDict, IsList, IsEncoded, Keys, Index
<1>2. \A at : G!Pattern(at) = Pattern(at)
  BY DEF G!Pattern, G!IsIndex, G!ToSet, Pattern, IsIndex, ToSet
<1>3. \A v, at : G!ValueAt(v, at) = ValueAt(v, at)
  BY DEF G!ValueAt, G!IsList, G!IndexOf, G!Index, G!Get, G!Keys, G!Null, G!IsDict,
         ValueAt, IsList, IndexOf, Index, Get, Keys, Null, IsDict
<1>4. \A v, at, patterns : G!Misshapen(v, at, patterns) = Misshapen(v, at, patterns)
  BY <1>2, <1>3 DEF G!Misshapen, Misshapen, G!IsIndex, IsIndex, G!ToSet, ToSet, G!IsDict, IsDict, G!IsList, IsList
<1> QED BY <1>1, <1>2, <1>3, <1>4

(* Below a key that nothing reads, or a value of the wrong shape.            *)
LEMMA GeminiUnreadKey ==
  ASSUME NEW r \in Requests, NEW at, NEW q \in Path, NEW x, Passes(r, at, q, x), Pattern(q) \in G!UnreadKeys
  PROVE  G!Unread(r.payload, at)
BY OnTheWay, PatternPrefix, GeminiPaths, GeminiSame DEF G!Unread

LEMMA GeminiWrongShape ==
  ASSUME NEW r \in Requests, NEW at, NEW q \in Path, NEW k, NEW x,
         Onward(r, at, q, k, x),
         Append(Pattern(q), IF IsIndex(k) THEN Anywhere ELSE k) \in G!Shapes,
         IF IsIndex(k) THEN ~ IsDict(x) ELSE ~ IsList(x)
  PROVE  G!Unread(r.payload, at)
<1>1. Misshapen(r.payload, at, G!Shapes)
  <2>1. k \in Elements /\ Passes(r, at, Append(q, k), x) /\ Pattern(Append(q, k)) \in G!Shapes
    BY DEF Onward
  <2> QED BY <2>1, WrongShape
<1> QED BY <1>1, GeminiPaths DEF G!Unread

(* A dictionary on the way: the step goes by a key the schema knows.         *)
LEMMA GeminiDown ==
  ASSUME NEW r \in Requests, NEW at, NEW q, NEW b, Passes(r, at, q, b), IsDict(b),
         NEW known, G!Extra(b, q, known) = {}
  PROVE  \E k \in known : k \in Keys(b) /\ ~ IsIndex(k) /\ Onward(r, at, q, k, Get(b, k))
<1>1. PICK k \in Keys(b) : ~ IsIndex(k) /\ k \in STRING /\ Onward(r, at, q, k, Get(b, k))
  BY DownDict
<1>2. k \in known
  BY GeminiSame, Known
<1> QED BY <1>1, <1>2

LEMMA GeminiKeyLeft ==
  ASSUME NEW r \in Requests, NEW at, NEW q, NEW k, NEW x, Onward(r, at, q, k, x), ~ IsIndex(k),
         Append(Pattern(q), k) \in G!UnreadKeys
  PROVE  G!Unread(r.payload, at)
<1>1. Append(q, k) \in Path /\ Pattern(Append(q, k)) = Append(Pattern(q), k) /\ Passes(r, at, Append(q, k), x)
  BY DEF Onward
<1> QED BY <1>1, GeminiUnreadKey

(* The patterns of the places that the walks come to.                        *)
LEMMA GeminiPatterns ==
  /\ Append(<<"contents">>, Anywhere) = <<"contents", Anywhere>>
  /\ Append(<<"contents", Anywhere>>, "parts") = <<"contents", Anywhere, "parts">>
  /\ Append(<<"contents", Anywhere, "parts">>, Anywhere) = <<"contents", Anywhere, "parts", Anywhere>>
  /\ \A k : Append(<<k>>, "parts") = <<k, "parts">> /\ Append(<<k, "parts">>, Anywhere) = <<k, "parts", Anywhere>>
BY Appended1, Appended2, Appended3

LEMMA PrefixIs ==
  ASSUME NEW q \in Path, NEW at \in Path, IsPrefix(q, at)
  PROVE  SubSeq(at, 1, Len(q)) = q /\ SubSeq(Pattern(at), 1, Len(q)) = Pattern(q)
<1>1. SubSeq(q, 1, Len(q)) = q
  BY DEF Path
<1>2. SubSeq(Pattern(q), 1, Len(q)) = Pattern(q)
  BY PatternTyped
<1>3. SubSeq(at, 1, Len(q)) = SubSeq(q, 1, Len(q))
  BY DEF IsPrefix
<1>4. SubSeq(Pattern(at), 1, Len(q)) = SubSeq(Pattern(q), 1, Len(q))
  BY PatternPrefix, PatternTyped DEF IsPrefix
<1> QED BY <1>1, <1>2, <1>3, <1>4

LEMMA PartsAre ==
  ASSUME NEW q \in Path, Pattern(q) \in G!PartPatterns
  PROVE  Len(q) \in {3, 4}
<1>1. Len(Pattern(q)) \in {3, 4}
  BY DEF G!PartPatterns
<1> QED BY <1>1, PatternTyped

(* A key of a part that is not the one its kind goes by. *)
LEMMA GeminiOtherKey ==
  ASSUME NEW r \in Requests, NEW at, NEW q \in Path, NEW b, Passes(r, at, q, b), Pattern(q) \in G!PartPatterns,
         NEW k, NEW x, Onward(r, at, q, k, x), k # G!KeyOf(b, G!KindOf(b))
  PROVE  G!Unread(r.payload, at)
<1>1. at \in Path /\ IsPrefix(q, at) /\ ValueAt(r.payload, q) = b /\ k \in Elements /\ IsPrefix(Append(q, k), at)
  BY OnTheWay DEF Onward
<1>2. Len(q) + 1 \in 1..Len(at) /\ at[Len(q) + 1] = k
  BY <1>1, PrefixParts
<1>3. SubSeq(at, 1, Len(q)) = q /\ SubSeq(Pattern(at), 1, Len(q)) = Pattern(q)
  BY <1>1, PrefixIs
<1>4. Len(q) \in {3, 4} /\ Len(at) > Len(q)
  BY <1>1, <1>2, PartsAre DEF Path
<1> DEFINE n == Len(q)
<1>5. G!UnreadInPart(r.payload, at)
  <2>1. SubSeq(at, 1, n) = q /\ SubSeq(G!Pattern(at), 1, n) \in G!PartPatterns /\ G!ValueAt(r.payload, q) = b
        /\ n \in {3, 4} /\ Len(at) > n /\ at[n + 1] # G!KeyOf(b, G!KindOf(b))
    BY <1>1, <1>2, <1>3, <1>4, GeminiPaths
  <2> HIDE DEF n
  <2> QED BY <2>1 DEF G!UnreadInPart
<1> QED BY <1>5 DEF G!Unread

(* A key in the object of a part where no text is looked for. *)
LEMMA GeminiOtherInside ==
  ASSUME NEW r \in Requests, NEW at, NEW q \in Path, NEW b, Passes(r, at, q, b), Pattern(q) \in G!PartPatterns,
         NEW k, NEW x, Onward(r, at, q, k, x), NEW j, NEW y, Onward(r, at, Append(q, k), j, y),
         G!KindOf(b) \in DOMAIN G!Inside, j # G!Inside[G!KindOf(b)]
  PROVE  G!Unread(r.payload, at)
<1>1. at \in Path /\ IsPrefix(q, at) /\ ValueAt(r.payload, q) = b
      /\ j \in Elements /\ IsPrefix(Append(Append(q, k), j), at) /\ Append(q, k) \in Path /\ Len(Append(q, k)) = Len(q) + 1
  BY OnTheWay DEF Onward
<1>2. Len(q) + 1 + 1 \in 1..Len(at) /\ at[Len(q) + 1 + 1] = j
  <2>1. Len(Append(q, k)) + 1 \in 1..Len(at) /\ at[Len(Append(q, k)) + 1] = j
    BY <1>1, PrefixParts
  <2> QED BY <1>1, <2>1
<1>3. SubSeq(at, 1, Len(q)) = q /\ SubSeq(Pattern(at), 1, Len(q)) = Pattern(q)
  BY <1>1, PrefixIs
<1>4. Len(q) \in {3, 4} /\ Len(at) > Len(q) + 1 /\ Len(at) > Len(q) /\ at[Len(q) + 2] = j
  <2>1. Len(q) \in {3, 4} /\ Len(q) + 1 + 1 = Len(q) + 2 /\ Len(at) \in Nat
    BY <1>1, PartsAre DEF Path
  <2> QED BY <1>2, <2>1
<1> DEFINE n == Len(q)
<1>5. G!UnreadInPart(r.payload, at)
  <2>1. SubSeq(at, 1, n) = q /\ SubSeq(G!Pattern(at), 1, n) \in G!PartPatterns /\ G!ValueAt(r.payload, q) = b
        /\ n \in {3, 4} /\ Len(at) > n /\ Len(at) > n + 1 /\ at[n + 2] # G!Inside[G!KindOf(b)]
    BY <1>1, <1>2, <1>3, <1>4, GeminiPaths
  <2> HIDE DEF n
  <2> QED BY <2>1 DEF G!UnreadInPart
<1> QED BY <1>5 DEF G!Unread

(* The keys of a part that give its kind, and where their text is looked for. *)
LEMMA GeminiKinds ==
  ASSUME NEW b
  PROVE  G!KindOf(b) \in {"", "text", "functionCall", "functionResponse", "executableCode",
                          "codeExecutionResult", "inlineData", "fileData"}
<1> DEFINE H(i) == G!Has(b, i)
           Lowest(i) == H(i) /\ \A j \in 1..i - 1 : ~ H(j)
<1>1. DOMAIN G!Kinds = 1..7
      /\ \A i \in 1..7 : G!Kinds[i] \in {"text", "functionCall", "functionResponse", "executableCode",
                                         "codeExecutionResult", "inlineData", "fileData"}
  BY DEF G!Kinds
<1>2. ASSUME NEW i \in 1..7, H(i) PROVE \E j \in 1..7 : Lowest(j)
  <2> HIDE DEF H
  <2>1. 1..1 - 1 = {} /\ 1..2 - 1 = {1} /\ 1..3 - 1 = {1, 2} /\ 1..4 - 1 = {1, 2, 3} /\ 1..5 - 1 = {1, 2, 3, 4}
        /\ 1..6 - 1 = {1, 2, 3, 4, 5} /\ 1..7 - 1 = {1, 2, 3, 4, 5, 6} /\ 1..7 = {1, 2, 3, 4, 5, 6, 7}
    OBVIOUS
  <2>2. CASE H(1)
    BY <2>1, <2>2
  <2>3. CASE ~ H(1) /\ H(2)
    BY <2>1, <2>3
  <2>4. CASE ~ H(1) /\ ~ H(2) /\ H(3)
    BY <2>1, <2>4
  <2>5. CASE ~ H(1) /\ ~ H(2) /\ ~ H(3) /\ H(4)
    BY <2>1, <2>5
  <2>6. CASE ~ H(1) /\ ~ H(2) /\ ~ H(3) /\ ~ H(4) /\ H(5)
    BY <2>1, <2>6
  <2>7. CASE ~ H(1) /\ ~ H(2) /\ ~ H(3) /\ ~ H(4) /\ ~ H(5) /\ H(6)
    BY <2>1, <2>7
  <2>8. CASE ~ H(1) /\ ~ H(2) /\ ~ H(3) /\ ~ H(4) /\ ~ H(5) /\ ~ H(6) /\ H(7)
    BY <2>1, <2>8
  <2> QED BY <1>2, <2>1, <2>2, <2>3, <2>4, <2>5, <2>6, <2>7, <2>8
<1>3. CASE \E i \in DOMAIN G!Kinds : H(i)
  <2>1. PICK j \in 1..7 : Lowest(j)
    BY <1>1, <1>2, <1>3
  <2> DEFINE c == CHOOSE i \in DOMAIN G!Kinds : Lowest(i)
  <2>2. c \in 1..7
    BY <1>1, <2>1
  <2>3. G!KindOf(b) = G!Kinds[c]
    BY <1>3 DEF G!KindOf
  <2> QED BY <1>1, <2>2, <2>3
<1>4. CASE ~ \E i \in DOMAIN G!Kinds : H(i)
  BY <1>4 DEF G!KindOf
<1> QED BY <1>3, <1>4

LEMMA GeminiInside ==
  DOMAIN G!Inside = {"functionCall", "functionResponse", "executableCode", "codeExecutionResult"}
BY DEF G!Inside

(* Each function, on the way to a text: a part, the parts, a content, the    *)
(* instruction, the contents, the request.                                   *)
LEMMA GeminiPart ==
  ASSUME NEW r \in Requests, NEW at, NEW q \in Path, NEW b, Passes(r, at, q, b), IsDict(b),
         Pattern(q) \in G!PartPatterns,
         Clean(G!ScrubPart(b, q), at)
  PROVE  G!Unread(r.payload, at)
<1> DEFINE kind  == G!KindOf(b)
           key   == G!KeyOf(b, kind)
           value == Get(b, key)
           here  == Append(q, key)
<1>1. PICK k \in Keys(b) : ~ IsIndex(k) /\ k \in STRING /\ Onward(r, at, q, k, Get(b, k))
  BY DownDict
<1>2. SUFFICES ASSUME k = key PROVE G!Unread(r.payload, at)
  BY <1>1, GeminiOtherKey
<1>3. Passes(r, at, here, value) /\ Onward(r, at, q, key, value)
  BY <1>1, <1>2 DEF Onward
<1>4. kind \in {"", "text", "functionCall", "functionResponse", "executableCode",
                "codeExecutionResult", "inlineData", "fileData"}
  BY GeminiKinds
<1>5. CASE kind = "text"
  <2>1. G!ScrubPart(b, q) = ScanSpan(value, here)
    BY <1>5, GeminiSame, GeminiInside DEF G!ScrubPart
  <2> QED BY <1>3, <2>1, SpanIsRead
<1>6. CASE kind \in DOMAIN G!Inside /\ IsDict(value)
  <2> DEFINE in == G!Inside[kind]
  <2>1. PICK j \in Keys(value) : ~ IsIndex(j) /\ j \in STRING /\ Onward(r, at, here, j, Get(value, j))
    BY <1>3, <1>6, DownDict
  <2>2. SUFFICES ASSUME j = in PROVE FALSE
    BY <1>3, <1>6, <2>1, GeminiOtherInside
  <2>3. Passes(r, at, Append(here, in), Get(value, in))
    BY <2>1, <2>2 DEF Onward
  <2>4. CASE kind \in {"functionCall", "functionResponse"}
    <3>1. G!ScrubPart(b, q) = UNION {Found(p, "text") : p \in StringPaths(OrEmpty(Get(value, in)), Append(here, in))}
      BY <1>6, <2>4, GeminiSame, GeminiPaths, GeminiInside DEF G!ScrubPart, G!ScrubJsonObject
    <3> QED BY <2>3, <3>1, JsonIsRead
  <2>5. CASE kind \in {"executableCode", "codeExecutionResult"}
    <3>1. G!ScrubPart(b, q) = ScanSpan(Get(value, in), Append(here, in))
      BY <1>6, <2>5, GeminiSame, GeminiInside DEF G!ScrubPart
    <3> QED BY <2>3, <3>1, SpanIsRead
  <2> QED BY <1>6, <2>4, <2>5, GeminiInside
<1>7. CASE kind \in DOMAIN G!Inside /\ ~ IsDict(value)
  <2>1. G!ScrubPart(b, q) = Found(here, "unknown")
    BY <1>7, GeminiSame, GeminiInside DEF G!ScrubPart
  <2> QED BY <2>1, NotClean
<1>8. CASE kind \in {"inlineData", "fileData"}
  <2>1. G!ScrubPart(b, q) = Found(here, "unscannable")
    BY <1>8, GeminiSame, GeminiInside DEF G!ScrubPart
  <2> QED BY <2>1, NotClean
<1>9. CASE kind = ""
  <2>1. G!ScrubPart(b, q) = Found(q, "unknown")
    BY <1>9, GeminiSame, GeminiInside DEF G!ScrubPart
  <2> QED BY <2>1, NotClean
<1> QED BY <1>4, <1>5, <1>6, <1>7, <1>8, <1>9, GeminiInside

LEMMA GeminiParts ==
  ASSUME NEW r \in Requests, NEW at, NEW q \in Path, NEW v, Passes(r, at, q, v), IsList(v),
         Append(Pattern(q), Anywhere) \in G!PartPatterns,
         \A i \in DOMAIN v[2] : Clean(G!ScrubPart(v[2][i], Append(q, Index(i))), at)
  PROVE  G!Unread(r.payload, at)
<1>1. PICK i \in DOMAIN v[2] : IsIndex(Index(i)) /\ IndexOf(Index(i)) = i /\ Onward(r, at, q, Index(i), v[2][i])
  BY DownList
<1> DEFINE b == v[2][i]
           here == Append(q, Index(i))
<1>2. CASE ~ IsDict(b)
  <2>1. Append(Pattern(q), Anywhere) \in G!Shapes
    BY DEF G!PartPatterns, G!Shapes
  <2> QED BY <1>1, <1>2, <2>1, GeminiWrongShape
<1>3. CASE IsDict(b)
  <2>1. here \in Path /\ Pattern(here) \in G!PartPatterns /\ Passes(r, at, here, b)
    BY <1>1 DEF Onward
  <2>2. Clean(G!ScrubPart(b, here), at)
    OBVIOUS
  <2> HIDE DEF b, here
  <2> QED BY <1>3, <2>1, <2>2, GeminiPart
<1> QED BY <1>2, <1>3

LEMMA GeminiContentItem ==
  ASSUME NEW r \in Requests, NEW at, NEW q \in Path, NEW c, Passes(r, at, q, c), IsDict(c),
         Pattern(q) = <<"contents", Anywhere>>,
         Clean(G!ScrubContentItem(c, q), at), G!DiffContentItem(c, q) = {}
  PROVE  G!Unread(r.payload, at)
<1>1. G!Extra(c, q, G!ContentKeys) = {}
  BY DEF G!DiffContentItem
<1>2. PICK k \in G!ContentKeys : k \in Keys(c) /\ ~ IsIndex(k) /\ Onward(r, at, q, k, Get(c, k))
  BY <1>1, GeminiDown
<1>3. CASE k = "role"
  <2>1. Append(Pattern(q), k) \in G!UnreadKeys
    BY <1>3, Appended2 DEF G!UnreadKeys
  <2> QED BY <1>2, <2>1, GeminiKeyLeft
<1>4. CASE k = "parts" /\ ~ IsList(Get(c, k))
  <2>1. Append(Pattern(q), k) \in G!Shapes
    BY <1>4, GeminiPatterns DEF G!Shapes
  <2> QED BY <1>2, <1>4, <2>1, GeminiWrongShape
<1>5. CASE k = "parts" /\ IsList(Get(c, k))
  <2> DEFINE v == Get(c, "parts")
             here == Append(q, "parts")
  <2>1. Passes(r, at, here, v) /\ here \in Path /\ IsList(v) /\ Append(Pattern(here), Anywhere) \in G!PartPatterns
    BY <1>2, <1>5, GeminiPatterns DEF Onward, G!PartPatterns
  <2>2. ASSUME NEW i \in DOMAIN v[2] PROVE Clean(G!ScrubPart(v[2][i], Append(here, Index(i))), at)
    <3>1. G!ScrubPart(v[2][i], Append(here, Index(i))) \subseteq G!ScrubContentItem(c, q)
      BY <2>1, GeminiSame DEF G!ScrubContentItem, G!ScrubParts, G!EachItem
    <3> QED BY <3>1, CleanPart
  <2> HIDE DEF v, here
  <2> QED BY <2>1, <2>2, GeminiParts
<1> QED BY <1>2, <1>3, <1>4, <1>5 DEF G!ContentKeys

LEMMA GeminiInstruction ==
  ASSUME NEW r \in Requests, NEW at, NEW q \in Path, NEW v, Passes(r, at, q, v),
         NEW key \in {"systemInstruction", "system_instruction"}, Pattern(q) = <<key>>,
         Clean(G!ScrubSystemInstruction(v, q), at), G!DiffInstruction(v, q) = {}
  PROVE  G!Unread(r.payload, at)
<1>1. CASE IsString(v)
  <2>1. G!ScrubSystemInstruction(v, q) = ScanSpan(v, q)
    BY <1>1, GeminiSame, FalsyIs DEF G!ScrubSystemInstruction, G!Get, G!Keys, Null, IsList
  <2> QED BY <2>1, SpanIsRead
<1>2. CASE IsList(Get(v, "parts")) /\ ~ IsString(v)
  <2>1. IsDict(v) /\ G!Extra(v, q, G!InstructionKeys) = {}
    BY <1>2 DEF Get, Keys, IsList, Null, G!DiffInstruction
  <2>2. PICK k \in G!InstructionKeys : k \in Keys(v) /\ ~ IsIndex(k) /\ Onward(r, at, q, k, Get(v, k))
    BY <2>1, GeminiDown
  <2>3. CASE k = "role"
    <3>1. Append(Pattern(q), k) \in G!UnreadKeys
      BY <2>3, Appended1 DEF G!UnreadKeys
    <3> QED BY <2>2, <3>1, GeminiKeyLeft
  <2>4. CASE k = "parts"
    <3> DEFINE l == Get(v, "parts")
               here == Append(q, "parts")
    <3>1. Passes(r, at, here, l) /\ here \in Path /\ IsList(l) /\ Append(Pattern(here), Anywhere) \in G!PartPatterns
      BY <1>2, <2>2, <2>4, GeminiPatterns DEF Onward, G!PartPatterns
    <3>2. ASSUME NEW i \in DOMAIN l[2] PROVE Clean(G!ScrubPart(l[2][i], Append(here, Index(i))), at)
      <4>1. G!ScrubPart(l[2][i], Append(here, Index(i))) \subseteq G!ScrubSystemInstruction(v, q)
        BY <1>2, <3>1, GeminiSame DEF G!ScrubSystemInstruction, G!ScrubParts, G!EachItem
      <4> QED BY <4>1, CleanPart
    <3> HIDE DEF l, here
    <3> QED BY <3>1, <3>2, GeminiParts
  <2> QED BY <2>2, <2>3, <2>4 DEF G!InstructionKeys
<1>3. CASE ~ IsList(Get(v, "parts")) /\ ~ IsString(v)
  <2>1. G!ScrubSystemInstruction(v, q) = Found(q, "unknown")
    BY <1>3, GeminiSame DEF G!ScrubSystemInstruction
  <2> QED BY <2>1, NotClean
<1> QED BY <1>1, <1>2, <1>3

LEMMA GeminiContents ==
  ASSUME NEW r \in Requests, NEW at, NEW q \in Path, NEW v, Passes(r, at, q, v),
         Pattern(q) = <<"contents">>, IsList(v),
         \A i \in DOMAIN v[2] : /\ Clean(G!ScrubContentItem(v[2][i], Append(q, Index(i))), at)
                                /\ G!DiffContentItem(v[2][i], Append(q, Index(i))) = {}
  PROVE  G!Unread(r.payload, at)
<1>1. PICK i \in DOMAIN v[2] : IsIndex(Index(i)) /\ IndexOf(Index(i)) = i /\ Onward(r, at, q, Index(i), v[2][i])
  BY DownList
<1> DEFINE m == v[2][i]
           here == Append(q, Index(i))
<1>2. Append(Pattern(q), Anywhere) = <<"contents", Anywhere>>
  BY GeminiPatterns
<1>3. CASE ~ IsDict(m)
  <2>1. <<"contents", Anywhere>> \in G!Shapes
    BY DEF G!Shapes
  <2> QED BY <1>1, <1>2, <1>3, <2>1, GeminiWrongShape
<1>4. CASE IsDict(m)
  <2>1. here \in Path /\ Pattern(here) = <<"contents", Anywhere>> /\ Passes(r, at, here, m)
    BY <1>1, <1>2 DEF Onward
  <2>2. Clean(G!ScrubContentItem(m, here), at) /\ G!DiffContentItem(m, here) = {}
    OBVIOUS
  <2> HIDE DEF m, here
  <2> QED BY <1>4, <2>1, <2>2, GeminiContentItem
<1> QED BY <1>3, <1>4

LEMMA GeminiRoots ==
  G!Both({"contents", "systemInstruction"}) \subseteq {"contents", "systemInstruction", "system_instruction"}
<1>1. DOMAIN G!Alias = {"functionCall", "functionResponse", "executableCode", "codeExecutionResult",
                        "inlineData", "fileData", "systemInstruction"}
      /\ G!Alias["systemInstruction"] = "system_instruction"
  BY DEF G!Alias
<1>2. {"contents", "systemInstruction"} \cap DOMAIN G!Alias \subseteq {"systemInstruction"}
  BY <1>1
<1> QED BY <1>1, <1>2 DEF G!Both

LEMMA GeminiStrict ==
  ASSUME NEW r \in Requests, NEW at \in TextPaths(r.payload),
         Clean(G!Scrub(r.payload), at), G!Diff(r.payload) = {}
  PROVE  G!Unread(r.payload, at)
<1> DEFINE p == r.payload
<1>1. PICK k \in Keys(p) : /\ ~ IsIndex(k) /\ k \in STRING /\ Pattern(<<k>>) = <<k>> /\ <<k>> \in Path /\ Len(<<k>>) = 1
                           /\ k \in Elements /\ Passes(r, at, <<k>>, Get(p, k)) /\ Onward(r, at, <<>>, k, Get(p, k))
  BY DownRoot
<1>2. k \in G!RootKeys
  <2>1. G!Extra(p, <<>>, G!RootKeys) = {}
    BY DEF G!Diff
  <2> QED BY <2>1, Known, GeminiSame
<1>3. CASE k \notin {"contents", "systemInstruction", "system_instruction"}
  <2>1. Pattern(<<k>>) \in G!UnreadKeys
    BY <1>1, <1>2, <1>3, GeminiRoots DEF G!UnreadKeys
  <2> QED BY <1>1, <2>1, GeminiUnreadKey
<1>4. <<>> \in Path /\ <<k>> = Append(<<>>, k) /\ Len(<<>>) = 0 /\ Pattern(<<>>) = <<>>
  BY DEF Path, Pattern
<1>5. CASE k \in {"systemInstruction", "system_instruction"}
  <2> DEFINE v == Get(p, k)
             q == <<k>>
  <2>1. at[1] = k
    <3>1. at \in Path /\ IsPrefix(Append(<<>>, k), at)
      BY <1>1, <1>4, OnTheWay
    <3>2. at[Len(<<>>) + 1] = k
      BY <1>1, <1>4, <3>1, PrefixParts
    <3> QED BY <1>4, <3>2
  <2>2. SUFFICES ASSUME k = "systemInstruction" \/ G!InstructionKey(p) = k PROVE G!Unread(p, at)
    BY <1>5, <2>1 DEF G!Unread
  <2>3. G!InstructionKey(p) = k /\ k # ""
    BY <1>1, <1>5, <2>2, GeminiSame DEF G!InstructionKey, G!KeyOf
  <2>4. G!ScrubSystemInstruction(v, q) \subseteq G!Scrub(p)
    BY <2>3, GeminiSame DEF G!Scrub
  <2>5. G!DiffInstruction(v, q) = {}
    BY <1>5, GeminiSame DEF G!Diff, G!DiffSpellings
  <2>6. q \in Path /\ Pattern(q) = <<k>> /\ Passes(r, at, q, v)
    BY <1>1
  <2>7. Clean(G!ScrubSystemInstruction(v, q), at)
    BY <2>4, CleanPart
  <2> HIDE DEF v, q
  <2> QED BY <1>5, <2>5, <2>6, <2>7, GeminiInstruction
<1>6. CASE k = "contents" /\ ~ IsList(Get(p, k))
  <2>1. Append(Pattern(<<>>), k) \in G!Shapes
    BY <1>4, <1>6 DEF G!Shapes
  <2> QED BY <1>1, <1>4, <1>6, <2>1, GeminiWrongShape
<1>7. CASE k = "contents" /\ IsList(Get(p, k))
  <2> DEFINE v == Get(p, "contents")
             q == <<"contents">>
  <2>1. q \in Path /\ Pattern(q) = <<"contents">> /\ Passes(r, at, q, v) /\ IsList(v)
    BY <1>1, <1>7
  <2>2. ASSUME NEW i \in DOMAIN v[2]
        PROVE  Clean(G!ScrubContentItem(v[2][i], Append(q, Index(i))), at)
    <3>1. G!ScrubContentItem(v[2][i], Append(q, Index(i))) \subseteq G!Scrub(p)
      BY <2>1, GeminiSame DEF G!Scrub, G!EachOf, G!EachItem
    <3> QED BY <3>1, CleanPart
  <2>3. ASSUME NEW i \in DOMAIN v[2] PROVE G!DiffContentItem(v[2][i], Append(q, Index(i))) = {}
    BY <2>1, GeminiSame DEF G!Diff, G!EachOf, G!EachItem
  <2> HIDE DEF v, q
  <2> QED BY <2>1, <2>2, <2>3, GeminiContents
<1> QED BY <1>3, <1>5, <1>6, <1>7

-----------------------------------------------------------------------------
(* The scrubber and the parser agree on what there is at and below a place.  *)
Alike(p, read, targets, images, files, others, unknowns) ==
    /\ read = targets /\ images = files /\ others \subseteq unknowns
    /\ \A at \in unknowns \ others : IsIndex(Last(at)) /\ ~ IsDict(ValueAt(p, at))
Agrees(p, S, F) ==
    Alike(p, Places(S, {"text", "error"}), Places(F, {"text"}),
          Places(S, {"unscannable"}), Places(F, {"unscannable"}),
          Places(S, {"unknown", "noted"}), Places(F, {"unknown"}))

(* x is what the payload has at q. *)
Holds(r, q, x) ==
    (\E n \in 0..Depth : <<q, x>> \in Levels(r.payload, <<>>)[n]) /\ ValueAt(r.payload, q) = x

(* The payload itself and what is under its keys and positions.              *)
LEMMA HoldsRoot == ASSUME NEW r \in Requests PROVE Holds(r, <<>>, r.payload)
BY LevelsAre, ValueOfRoot, JsonAssumption DEF Holds

LEMMA HoldsChild ==
  ASSUME NEW r \in Requests, NEW q, NEW x, Holds(r, q, x), NEW c \in Children(<<q, x>>),
         ValueAt(r.payload, c[1]) = c[2]
  PROVE  Holds(r, c[1], c[2])
<1>0. Depth \in Nat
  BY JsonAssumption
<1>1. PICK n \in 0..Depth : <<q, x>> \in Levels(r.payload, <<>>)[n]
  BY DEF Holds
<1>2. n # Depth
  BY <1>1, CoverageAssumption
<1>3. n + 1 \in 1..Depth /\ n + 1 - 1 = n /\ n + 1 \in 0..Depth
  BY <1>0, <1>2
<1>4. c \in Levels(r.payload, <<>>)[n + 1]
  BY <1>1, <1>3, LevelsAre DEF Below
<1> QED BY <1>3, <1>4, ChildrenArePairs DEF Holds

LEMMA HoldsPlace ==
  ASSUME NEW r \in Requests, NEW q, NEW x, Holds(r, q, x)
  PROVE  q \in Path /\ InPlace(<<q, x>>, r.provider) /\ ValueAt(r.payload, q) = x
BY NodesInPlace DEF Holds

LEMMA HoldsKey ==
  ASSUME NEW r \in Requests, NEW q, NEW x, Holds(r, q, x), NEW k \in Keys(x)
  PROVE  Holds(r, Append(q, k), Get(x, k))
<1>1. IsDict(x) /\ ~ IsList(x) /\ Get(x, k) = x[2][k]
  BY OneKind DEF Keys, Get
<1>2. q \in Path /\ k \in Elements /\ ValueAt(r.payload, q) = x
  BY HoldsPlace, PositionsAre DEF InPlace
<1>3. ValueAt(r.payload, Append(q, k)) = Get(x, k)
  BY <1>1, <1>2, ValueOfChild DEF Child
<1>4. <<Append(q, k), x[2][k]>> \in Children(<<q, x>>)
  BY <1>1, OneKind DEF Children
<1> DEFINE c == <<Append(q, k), x[2][k]>>
<1>5. c[1] = Append(q, k) /\ c[2] = Get(x, k)
  BY <1>1
<1> HIDE DEF c
<1> QED BY <1>3, <1>4, <1>5, HoldsChild DEF c

LEMMA HoldsItem ==
  ASSUME NEW r \in Requests, NEW q, NEW x, Holds(r, q, x), IsList(x), NEW i \in DOMAIN x[2]
  PROVE  Holds(r, Append(q, Index(i)), x[2][i]) /\ IsIndex(Last(Append(q, Index(i))))
<1>1. q \in Path /\ ValueAt(r.payload, q) = x /\ i \in 1..Len(Positions)
  BY HoldsPlace, JsonAssumption DEF InPlace
<1>2. Index(i) \in Elements /\ IsIndex(Index(i)) /\ IndexOf(Index(i)) = i
  BY <1>1, PositionsAre
<1>3. ValueAt(r.payload, Append(q, Index(i))) = x[2][i]
  BY <1>1, <1>2, ValueOfChild DEF Child
<1>4. <<Append(q, Index(i)), x[2][i]>> \in Children(<<q, x>>)
  BY OneKind DEF Children
<1>5. Last(Append(q, Index(i))) = Index(i)
  BY <1>1, <1>2 DEF Last, Path
<1> DEFINE c == <<Append(q, Index(i)), x[2][i]>>
<1>6. c[1] = Append(q, Index(i)) /\ c[2] = x[2][i]
  OBVIOUS
<1> HIDE DEF c
<1> QED BY <1>2, <1>3, <1>4, <1>5, <1>6, HoldsChild DEF c

(* The places of what is found at one place, in unions and in nothing.       *)
LEMMA PlacesFound ==
  ASSUME NEW q, NEW how, NEW hows
  PROVE  Places(Found(q, how), hows) = IF how \in hows THEN {q} ELSE {}
<1> DEFINE found == [at |-> q, how |-> how]
<1>1. Found(q, how) = {found} /\ found.at = q /\ found.how = how
  BY DEF Found
<1> HIDE DEF found
<1> QED BY <1>1 DEF Places

(* U is the union of the sets f[i]. *)
Gathers(U, D, f) == \A x : x \in U <=> \E i \in D : x \in f[i]

LEMMA PlacesGather ==
  ASSUME NEW hows, NEW U, NEW D, NEW f, Gathers(U, D, f)
  PROVE  \A at : at \in Places(U, hows) <=> \E i \in D : at \in Places(f[i], hows)
BY DEF Places, Gathers

LEMMA PlacesNothing == ASSUME NEW hows PROVE Places({}, hows) = {}
BY DEF Places

(* Agrees of nothing, of a union and of two walks together.                  *)
LEMMA AgreesNothing == ASSUME NEW p PROVE Agrees(p, {}, {})
<1>1. Alike(p, {}, {}, {}, {}, {}, {})
  BY DEF Alike
<1> QED BY <1>1, PlacesNothing DEF Agrees

LEMMA AgreesGathers ==
  ASSUME NEW p, NEW D, NEW U, NEW f, NEW V, NEW g, Gathers(U, D, f), Gathers(V, D, g),
         \A i \in D : Agrees(p, f[i], g[i])
  PROVE  Agrees(p, U, V)
<1>1. Places(U, {"text", "error"}) = Places(V, {"text"})
  <2>1. \A i \in D : Places(f[i], {"text", "error"}) = Places(g[i], {"text"})
    BY DEF Agrees, Alike
  <2>2. \A at : at \in Places(U, {"text", "error"}) <=> \E i \in D : at \in Places(f[i], {"text", "error"})
    BY PlacesGather
  <2>3. \A at : at \in Places(V, {"text"}) <=> \E i \in D : at \in Places(g[i], {"text"})
    BY PlacesGather
  <2> QED BY <2>1, <2>2, <2>3
<1>2. Places(U, {"unscannable"}) = Places(V, {"unscannable"})
  <2>1. \A i \in D : Places(f[i], {"unscannable"}) = Places(g[i], {"unscannable"})
    BY DEF Agrees, Alike
  <2>2. \A at : at \in Places(U, {"unscannable"}) <=> \E i \in D : at \in Places(f[i], {"unscannable"})
    BY PlacesGather
  <2>3. \A at : at \in Places(V, {"unscannable"}) <=> \E i \in D : at \in Places(g[i], {"unscannable"})
    BY PlacesGather
  <2> QED BY <2>1, <2>2, <2>3
<1>3. \A at : at \in Places(U, {"unknown", "noted"}) <=> \E i \in D : at \in Places(f[i], {"unknown", "noted"})
  BY PlacesGather
<1>4. \A at : at \in Places(V, {"unknown"}) <=> \E i \in D : at \in Places(g[i], {"unknown"})
  BY PlacesGather
<1>5. \A i \in D : /\ Places(f[i], {"unknown", "noted"}) \subseteq Places(g[i], {"unknown"})
                   /\ \A at \in Places(g[i], {"unknown"}) \ Places(f[i], {"unknown", "noted"}) :
                         IsIndex(Last(at)) /\ ~ IsDict(ValueAt(p, at))
  BY DEF Agrees, Alike
<1>6. Places(U, {"unknown", "noted"}) \subseteq Places(V, {"unknown"})
  BY <1>3, <1>4, <1>5
<1>7. \A at \in Places(V, {"unknown"}) \ Places(U, {"unknown", "noted"}) :
         IsIndex(Last(at)) /\ ~ IsDict(ValueAt(p, at))
  BY <1>3, <1>4, <1>5
<1> QED BY <1>1, <1>2, <1>6, <1>7 DEF Agrees, Alike

LEMMA AgreesBoth ==
  ASSUME NEW p, NEW S, NEW F, NEW T, NEW H, Agrees(p, S, F), Agrees(p, T, H)
  PROVE  Agrees(p, S \cup T, F \cup H)
<1> DEFINE f == [i \in {1, 2} |-> IF i = 1 THEN S ELSE T]
           g == [i \in {1, 2} |-> IF i = 1 THEN F ELSE H]
<1>1. Gathers(S \cup T, {1, 2}, f) /\ Gathers(F \cup H, {1, 2}, g)
  BY DEF Gathers
<1>2. \A i \in {1, 2} : Agrees(p, f[i], g[i])
  OBVIOUS
<1> HIDE DEF f, g
<1> QED BY <1>1, <1>2, AgreesGathers

(* Agrees of one place, of a span and of the strings of a value.             *)
LEMMA AgreesFound ==
  ASSUME NEW p, NEW q
  PROVE  /\ \A how \in {"text", "unscannable", "unknown"} : Agrees(p, Found(q, how), Found(q, how))
         /\ Agrees(p, Found(q, "error"), Found(q, "text")) /\ Agrees(p, Found(q, "noted"), Found(q, "unknown"))
         /\ IsIndex(Last(q)) /\ ~ IsDict(ValueAt(p, q)) => Agrees(p, {}, Found(q, "unknown"))
<1>1. Alike(p, {q}, {q}, {}, {}, {}, {}) /\ Alike(p, {}, {}, {q}, {q}, {}, {}) /\ Alike(p, {}, {}, {}, {}, {q}, {q})
  BY DEF Alike
<1>2. IsIndex(Last(q)) /\ ~ IsDict(ValueAt(p, q)) => Alike(p, {}, {}, {}, {}, {}, {q})
  BY DEF Alike
<1>3. ASSUME NEW how \in {"text", "error"}
      PROVE  /\ Places(Found(q, how), {"text", "error"}) = {q} /\ Places(Found(q, "text"), {"text"}) = {q}
             /\ Places(Found(q, how), {"unscannable"}) = {} /\ Places(Found(q, how), {"unknown", "noted"}) = {}
             /\ Places(Found(q, how), {"unknown"}) = {}
  BY PlacesFound
<1>4. ASSUME NEW how \in {"unknown", "noted"}
      PROVE  /\ Places(Found(q, how), {"text", "error"}) = {} /\ Places(Found(q, how), {"text"}) = {}
             /\ Places(Found(q, how), {"unscannable"}) = {} /\ Places(Found(q, how), {"unknown", "noted"}) = {q}
             /\ Places(Found(q, "unknown"), {"unknown"}) = {q}
  BY PlacesFound
<1>5. /\ Places(Found(q, "unscannable"), {"text", "error"}) = {} /\ Places(Found(q, "unscannable"), {"text"}) = {}
      /\ Places(Found(q, "unscannable"), {"unscannable"}) = {q}
      /\ Places(Found(q, "unscannable"), {"unknown", "noted"}) = {} /\ Places(Found(q, "unscannable"), {"unknown"}) = {}
  BY PlacesFound
<1>6. ASSUME NEW how \in {"text", "error"} PROVE Agrees(p, Found(q, how), Found(q, "text"))
  BY <1>1, <1>3 DEF Agrees
<1>7. ASSUME NEW how \in {"unknown", "noted"} PROVE Agrees(p, Found(q, how), Found(q, "unknown"))
  BY <1>1, <1>4 DEF Agrees
<1>8. Agrees(p, Found(q, "unscannable"), Found(q, "unscannable"))
  BY <1>1, <1>5 DEF Agrees
<1>9. ASSUME IsIndex(Last(q)), ~ IsDict(ValueAt(p, q)) PROVE Agrees(p, {}, Found(q, "unknown"))
  BY <1>2, <1>4, <1>9, PlacesNothing DEF Agrees
<1> QED BY <1>6, <1>7, <1>8, <1>9

LEMMA AgreesSpan ==
  ASSUME NEW p, NEW q, NEW x
  PROVE  Agrees(p, ScanSpan(x, q), Found(q, "text"))
<1>1. ScanSpan(x, q) = Found(q, "text") \/ ScanSpan(x, q) = Found(q, "error")
  BY DEF ScanSpan
<1> QED BY <1>1, AgreesFound

LEMMA AgreesJson ==
  ASSUME NEW p, NEW paths
  PROVE  Agrees(p, UNION {Found(q, "text") : q \in paths}, UNION {Found(q, "text") : q \in paths})
<1> DEFINE f == [q \in paths |-> Found(q, "text")]
           U == UNION {Found(q, "text") : q \in paths}
<1>1. \A q \in paths : Agrees(p, f[q], f[q])
  BY AgreesFound
<1>2. Gathers(U, paths, f)
  BY DEF Gathers
<1> HIDE DEF f, U
<1>3. Agrees(p, U, U)
  BY <1>1, <1>2, AgreesGathers
<1> QED BY <1>3 DEF U

LEMMA NoWord == ASSUME NEW b, ~ IsDict(b), NEW k PROVE Word(b, k) = "" /\ Get(b, k) = Null
BY DEF Word, Get, Keys, IsString, Null

(* Claude, function by function.                                             *)
LEMMA ClaudeSystemBlockAgrees ==
  ASSUME NEW r \in Requests, NEW q, NEW b, Holds(r, q, b), IsIndex(Last(q))
  PROVE  Agrees(r.payload, C!ScrubSystemBlock(b, q), C!ParseSystemBlock(b, q))
<1>1. CASE ~ IsDict(b)
  <2>1. C!ScrubSystemBlock(b, q) = {} /\ C!ParseSystemBlock(b, q) = Found(q, "unknown")
    BY <1>1, NoWord, ClaudeSame DEF C!ScrubSystemBlock, C!ParseSystemBlock
  <2> QED BY <1>1, <2>1, AgreesFound DEF Holds
<1>2. CASE IsDict(b) /\ Word(b, "type") = "text"
  <2>1. C!ScrubSystemBlock(b, q) = ScanSpan(Get(b, "text"), Append(q, "text"))
        /\ C!ParseSystemBlock(b, q) = Found(Append(q, "text"), "text")
    BY <1>2, ClaudeSame DEF C!ScrubSystemBlock, C!ParseSystemBlock
  <2> QED BY <2>1, AgreesSpan
<1>3. CASE IsDict(b) /\ Word(b, "type") # "text"
  <2>1. C!ScrubSystemBlock(b, q) = Found(q, "unknown") /\ C!ParseSystemBlock(b, q) = Found(q, "unknown")
    BY <1>3, ClaudeSame DEF C!ScrubSystemBlock, C!ParseSystemBlock
  <2> QED BY <2>1, AgreesFound
<1> QED BY <1>1, <1>2, <1>3

LEMMA ClaudeSystemAgrees ==
  ASSUME NEW r \in Requests, NEW q, NEW v, Holds(r, q, v)
  PROVE  Agrees(r.payload, C!ScrubSystem(v, q), C!ParseSystem(v, q))
<1>1. CASE IsString(v)
  <2>1. C!ScrubSystem(v, q) = ScanSpan(v, q) /\ C!ParseSystem(v, q) = Found(q, "text")
    BY <1>1, FalsyIs, ClaudeSame DEF C!ScrubSystem, C!ParseSystem, C!EachItem
  <2> QED BY <2>1, AgreesSpan
<1>2. CASE IsList(v)
  <2> DEFINE D == DOMAIN v[2]
             f == [i \in D |-> C!ScrubSystemBlock(v[2][i], Append(q, Index(i)))]
             g == [i \in D |-> C!ParseSystemBlock(v[2][i], Append(q, Index(i)))]
  <2>1. Gathers(C!ScrubSystem(v, q), D, f) /\ Gathers(C!ParseSystem(v, q), D, g)
    BY <1>2, FalsyIs, ClaudeSame DEF C!ScrubSystem, C!ParseSystem, C!EachItem, Gathers
  <2>2. \A i \in D : Agrees(r.payload, f[i], g[i])
    BY <1>2, HoldsItem, ClaudeSystemBlockAgrees
  <2> HIDE DEF D, f, g
  <2> QED BY <2>1, <2>2, AgreesGathers
<1>3. CASE ~ IsString(v) /\ ~ IsList(v)
  <2>1. C!ScrubSystem(v, q) = Found(q, "unknown") /\ C!ParseSystem(v, q) = Found(q, "unknown")
    BY <1>3, ClaudeSame DEF C!ScrubSystem, C!ParseSystem, C!EachItem
  <2> QED BY <2>1, AgreesFound
<1> QED BY <1>1, <1>2, <1>3

LEMMA ClaudeNestedAgrees ==
  ASSUME NEW r \in Requests, NEW q, NEW b, Holds(r, q, b), IsIndex(Last(q))
  PROVE  Agrees(r.payload, C!ScrubToolResultBlock(b, q), C!ParseToolResultBlock(b, q))
<1> DEFINE S == C!ScrubToolResultBlock(b, q)
           F == C!ParseToolResultBlock(b, q)
           type == Word(b, "type")
<1>1. CASE ~ IsDict(b)
  <2>1. S = {} /\ F = Found(q, "unknown")
    BY <1>1, NoWord, ClaudeSame DEF C!ScrubToolResultBlock, C!ParseToolResultBlock
  <2> QED BY <1>1, <2>1, AgreesFound DEF Holds
<1>2. CASE IsDict(b) /\ type = "text"
  <2>1. S = ScanSpan(Get(b, "text"), Append(q, "text")) /\ F = Found(Append(q, "text"), "text")
    BY <1>2, ClaudeSame DEF C!ScrubToolResultBlock, C!ParseToolResultBlock
  <2> QED BY <2>1, AgreesSpan
<1>3. CASE IsDict(b) /\ type = "image"
  <2>1. S = Found(q, "unscannable") /\ F = Found(q, "unscannable")
    BY <1>3, ClaudeSame DEF C!ScrubToolResultBlock, C!ParseToolResultBlock
  <2> QED BY <2>1, AgreesFound
<1>4. CASE IsDict(b) /\ type \notin {"text", "image"}
  <2>1. S = Found(q, "unknown") /\ F = Found(q, "unknown")
    BY <1>4, ClaudeSame DEF C!ScrubToolResultBlock, C!ParseToolResultBlock
  <2> QED BY <2>1, AgreesFound
<1> QED BY <1>1, <1>2, <1>3, <1>4

LEMMA ClaudeToolResultAgrees ==
  ASSUME NEW r \in Requests, NEW q, NEW v, v # Null => Holds(r, q, v)
  PROVE  Agrees(r.payload, C!ScrubToolResultContent(v, q), C!ParseToolResultContent(v, q))
<1> DEFINE S == C!ScrubToolResultContent(v, q)
           F == C!ParseToolResultContent(v, q)
<1>0. ~ IsString(Null) /\ ~ IsList(Null)
  BY DEF IsString, IsList, Null
<1>1. CASE v = Null
  <2>1. S = {} /\ F = {}
    BY <1>0, <1>1, ClaudeSame DEF C!ScrubToolResultContent, C!ParseToolResultContent, C!EachItem
  <2> QED BY <2>1, AgreesNothing
<1>2. CASE IsString(v)
  <2>1. S = ScanSpan(v, q) /\ F = Found(q, "text")
    BY <1>0, <1>2, FalsyIs, ClaudeSame DEF C!ScrubToolResultContent, C!ParseToolResultContent, C!EachItem
  <2> QED BY <2>1, AgreesSpan
<1>3. CASE IsList(v)
  <2> DEFINE D == DOMAIN v[2]
             f == [i \in D |-> C!ScrubToolResultBlock(v[2][i], Append(q, Index(i)))]
             g == [i \in D |-> C!ParseToolResultBlock(v[2][i], Append(q, Index(i)))]
  <2>0. Holds(r, q, v)
    BY <1>0, <1>3
  <2>1. Gathers(S, D, f) /\ Gathers(F, D, g)
    BY <1>0, <1>3, FalsyIs, ClaudeSame DEF C!ScrubToolResultContent, C!ParseToolResultContent, C!EachItem, Gathers
  <2>2. \A i \in D : Agrees(r.payload, f[i], g[i])
    BY <2>0, <1>3, HoldsItem, ClaudeNestedAgrees
  <2> HIDE DEF D, f, g, S, F
  <2>3. Agrees(r.payload, S, F)
    BY <2>1, <2>2, AgreesGathers
  <2> QED BY <2>3 DEF S, F
<1>4. CASE v # Null /\ ~ IsString(v) /\ ~ IsList(v)
  <2>1. S = Found(q, "unknown") /\ F = Found(q, "unknown")
    BY <1>4, ClaudeSame DEF C!ScrubToolResultContent, C!ParseToolResultContent, C!EachItem
  <2> QED BY <2>1, AgreesFound
<1> QED BY <1>1, <1>2, <1>3, <1>4

LEMMA ClaudeSourceAgrees ==
  ASSUME NEW p, NEW q, NEW s
  PROVE  Agrees(p, C!ScrubDocumentSource(s, q), C!ParseDocumentSource(s, q))
<1> DEFINE S == C!ScrubDocumentSource(s, q)
           F == C!ParseDocumentSource(s, q)
           type == Word(s, "type")
<1>1. CASE type = "text"
  <2>1. S = ScanSpan(Get(s, "data"), Append(q, "data")) /\ F = Found(Append(q, "data"), "text")
    BY <1>1, ClaudeSame DEF C!ScrubDocumentSource, C!ParseDocumentSource
  <2> QED BY <2>1, AgreesSpan
<1>2. CASE type \in {"base64", "url"}
  <2>1. S = Found(q, "unscannable") /\ F = Found(q, "unscannable")
    BY <1>2, ClaudeSame DEF C!ScrubDocumentSource, C!ParseDocumentSource
  <2> QED BY <2>1, AgreesFound
<1>3. CASE type \notin {"text", "base64", "url"}
  <2>1. S = Found(q, "unknown") /\ F = Found(q, "unknown")
    BY <1>3, ClaudeSame DEF C!ScrubDocumentSource, C!ParseDocumentSource
  <2> QED BY <2>1, AgreesFound
<1> QED BY <1>1, <1>2, <1>3

LEMMA ClaudeBlockAgrees ==
  ASSUME NEW r \in Requests, NEW q, NEW b, Holds(r, q, b), IsIndex(Last(q))
  PROVE  Agrees(r.payload, C!ScrubBlock(b, q), C!ParseBlock(b, q))
<1> DEFINE S == C!ScrubBlock(b, q)
           F == C!ParseBlock(b, q)
           type == Word(b, "type")
           p == r.payload
<1>1. CASE ~ IsDict(b)
  <2>1. S = {} /\ F = Found(q, "unknown")
    BY <1>1, NoWord, ClaudeSame DEF C!ScrubBlock, C!ParseBlock
  <2>2. ~ IsDict(ValueAt(p, q))
    BY <1>1 DEF Holds
  <2> QED BY <2>1, <2>2, AgreesFound
<1>2. CASE IsDict(b) /\ type = "text"
  <2>1. S = ScanSpan(Get(b, "text"), Append(q, "text")) /\ F = Found(Append(q, "text"), "text")
    BY <1>2, ClaudeSame DEF C!ScrubBlock, C!ParseBlock
  <2> QED BY <2>1, AgreesSpan
<1>3. CASE IsDict(b) /\ type = "tool_use"
  <2> DEFINE paths == StringPaths(OrEmpty(Get(b, "input")), Append(q, "input"))
  <2>1. S = UNION {Found(x, "text") : x \in paths}
    BY <1>3, ClaudeSame, ClaudePaths DEF C!ScrubBlock, C!ScrubJsonObject
  <2>2. F = UNION {Found(x, "text") : x \in paths}
    BY <1>3, ClaudeSame, ClaudePaths DEF C!ParseBlock, C!ParseJsonObject
  <2> HIDE DEF S, F
  <2>3. Agrees(p, S, F)
    BY <2>1, <2>2, AgreesJson
  <2> QED BY <2>3 DEF S, F
<1>4. CASE IsDict(b) /\ type = "tool_result"
  <2> DEFINE v == Get(b, "content")
             here == Append(q, "content")
  <2>1. S = C!ScrubToolResultContent(v, here) /\ F = C!ParseToolResultContent(v, here)
    BY <1>4, ClaudeSame DEF C!ScrubBlock, C!ParseBlock
  <2>2. v # Null => Holds(r, here, v)
    BY HoldsKey DEF Get
  <2> HIDE DEF v, here
  <2> QED BY <2>1, <2>2, ClaudeToolResultAgrees
<1>5. CASE IsDict(b) /\ type = "document"
  <2>1. S = C!ScrubDocumentSource(Get(b, "source"), Append(q, "source"))
        /\ F = C!ParseDocumentSource(Get(b, "source"), Append(q, "source"))
    BY <1>5, ClaudeSame DEF C!ScrubBlock, C!ParseBlock
  <2> QED BY <2>1, ClaudeSourceAgrees
<1>6. CASE IsDict(b) /\ type = "image"
  <2>1. S = Found(q, "unscannable") /\ F = Found(q, "unscannable")
    BY <1>6, ClaudeSame DEF C!ScrubBlock, C!ParseBlock
  <2> QED BY <2>1, AgreesFound
<1>7. CASE IsDict(b) /\ type \notin {"text", "tool_use", "tool_result", "document", "image"}
  <2>1. S = Found(q, "unknown") /\ F = Found(q, "unknown")
    BY <1>7, ClaudeSame DEF C!ScrubBlock, C!ParseBlock
  <2> QED BY <2>1, AgreesFound
<1> QED BY <1>1, <1>2, <1>3, <1>4, <1>5, <1>6, <1>7

LEMMA ClaudeContentAgrees ==
  ASSUME NEW r \in Requests, NEW q, NEW v, Holds(r, q, v)
  PROVE  Agrees(r.payload, C!ScrubContent(v, q), C!ParseContent(v, q))
<1> DEFINE S == C!ScrubContent(v, q)
           F == C!ParseContent(v, q)
<1>1. CASE IsString(v)
  <2>1. S = ScanSpan(v, q) /\ F = Found(q, "text")
    BY <1>1, FalsyIs, ClaudeSame DEF C!ScrubContent, C!ParseContent, C!EachItem
  <2> QED BY <2>1, AgreesSpan
<1>2. CASE IsList(v)
  <2> DEFINE D == DOMAIN v[2]
             f == [i \in D |-> C!ScrubBlock(v[2][i], Append(q, Index(i)))]
             g == [i \in D |-> C!ParseBlock(v[2][i], Append(q, Index(i)))]
  <2>1. Gathers(S, D, f) /\ Gathers(F, D, g)
    BY <1>2, FalsyIs, ClaudeSame DEF C!ScrubContent, C!ParseContent, C!EachItem, Gathers
  <2>2. \A i \in D : Agrees(r.payload, f[i], g[i])
    BY <1>2, HoldsItem, ClaudeBlockAgrees
  <2> HIDE DEF D, f, g, S, F
  <2>3. Agrees(r.payload, S, F)
    BY <2>1, <2>2, AgreesGathers
  <2> QED BY <2>3 DEF S, F
<1>3. CASE ~ IsString(v) /\ ~ IsList(v)
  <2>1. S = Found(q, "unknown") /\ F = Found(q, "unknown")
    BY <1>3, ClaudeSame DEF C!ScrubContent, C!ParseContent, C!EachItem
  <2> QED BY <2>1, AgreesFound
<1> QED BY <1>1, <1>2, <1>3

LEMMA ClaudeMessageAgrees ==
  ASSUME NEW r \in Requests, NEW q, NEW m, Holds(r, q, m)
  PROVE  Agrees(r.payload, C!ScrubMessage(m, q), C!ParseMessage(m, q))
<1> DEFINE v == Get(m, "content")
           here == Append(q, "content")
<1>1. CASE v = Null
  <2>1. C!ScrubMessage(m, q) = {} /\ C!ParseMessage(m, q) = {}
    BY <1>1, ClaudeSame DEF C!ScrubMessage, C!ParseMessage
  <2> QED BY <2>1, AgreesNothing
<1>2. CASE v # Null
  <2>1. C!ScrubMessage(m, q) = C!ScrubContent(v, here) /\ C!ParseMessage(m, q) = C!ParseContent(v, here)
    BY <1>2, ClaudeSame DEF C!ScrubMessage, C!ParseMessage
  <2>2. Holds(r, here, v)
    BY <1>2, HoldsKey DEF Get
  <2> HIDE DEF v, here
  <2> QED BY <2>1, <2>2, ClaudeContentAgrees
<1> QED BY <1>1, <1>2

LEMMA ClaudeAgrees ==
  ASSUME NEW r \in Requests
  PROVE  Agrees(r.payload, C!Scrub(r.payload), C!Parse(r.payload))
<1> DEFINE p == r.payload
           s == Get(p, "system")
           m == Get(p, "messages")
           S == IF "system" \in Keys(p) THEN C!ScrubSystem(s, <<"system">>) ELSE {}
           F == IF "system" \in Keys(p) THEN C!ParseSystem(s, <<"system">>) ELSE {}
           T == C!EachOf(p, "messages", C!ScrubMessage)
           H == C!EachOf(p, "messages", C!ParseMessage)
<1>1. C!Scrub(p) = S \cup T /\ C!Parse(p) = F \cup H
  BY ClaudeSame DEF C!Scrub, C!Parse, C!EachOf, C!EachItem
<1>2. \A k \in Keys(p) : Holds(r, <<k>>, Get(p, k))
  <2>1. \A k : Append(<<>>, k) = <<k>>
    OBVIOUS
  <2> QED BY <2>1, HoldsRoot, HoldsKey
<1>3. Agrees(p, S, F)
  BY <1>2, AgreesNothing, ClaudeSystemAgrees
<1>4. Agrees(p, T, H)
  <2>1. CASE ~ IsList(m)
    <3>1. T = {} /\ H = {}
      BY <2>1, ClaudeSame DEF C!EachOf, C!EachItem
    <3> QED BY <3>1, AgreesNothing
  <2>2. CASE IsList(m)
    <3> DEFINE D == DOMAIN m[2]
               q == <<"messages">>
               f == [i \in D |-> C!ScrubMessage(m[2][i], Append(q, Index(i)))]
               g == [i \in D |-> C!ParseMessage(m[2][i], Append(q, Index(i)))]
    <3>1. Gathers(T, D, f) /\ Gathers(H, D, g)
      BY <2>2, ClaudeSame DEF C!EachOf, C!EachItem, Gathers
    <3>2. Holds(r, q, m)
      <4>1. "messages" \in Keys(p)
        BY <2>2 DEF Get, Null, IsList
      <4> QED BY <4>1, <1>2
    <3>3. \A i \in D : Agrees(p, f[i], g[i])
      <4> HIDE DEF q
      <4> QED BY <2>2, <3>2, HoldsItem, ClaudeMessageAgrees
    <3> HIDE DEF D, f, g, T, H
    <3>4. Agrees(p, T, H)
      BY <3>1, <3>3, AgreesGathers
    <3> QED BY <3>4 DEF T, H
  <2> QED BY <2>1, <2>2
<1> HIDE DEF S, F, T, H
<1> QED BY <1>1, <1>3, <1>4, AgreesBoth

(* OpenAI, function by function.                                             *)
LEMMA OpenAIPartAgrees ==
  ASSUME NEW r \in Requests, NEW q, NEW b, Holds(r, q, b), IsIndex(Last(q))
  PROVE  Agrees(r.payload, O!ScrubPart(b, q), O!ParsePart(b, q))
<1> DEFINE S == O!ScrubPart(b, q)
           F == O!ParsePart(b, q)
           type == Word(b, "type")
<1>1. CASE ~ IsDict(b)
  <2>1. S = {} /\ F = Found(q, "unknown")
    BY <1>1, NoWord, OpenAISame DEF O!ScrubPart, O!ParsePart
  <2>2. ~ IsDict(ValueAt(r.payload, q))
    BY <1>1 DEF Holds
  <2> QED BY <2>1, <2>2, AgreesFound
<1>2. CASE IsDict(b) /\ type \in {"text", "refusal"}
  <2>1. S = ScanSpan(Get(b, type), Append(q, type)) /\ F = Found(Append(q, type), "text")
    BY <1>2, OpenAISame DEF O!ScrubPart, O!ParsePart
  <2> QED BY <2>1, AgreesSpan
<1>3. CASE IsDict(b) /\ type \in {"image_url", "input_audio", "file"}
  <2>1. S = Found(q, "unscannable") /\ F = Found(q, "unscannable")
    BY <1>3, OpenAISame DEF O!ScrubPart, O!ParsePart
  <2> QED BY <2>1, AgreesFound
<1>4. CASE IsDict(b) /\ type \notin {"text", "refusal", "image_url", "input_audio", "file"}
  <2>1. S = Found(q, "unknown") /\ F = Found(q, "unknown")
    BY <1>4, OpenAISame DEF O!ScrubPart, O!ParsePart
  <2> QED BY <2>1, AgreesFound
<1> QED BY <1>1, <1>2, <1>3, <1>4

LEMMA OpenAIContentAgrees ==
  ASSUME NEW r \in Requests, NEW q, NEW v, v # Null => Holds(r, q, v)
  PROVE  Agrees(r.payload, O!ScrubContent(v, q), O!ParseContent(v, q))
<1> DEFINE S == O!ScrubContent(v, q)
           F == O!ParseContent(v, q)
<1>0. ~ IsString(Null) /\ ~ IsList(Null)
  BY DEF IsString, IsList, Null
<1>1. CASE v = Null
  <2>1. S = {} /\ F = {}
    BY <1>0, <1>1, OpenAISame DEF O!ScrubContent, O!ParseContent, O!EachItem
  <2> QED BY <2>1, AgreesNothing
<1>2. CASE IsString(v)
  <2>1. S = ScanSpan(v, q) /\ F = Found(q, "text")
    BY <1>0, <1>2, FalsyIs, OpenAISame DEF O!ScrubContent, O!ParseContent, O!EachItem
  <2> QED BY <2>1, AgreesSpan
<1>3. CASE IsList(v)
  <2> DEFINE D == DOMAIN v[2]
             f == [i \in D |-> O!ScrubPart(v[2][i], Append(q, Index(i)))]
             g == [i \in D |-> O!ParsePart(v[2][i], Append(q, Index(i)))]
  <2>0. Holds(r, q, v)
    BY <1>0, <1>3
  <2>1. Gathers(S, D, f) /\ Gathers(F, D, g)
    BY <1>0, <1>3, FalsyIs, OpenAISame DEF O!ScrubContent, O!ParseContent, O!EachItem, Gathers
  <2>2. \A i \in D : Agrees(r.payload, f[i], g[i])
    BY <2>0, <1>3, HoldsItem, OpenAIPartAgrees
  <2> HIDE DEF D, f, g, S, F
  <2>3. Agrees(r.payload, S, F)
    BY <2>1, <2>2, AgreesGathers
  <2> QED BY <2>3 DEF S, F
<1>4. CASE v # Null /\ ~ IsString(v) /\ ~ IsList(v)
  <2>1. S = Found(q, "unknown") /\ F = Found(q, "unknown")
    BY <1>4, OpenAISame DEF O!ScrubContent, O!ParseContent, O!EachItem
  <2> QED BY <2>1, AgreesFound
<1> QED BY <1>1, <1>2, <1>3, <1>4

LEMMA OpenAIArgumentsAgrees ==
  ASSUME NEW p, NEW q, NEW v
  PROVE  Agrees(p, O!ScrubArguments(v, q), O!ParseArguments(v, q))
<1> DEFINE S == O!ScrubArguments(v, q)
           F == O!ParseArguments(v, q)
<1>0. ~ IsString(Null) /\ ~ IsEncoded(Null)
  BY DEF IsString, IsEncoded, Null
<1>1. CASE v = Null
  <2>1. S = {} /\ F = {}
    BY <1>0, <1>1, OpenAISame DEF O!ScrubArguments, O!ParseArguments
  <2> QED BY <2>1, AgreesNothing
<1>2. CASE IsString(v)
  <2>1. S = ScanSpan(v, q) /\ F = Found(q, "text")
    BY <1>0, <1>2, FalsyIs, OpenAISame DEF O!ScrubArguments, O!ParseArguments
  <2> QED BY <2>1, AgreesSpan
<1>3. CASE IsEncoded(v)
  <2> DEFINE paths == StringPaths(v[2], q)
  <2>1. S = UNION {Found(x, "text") : x \in paths}
    BY <1>0, <1>3, FalsyIs, OpenAISame, OpenAIPaths DEF O!ScrubArguments, O!ScrubJsonObject
  <2>2. F = UNION {Found(x, "text") : x \in paths}
    BY <1>0, <1>3, FalsyIs, OpenAISame, OpenAIPaths DEF O!ParseArguments, O!ParseJsonObject
  <2> HIDE DEF S, F
  <2>3. Agrees(p, S, F)
    BY <2>1, <2>2, AgreesJson
  <2> QED BY <2>3 DEF S, F
<1>4. CASE v # Null /\ ~ IsString(v) /\ ~ IsEncoded(v)
  <2>1. S = Found(q, "noted") /\ F = Found(q, "unknown")
    BY <1>4, OpenAISame DEF O!ScrubArguments, O!ParseArguments
  <2> QED BY <2>1, AgreesFound
<1> QED BY <1>1, <1>2, <1>3, <1>4

LEMMA OpenAIMessageAgrees ==
  ASSUME NEW r \in Requests, NEW q, NEW m, Holds(r, q, m)
  PROVE  Agrees(r.payload, O!ScrubMessage(m, q), O!ParseMessage(m, q))
<1> DEFINE v == Get(m, "content")
           here == Append(q, "content")
           calls == Get(m, "tool_calls")
           there == Append(q, "tool_calls")
           read == Word(m, "role") = "assistant" /\ IsList(calls)
           T == IF read THEN O!EachItem(calls, there, O!ScrubToolCall) ELSE {}
           H == IF read THEN O!EachItem(calls, there, O!ParseToolCall) ELSE {}
<1>1. O!ScrubMessage(m, q) = O!ScrubContent(v, here) \cup T /\ O!ParseMessage(m, q) = O!ParseContent(v, here) \cup H
  BY OpenAISame DEF O!ScrubMessage, O!ParseMessage, O!EachItem
<1>2. Agrees(r.payload, O!ScrubContent(v, here), O!ParseContent(v, here))
  <2>1. v # Null => Holds(r, here, v)
    BY HoldsKey DEF Get
  <2> HIDE DEF v, here
  <2> QED BY <2>1, OpenAIContentAgrees
<1>3. Agrees(r.payload, T, H)
  <2>1. CASE ~ read
    <3>1. T = {} /\ H = {}
      BY <2>1 DEF O!EachItem
    <3> QED BY <3>1, AgreesNothing
  <2>2. CASE read
    <3> DEFINE D == DOMAIN calls[2]
               f == [i \in D |-> O!ScrubToolCall(calls[2][i], Append(there, Index(i)))]
               g == [i \in D |-> O!ParseToolCall(calls[2][i], Append(there, Index(i)))]
    <3>1. Gathers(T, D, f) /\ Gathers(H, D, g)
      BY <2>2, OpenAISame DEF O!EachItem, Gathers
    <3>2. \A i \in D : Agrees(r.payload, f[i], g[i])
      BY OpenAIArgumentsAgrees DEF O!ScrubToolCall, O!ParseToolCall
    <3> HIDE DEF D, f, g, T, H
    <3>3. Agrees(r.payload, T, H)
      BY <3>1, <3>2, AgreesGathers
    <3> QED BY <3>3 DEF T, H
  <2> QED BY <2>1, <2>2
<1> HIDE DEF v, here, T, H
<1> QED BY <1>1, <1>2, <1>3, AgreesBoth

LEMMA OpenAIAgrees ==
  ASSUME NEW r \in Requests
  PROVE  Agrees(r.payload, O!Scrub(r.payload), O!Parse(r.payload))
<1> DEFINE p == r.payload
           m == Get(p, "messages")
           T == O!Scrub(p)
           H == O!Parse(p)
<1>1. CASE ~ IsList(m)
  <2>1. T = {} /\ H = {}
    BY <1>1, OpenAISame DEF O!Scrub, O!Parse, O!EachOf, O!EachItem
  <2> QED BY <2>1, AgreesNothing
<1>2. CASE IsList(m)
  <2> DEFINE D == DOMAIN m[2]
             q == <<"messages">>
             f == [i \in D |-> O!ScrubMessage(m[2][i], Append(q, Index(i)))]
             g == [i \in D |-> O!ParseMessage(m[2][i], Append(q, Index(i)))]
  <2>1. Gathers(T, D, f) /\ Gathers(H, D, g)
    BY <1>2, OpenAISame DEF O!Scrub, O!Parse, O!EachOf, O!EachItem, Gathers
  <2>2. Holds(r, q, m)
    <3>1. "messages" \in Keys(p)
      BY <1>2 DEF Get, Null, IsList
    <3>2. Append(<<>>, "messages") = q
      OBVIOUS
    <3> QED BY <3>1, <3>2, HoldsRoot, HoldsKey
  <2>3. \A i \in D : Agrees(p, f[i], g[i])
    <3> HIDE DEF q
    <3> QED BY <1>2, <2>2, HoldsItem, OpenAIMessageAgrees
  <2> HIDE DEF D, f, g, T, H
  <2>4. Agrees(p, T, H)
    BY <2>1, <2>3, AgreesGathers
  <2> QED BY <2>4 DEF T, H
<1> QED BY <1>1, <1>2

(* Gemini, function by function.                                             *)
LEMMA GeminiPartAgrees ==
  ASSUME NEW p, NEW q, NEW b
  PROVE  Agrees(p, G!ScrubPart(b, q), G!ParsePart(b, q))
<1> DEFINE S == G!ScrubPart(b, q)
           F == G!ParsePart(b, q)
           kind  == G!KindOf(b)
           key   == G!KeyOf(b, kind)
           value == Get(b, key)
           here  == Append(q, key)
           in    == G!Inside[kind]
<1>1. kind \in {"", "text", "functionCall", "functionResponse", "executableCode",
                "codeExecutionResult", "inlineData", "fileData"}
  BY GeminiKinds
<1>2. CASE ~ IsDict(b)
  <2>1. \A k : G!KeyOf(b, k) = ""
    BY <1>2, GeminiSame DEF G!KeyOf, Keys
  <2>2. kind = ""
    BY <2>1 DEF G!KindOf, G!Has
  <2>3. S = {} /\ F = {}
    BY <1>2, <2>2, GeminiSame, GeminiInside DEF G!ScrubPart, G!ParsePart
  <2> QED BY <2>3, AgreesNothing
<1>3. CASE IsDict(b) /\ kind = "text"
  <2>1. S = ScanSpan(value, here) /\ F = Found(here, "text")
    BY <1>3, GeminiSame, GeminiInside DEF G!ScrubPart, G!ParsePart
  <2> QED BY <2>1, AgreesSpan
<1>4. CASE IsDict(b) /\ kind \in {"functionCall", "functionResponse"} /\ IsDict(value)
  <2> DEFINE paths == StringPaths(OrEmpty(Get(value, in)), Append(here, in))
  <2>1. S = UNION {Found(x, "text") : x \in paths}
    BY <1>4, GeminiSame, GeminiPaths, GeminiInside DEF G!ScrubPart, G!ScrubJsonObject
  <2>2. F = UNION {Found(x, "text") : x \in paths}
    BY <1>4, GeminiSame, GeminiPaths, GeminiInside DEF G!ParsePart, G!ParseJsonObject
  <2> HIDE DEF S, F, paths
  <2>3. Agrees(p, S, F)
    BY <2>1, <2>2, AgreesJson
  <2> QED BY <2>3 DEF S, F
<1>5. CASE IsDict(b) /\ kind \in {"executableCode", "codeExecutionResult"} /\ IsDict(value)
  <2>1. S = ScanSpan(Get(value, in), Append(here, in)) /\ F = Found(Append(here, in), "text")
    BY <1>5, GeminiSame, GeminiInside DEF G!ScrubPart, G!ParsePart
  <2> QED BY <2>1, AgreesSpan
<1>6. CASE IsDict(b) /\ kind \in DOMAIN G!Inside /\ ~ IsDict(value)
  <2>1. S = Found(here, "unknown") /\ F = Found(here, "unknown")
    BY <1>6, GeminiSame, GeminiInside DEF G!ScrubPart, G!ParsePart
  <2> QED BY <2>1, AgreesFound
<1>7. CASE IsDict(b) /\ kind \in {"inlineData", "fileData"}
  <2>1. S = Found(here, "unscannable") /\ F = Found(here, "unscannable")
    BY <1>7, GeminiSame, GeminiInside DEF G!ScrubPart, G!ParsePart
  <2> QED BY <2>1, AgreesFound
<1>8. CASE IsDict(b) /\ kind = ""
  <2>1. S = Found(q, "unknown") /\ F = Found(q, "unknown")
    BY <1>8, GeminiSame, GeminiInside DEF G!ScrubPart, G!ParsePart
  <2> QED BY <2>1, AgreesFound
<1> QED BY <1>1, <1>2, <1>3, <1>4, <1>5, <1>6, <1>7, <1>8, GeminiInside

LEMMA GeminiPartsAgrees ==
  ASSUME NEW p, NEW q, NEW v
  PROVE  Agrees(p, G!ScrubParts(v, q), G!ParseParts(v, q))
<1> DEFINE S == G!ScrubParts(v, q)
           F == G!ParseParts(v, q)
<1>1. CASE ~ IsList(v)
  <2>1. S = {} /\ F = {}
    BY <1>1, GeminiSame DEF G!ScrubParts, G!ParseParts, G!EachItem
  <2> QED BY <2>1, AgreesNothing
<1>2. CASE IsList(v)
  <2> DEFINE D == DOMAIN v[2]
             f == [i \in D |-> G!ScrubPart(v[2][i], Append(q, Index(i)))]
             g == [i \in D |-> G!ParsePart(v[2][i], Append(q, Index(i)))]
  <2>1. Gathers(S, D, f) /\ Gathers(F, D, g)
    BY <1>2, GeminiSame DEF G!ScrubParts, G!ParseParts, G!EachItem, Gathers
  <2>2. \A i \in D : Agrees(p, f[i], g[i])
    BY GeminiPartAgrees
  <2> HIDE DEF D, f, g, S, F
  <2>3. Agrees(p, S, F)
    BY <2>1, <2>2, AgreesGathers
  <2> QED BY <2>3 DEF S, F
<1> QED BY <1>1, <1>2

LEMMA GeminiInstructionAgrees ==
  ASSUME NEW p, NEW q, NEW v
  PROVE  Agrees(p, G!ScrubSystemInstruction(v, q), G!ParseSystemInstruction(v, q))
<1> DEFINE S == G!ScrubSystemInstruction(v, q)
           F == G!ParseSystemInstruction(v, q)
<1>1. CASE IsString(v)
  <2>1. S = ScanSpan(v, q) /\ F = Found(q, "text")
    BY <1>1, GeminiSame, FalsyIs DEF G!ScrubSystemInstruction, G!ParseSystemInstruction, G!Get, G!Keys, Null, IsList
  <2> QED BY <2>1, AgreesSpan
<1>2. CASE ~ IsString(v) /\ IsList(Get(v, "parts"))
  <2>1. S = G!ScrubParts(Get(v, "parts"), Append(q, "parts")) /\ F = G!ParseParts(Get(v, "parts"), Append(q, "parts"))
    BY <1>2, GeminiSame DEF G!ScrubSystemInstruction, G!ParseSystemInstruction
  <2> QED BY <2>1, GeminiPartsAgrees
<1>3. CASE ~ IsString(v) /\ ~ IsList(Get(v, "parts"))
  <2>1. S = Found(q, "unknown") /\ F = Found(q, "unknown")
    BY <1>3, GeminiSame DEF G!ScrubSystemInstruction, G!ParseSystemInstruction
  <2> QED BY <2>1, AgreesFound
<1> QED BY <1>1, <1>2, <1>3

LEMMA GeminiAgrees ==
  ASSUME NEW p
  PROVE  Agrees(p, G!Scrub(p), G!Parse(p))
<1> DEFINE key == G!InstructionKey(p)
           m == Get(p, "contents")
           S == IF key # "" THEN G!ScrubSystemInstruction(Get(p, key), <<key>>) ELSE {}
           F == IF key # "" THEN G!ParseSystemInstruction(Get(p, key), <<key>>) ELSE {}
           T == G!EachOf(p, "contents", G!ScrubContentItem)
           H == G!EachOf(p, "contents", G!ParseContentItem)
<1>1. G!Scrub(p) = S \cup T /\ G!Parse(p) = F \cup H
  BY GeminiSame DEF G!Scrub, G!Parse, G!EachOf, G!EachItem
<1>2. Agrees(p, S, F)
  BY AgreesNothing, GeminiInstructionAgrees
<1>3. Agrees(p, T, H)
  <2>1. CASE ~ IsList(m)
    <3>1. T = {} /\ H = {}
      BY <2>1, GeminiSame DEF G!EachOf, G!EachItem
    <3> QED BY <3>1, AgreesNothing
  <2>2. CASE IsList(m)
    <3> DEFINE D == DOMAIN m[2]
               q == <<"contents">>
               f == [i \in D |-> G!ScrubContentItem(m[2][i], Append(q, Index(i)))]
               g == [i \in D |-> G!ParseContentItem(m[2][i], Append(q, Index(i)))]
    <3>1. Gathers(T, D, f) /\ Gathers(H, D, g)
      BY <2>2, GeminiSame DEF G!EachOf, G!EachItem, Gathers
    <3>2. \A i \in D : Agrees(p, f[i], g[i])
      BY GeminiPartsAgrees DEF G!ScrubContentItem, G!ParseContentItem
    <3> HIDE DEF D, f, g, T, H
    <3>3. Agrees(p, T, H)
      BY <3>1, <3>2, AgreesGathers
    <3> QED BY <3>3 DEF T, H
  <2> QED BY <2>1, <2>2
<1> HIDE DEF S, F, T, H
<1> QED BY <1>1, <1>2, <1>3, AgreesBoth

-----------------------------------------------------------------------------
(* At every step the results are those of the four walks over the request,   *)
(* and the alarms refuse exactly when there is a difference and it says so.  *)
CoverageInv ==
    /\ request \in Requests /\ unknownFieldAction \in FieldActions /\ unscannableAction \in FieldActions
    /\ step \in {"arrived", "diffed", "alarmed", "parsed", "scrubbed"}
    /\ step # "arrived" =>
           /\ fieldDeltas = Of(C!Diff(request.payload), O!Diff(request.payload), G!Diff(request.payload))
           /\ versionDelta = DiffApiVersion(request.version)
    /\ step \in {"alarmed", "parsed", "scrubbed"} =>
           refused = (unknownFieldAction = "block" /\ (fieldDeltas # {} \/ versionDelta # {}))
    /\ step \in {"parsed", "scrubbed"} =>
           fieldMap = Of(C!Parse(request.payload), O!Parse(request.payload), G!Parse(request.payload))
    /\ step = "scrubbed" =>
           scrubbed = Of(C!Scrub(request.payload), O!Scrub(request.payload), G!Scrub(request.payload))

(* The walks of schema_coverage.py, the parsers and the scrubbers see one    *)
(* and the same request (providers/, coverage.py).                           *)
THEOREM CoverageInvariance == CoverageSpec => []CoverageInv
<1>1. CoverageInit => CoverageInv
  BY DEF CoverageInit, CoverageInv
<1>2. CoverageInv /\ [CoverageNext]_coverageVars => CoverageInv'
  <2> SUFFICES ASSUME CoverageInv, [CoverageNext]_coverageVars PROVE CoverageInv'
    OBVIOUS
  <2>1. CASE DiffRequest
    <3>1. versionDelta' = DiffApiVersion(request.version) /\ request' = request
      BY <2>1 DEF DiffRequest, given
    <3>2. DiffApiVersion(request.version)' = DiffApiVersion(request.version)
      BY <3>1 DEF DiffApiVersion, KnownVersions, IsFuture, Of
    <3> QED BY <2>1, <3>1, <3>2 DEF DiffRequest, given, CoverageInv, Of
  <2>2. ASSUME request' = request, versionDelta' = versionDelta, step # "arrived"
        PROVE  (versionDelta = DiffApiVersion(request.version))'
    BY <2>2 DEF CoverageInv, DiffApiVersion, KnownVersions, IsFuture, Of
  <2>3. CASE AlarmPolicy
    <3>1. alarms' # {} <=> fieldDeltas # {} \/ versionDelta # {}
      BY <2>3 DEF AlarmPolicy
    <3>2. step = "diffed" /\ step' = "alarmed" /\ given' = given /\ fieldDeltas' = fieldDeltas
          /\ versionDelta' = versionDelta /\ refused' = (unknownFieldAction = "block" /\ alarms' # {})
      BY <2>3 DEF AlarmPolicy
    <3>3. request' = request /\ unknownFieldAction' = unknownFieldAction /\ unscannableAction' = unscannableAction
      BY <3>2 DEF given
    <3>4. fieldDeltas' = Of(C!Diff(request.payload), O!Diff(request.payload), G!Diff(request.payload))'
      BY <3>2, <3>3 DEF CoverageInv, Of
    <3>5. refused' = (unknownFieldAction' = "block" /\ (fieldDeltas' # {} \/ versionDelta' # {}))
      BY <3>1, <3>2, <3>3
    <3> QED BY <2>2, <3>2, <3>3, <3>4, <3>5 DEF CoverageInv
  <2>4. CASE ParseRequest
    <3>1. step = "alarmed" /\ step' = "parsed" /\ request' = request /\ unknownFieldAction' = unknownFieldAction
          /\ unscannableAction' = unscannableAction /\ UNCHANGED <<fieldDeltas, versionDelta, refused>>
          /\ fieldMap' = Of(C!Parse(request.payload), O!Parse(request.payload), G!Parse(request.payload))
      BY <2>4 DEF ParseRequest, given
    <3> QED BY <2>2, <3>1 DEF CoverageInv, Of
  <2>5. CASE ScrubRequest
    <3>1. step = "parsed" /\ step' = "scrubbed" /\ request' = request /\ unknownFieldAction' = unknownFieldAction
          /\ unscannableAction' = unscannableAction /\ UNCHANGED <<fieldDeltas, versionDelta, refused, fieldMap>>
          /\ scrubbed' = Of(C!Scrub(request.payload), O!Scrub(request.payload), G!Scrub(request.payload))
      BY <2>5 DEF ScrubRequest, given
    <3> QED BY <2>2, <3>1 DEF CoverageInv, Of
  <2>6. CASE UNCHANGED coverageVars
    <3>1. UNCHANGED <<step, request, unknownFieldAction, unscannableAction, fieldDeltas, versionDelta, refused,
                      fieldMap, scrubbed>>
      BY <2>6 DEF coverageVars, given
    <3> QED BY <2>2, <3>1 DEF CoverageInv, Of
  <2> QED BY <2>1, <2>3, <2>4, <2>5, <2>6 DEF CoverageNext
<1> QED BY <1>1, <1>2, PTL DEF CoverageSpec

(* Whatever the request, the parser's map and the scrubber's walk, which are *)
(* separate code in providers/, agree on what is to be scanned.              *)
THEOREM ScrubberFollowsTheMap == CoverageSpec => []ScrubberFollowsMap
<1>1. CoverageInv => ScrubberFollowsMap
  <2> SUFFICES ASSUME CoverageInv, step = "scrubbed" PROVE Agrees(request.payload, scrubbed, fieldMap)
    BY DEF ScrubberFollowsMap, Agrees, Alike
  <2> DEFINE p == request.payload
  <2>1. request \in Requests /\ request.provider \in {"claude", "openai", "gemini"}
        /\ fieldMap = Of(C!Parse(p), O!Parse(p), G!Parse(p)) /\ scrubbed = Of(C!Scrub(p), O!Scrub(p), G!Scrub(p))
    BY CoverageAssumption DEF CoverageInv
  <2>2. Agrees(p, C!Scrub(p), C!Parse(p)) /\ Agrees(p, O!Scrub(p), O!Parse(p)) /\ Agrees(p, G!Scrub(p), G!Parse(p))
    BY <2>1, ClaudeAgrees, OpenAIAgrees, GeminiAgrees
  <2> HIDE DEF p
  <2>3. Agrees(p, scrubbed, fieldMap)
    BY <2>1, <2>2 DEF Of
  <2> QED BY <2>3 DEF p
<1> QED BY <1>1, CoverageInvariance, PTL

(* Whatever the request, what the strictest settings let through unscanned   *)
(* sits where the Unread of its provider says.                               *)
THEOREM StrictLetsNoOtherThrough == CoverageSpec => []StrictLetsThroughOnly
<1>1. CoverageInv => StrictLetsThroughOnly
  <2> SUFFICES ASSUME CoverageInv, step = "scrubbed", ~ refused, ~ ScrubberRefuses,
                      unknownFieldAction = "block", unscannableAction = "block"
               PROVE  /\ request.version = NoVersion \/ request.version.name \in KnownVersions
                      /\ \A at \in TextPaths(request.payload) \ Places(scrubbed, {"text"}) :
                            Of(C!Unread(request.payload, at), O!Unread(request.payload, at),
                               G!Unread(request.payload, at))
    BY DEF StrictLetsThroughOnly
  <2> DEFINE p == request.payload
  <2>1. request \in Requests /\ request.provider \in {"claude", "openai", "gemini"}
        /\ fieldDeltas = Of(C!Diff(p), O!Diff(p), G!Diff(p)) /\ scrubbed = Of(C!Scrub(p), O!Scrub(p), G!Scrub(p))
        /\ versionDelta = DiffApiVersion(request.version) /\ fieldDeltas = {} /\ versionDelta = {}
    BY CoverageAssumption DEF CoverageInv
  <2>2. request.version = NoVersion \/ request.version.name \in KnownVersions
    BY <2>1 DEF DiffApiVersion
  <2>3. ASSUME NEW at \in TextPaths(p), at \notin Places(scrubbed, {"text"})
        PROVE  Of(C!Unread(p, at), O!Unread(p, at), G!Unread(p, at))
    <3>1. Clean(scrubbed, at)
      <4>1. Places(scrubbed, {"error"}) = {} /\ Places(scrubbed, {"unknown"}) = {} /\ Places(scrubbed, {"unscannable"}) = {}
        BY DEF ScrubberRefuses
      <4>2. Places(scrubbed, {"error", "unknown", "unscannable"}) = {}
        BY <4>1 DEF Places
      <4> QED BY <2>3, <4>2 DEF Clean
    <3>2. CASE request.provider = "claude"
      <4>1. Clean(C!Scrub(p), at) /\ C!Diff(p) = {}
        BY <2>1, <3>1, <3>2 DEF Of
      <4> QED BY <2>1, <2>3, <3>2, <4>1, ClaudeStrict DEF Of
    <3>3. CASE request.provider = "openai"
      <4>1. Clean(O!Scrub(p), at) /\ O!Diff(p) = {}
        BY <2>1, <3>1, <3>3 DEF Of
      <4> QED BY <2>1, <2>3, <3>3, <4>1, OpenAIStrict DEF Of
    <3>4. CASE request.provider = "gemini"
      <4>1. Clean(G!Scrub(p), at) /\ G!Diff(p) = {}
        BY <2>1, <3>1, <3>4 DEF Of
      <4> QED BY <2>1, <2>3, <3>4, <4>1, GeminiStrict DEF Of
    <3> QED BY <2>1, <3>2, <3>3, <3>4
  <2> QED BY <2>2, <2>3
<1> QED BY <1>1, CoverageInvariance, PTL
=============================================================================
