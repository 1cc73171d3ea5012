------------------------------ MODULE JsonValues ------------------------------
(***************************************************************************)
(* Parsed JSON as the request modules of providers/ walk it: objects,      *)
(* arrays, strings and null, with the path of each value.  The only string *)
(* whose content matters is Text, which stands for what a user wrote; the  *)
(* others are types, roles and names.                                      *)
(***************************************************************************)
EXTENDS Naturals, SequencesExt

CONSTANTS
    Positions,      \* path elements for the positions of an array, in their order
    Anywhere,       \* in a pattern, any of them
    Depth           \* how deep values are nested at most: json.loads has a limit

ASSUME JsonAssumption ==
    /\ Depth \in Nat
    /\ Positions \in Seq(ToSet(Positions)) /\ IsInjective(Positions)
    /\ Anywhere \notin STRING /\ \A s \in ToSet(Positions) : s \notin STRING

String(s) == <<"str", s>>
Dict(f) == <<"dict", f>>            \* f: a function on the keys, which are strings
List(s) == <<"list", s>>
Null == <<"null">>
Zero == <<"zero">>                  \* 0 or false
Number == <<"number">>              \* any other number, or true
Encoded(v) == <<"json", v>>         \* a string that json.loads turns into v
Text == String("text of the user")

IsString(v) == v[1] = "str"
IsDict(v) == v[1] = "dict"
IsList(v) == v[1] = "list"
IsEncoded(v) == v[1] = "json"

Keys(v) == IF IsDict(v) THEN DOMAIN v[2] ELSE {}
Get(v, k) == IF k \in Keys(v) THEN v[2][k] ELSE Null
(* v.get(k, ""), where the code compares the result with strings. *)
Word(v, k) == IF IsString(Get(v, k)) THEN Get(v, k)[2] ELSE ""
Falsy(v) ==
    \/ v \in {Null, Zero, String("")}
    \/ IsDict(v) /\ Keys(v) = {}
    \/ IsList(v) /\ v[2] = <<>>
(* v or {} *)
OrEmpty(v) == IF Falsy(v) THEN Dict(<<>>) ELSE v

Index(i) == Positions[i]
IsIndex(s) == s \in ToSet(Positions)
IndexOf(s) == CHOOSE i \in DOMAIN Positions : Index(i) = s
EachItem(v, at, Walk(_, _)) ==
    UNION {Walk(v[2][i], Append(at, Index(i))) : i \in DOMAIN v[2]}

ValueAt(v, at) ==
    LET along[n \in 0..Len(at)] ==
            CASE n = 0 -> v
              [] n > 0 /\ IsList(along[n - 1]) -> along[n - 1][2][IndexOf(at[n])]
              [] OTHER -> Get(along[n - 1], at[n])
    IN  along[Len(at)]

(* A node is the path of a value and the value. *)
Children(node) ==
    LET at == node[1]
        v  == node[2]
    IN  CASE IsDict(v) -> {<<Append(at, k), v[2][k]>> : k \in Keys(v)}
          [] IsList(v) -> {<<Append(at, Index(i)), v[2][i]>> : i \in DOMAIN v[2]}
          [] IsEncoded(v) -> {<<at, v[2]>>}
          [] OTHER -> {}
Below(nodes) == UNION {Children(node) : node \in nodes}
Levels(v, at) ==
    LET level[n \in 0..Depth] == IF n = 0 THEN {<<at, v>>} ELSE Below(level[n - 1]) IN level
Nodes(v, at) == UNION {Levels(v, at)[n] : n \in 0..Depth}
Leaves(v, at) == {x \in Nodes(v, at) : IsString(x[2])}

StringPaths(v, at) == {l[1] : l \in Leaves(v, at)}
TextPaths(v) == {l[1] : l \in {m \in Leaves(v, <<>>) : m[2] = Text}}

(* The pattern of a path, as messages[*].content[*] is that of all blocks.   *)
Pattern(at) == [i \in DOMAIN at |-> IF IsIndex(at[i]) THEN Anywhere ELSE at[i]]

(* Along the path there is something of another type than the walks expect:  *)
(* at one of these patterns no object in an array, or no array.              *)
Misshapen(v, at, patterns) ==
    \E n \in 1..Len(at) :
        LET q == SubSeq(at, 1, n)
        IN  /\ Pattern(q) \in patterns
            /\ IF IsIndex(at[n]) THEN ~ IsDict(ValueAt(v, q)) ELSE ~ IsList(ValueAt(v, q))

-----------------------------------------------------------------------------
(* What a walk records of a place:                                           *)
(*   "text": a string to scan;          "unscannable": an image, a file ...; *)
(*   "unknown": a type it does not know; "noted": the same, without effect;  *)
(*   "error": a scan that raises, for a value that is no string.             *)
Found(at, how) == {[at |-> at, how |-> how]}

(* _scan_span(v or ""): the engine raises on what is no string. *)
ScanSpan(v, at) == Found(at, IF Falsy(v) \/ IsString(v) THEN "text" ELSE "error")
(* ParsedField(is_scannable=True) with whatever value. *)
ScanTarget(at) == Found(at, "text")
Unscannable(at) == Found(at, "unscannable")
Unknown(at) == Found(at, "unknown")

(* _check_keys: the keys of an object that are not known at its place. *)
Extra(v, at, known) ==
    IF Keys(v) \subseteq known THEN {} ELSE {[at |-> at, extra |-> Keys(v) \ known]}

EachOf(p, k, Walk(_, _)) ==
    IF IsList(Get(p, k)) THEN EachItem(Get(p, k), <<k>>, Walk) ELSE {}

Places(found, hows) == {f.at : f \in {g \in found : g.how \in hows}}
=============================================================================
