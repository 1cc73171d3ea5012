------------------------------ MODULE SessionMap ------------------------------
(***************************************************************************)
(* session_map.SessionMap: the in-memory store that gives every raw value  *)
(* of a session one placeholder token CATEGORY_n or CATEGORY_n_BLOCKED and *)
(* gives the value back for the token.  Used by Engine.scan through        *)
(* masker.apply_redactions, one call at a time (the proxy holds            *)
(* _engine_lock); SharedSession models what happens without the lock.      *)
(***************************************************************************)
EXTENDS Naturals, FiniteSets

CONSTANTS Values,       \* the non-empty strings a detector may hand to encode
          Categories    \* category names: EMAIL, API_KEY, ...

VARIABLES v2p,          \* _value_to_placeholder, a function on the known values
          p2v,          \* _placeholder_to_value, a function on the issued tokens
          counters      \* _counters: last index given out in each category

vars == <<v2p, p2v, counters>>

(* f"{category}_{idx}" with "_BLOCKED" appended when blocked is set.  A      *)
(* category never ends in "_<digits>" or "_BLOCKED", so the three parts can  *)
(* be read back from the text and the record stands for it.                  *)
TokenOf(c, n, b) == [cat |-> c, idx |-> n, blocked |-> b]
Tokens == [cat : Categories, idx : Nat \ {0}, blocked : BOOLEAN]

Put(f, k, x) == [y \in DOMAIN f \cup {k} |-> IF y = k THEN x ELSE f[y]]
Empty == [y \in {} |-> y]

Init ==
    /\ v2p = Empty
    /\ p2v = Empty
    /\ counters = [c \in Categories |-> 0]

-----------------------------------------------------------------------------

(* A value seen for the first time gets the next index of its category. *)
Assign(v, c, b) ==
    LET t == TokenOf(c, counters[c] + 1, b)
    IN  /\ counters' = [counters EXCEPT ![c] = @ + 1]
        /\ v2p' = Put(v2p, v, t)
        /\ p2v' = Put(p2v, t, v)

(* encode always assigns, even for a value that already has a token. *)
EncodeAlwaysAssigns(v, c, b) == Assign(v, c, b)

(* encode(value, category, blocked): a value already known keeps its first   *)
(* token, whatever category and flag it comes with now.                      *)
Encode(v, c, b) ==
    \/ v \in DOMAIN v2p /\ UNCHANGED vars
    \/ v \notin DOMAIN v2p /\ Assign(v, c, b)

ResetKeepsReverse ==
    /\ v2p' = Empty
    /\ counters' = [c \in Categories |-> 0]
    /\ UNCHANGED p2v

(* reset(): counters and both maps start over. *)
Reset ==
    /\ v2p' = Empty
    /\ p2v' = Empty
    /\ counters' = [c \in Categories |-> 0]

Next ==
    \/ \E v \in Values, c \in Categories, b \in BOOLEAN : Encode(v, c, b)
    \/ Reset

Spec == Init /\ [][Next]_vars

-----------------------------------------------------------------------------
TypeOK ==
    /\ DOMAIN v2p \subseteq Values
    /\ v2p \in [DOMAIN v2p -> Tokens]
    /\ DOMAIN p2v \subseteq Tokens
    /\ p2v \in [DOMAIN p2v -> Values]
    /\ counters \in [Categories -> Nat]

(* The two dictionaries, written by separate statements of encode, are       *)
(* inverse to each other: rehydration gives back exactly what was masked,    *)
(* and no token stands for two values.                                       *)
Inverse ==
    /\ \A v \in DOMAIN v2p : v2p[v] \in DOMAIN p2v /\ p2v[v2p[v]] = v
    /\ \A t \in DOMAIN p2v : p2v[t] \in DOMAIN v2p /\ v2p[p2v[t]] = t

(* No index of a category is above its counter and none is given out twice,  *)
(* with or without _BLOCKED: EMAIL_1 and EMAIL_1_BLOCKED never both exist.   *)
IndexOnce ==
    /\ \A t \in DOMAIN p2v : t.idx <= counters[t.cat]
    /\ \A s, t \in DOMAIN p2v : s.cat = t.cat /\ s.idx = t.idx => s = t

(* A token that went out in a prompt keeps its meaning until the session is  *)
(* reset as a whole: no call of encode may rebind or drop it, because the    *)
(* model's reply may quote it any number of requests later.                  *)
TokenKeepsMeaning ==
    [][\/ p2v' = Empty
       \/ \A t \in DOMAIN p2v : t \in DOMAIN p2v' /\ p2v'[t] = p2v[t]]_vars

(* The pairs a client of the map has seen. *)
Pairs == {<<p2v[t], t>> : t \in DOMAIN p2v}

(* The dictionaries and counters implement the abstract pseudonym store. *)
Abstract == INSTANCE Pseudonyms WITH names <- Pairs
RefinesPseudonyms == Abstract!Spec
=============================================================================
