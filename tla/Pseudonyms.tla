------------------------------ MODULE Pseudonyms ------------------------------
(***************************************************************************)
(* What every placeholder store of pii_guard promises, whatever its data   *)
(* structures: a set of (value, token) pairs that grows one pair at a      *)
(* time, in which neither a value nor a token ever occurs twice, and that  *)
(* is forgotten only as a whole.  SessionMap (session_map.py) and the      *)
(* threads of SharedSession are shown to implement it.                     *)
(***************************************************************************)
CONSTANTS Values,       \* raw PII strings and secrets
          Tokens        \* placeholder tokens, without their brackets

VARIABLE names          \* the pairs <<value, token>> handed out

Named == {n[1] : n \in names}
Used  == {n[2] : n \in names}

Init == names = {}

(* A new value gets a token no other value has.  The pair is taken from the  *)
(* new set, so that TLC can check the step although Tokens may be infinite.  *)
Register(n) ==
    /\ n \in Values \X Tokens
    /\ n[1] \notin Named
    /\ n[2] \notin Used
    /\ names' = names \cup {n}

Forget == names' = {}

Next == (\E n \in names' : Register(n)) \/ Forget

Spec == Init /\ [][Next]_names

-----------------------------------------------------------------------------
(* The pairs are a one-to-one correspondence: masking can be undone. *)
OneToOne ==
    \A m, n \in names : m[1] = n[1] <=> m[2] = n[2]
=============================================================================
