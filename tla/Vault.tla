--------------------------------- MODULE Vault ---------------------------------
(***************************************************************************)
(* The per-request vault of vault.py and mask_payload_with_vault, which     *)
(* masks one text after another in one of three styles with the same vault. *)
(* A text is a sequence of characters; a bracketed token is one character.  *)
(***************************************************************************)
EXTENDS Integers, SequencesExt

CONSTANTS FirstTexts,   \* bound: [text, dets] to mask with a new vault,
          LaterTexts,   \* bound: and to mask with the same one after that
          MaxTexts,     \* bound: texts masked with one vault
          NameLength    \* category -> length of its name

VARIABLES vault,        \* [tokens |-> pairs in the order they were assigned,
                        \*  counters |-> category -> last index]
          sent          \* [text, dets, pieces] masked with it so far

vaultVars == <<vault, sent>>

(* Characters.  A Korean letter is neither upper nor lower case nor a digit. *)
Char(c, class) == [char |-> c, class |-> class]
Token(cat, n, blocked) == [cat |-> cat, n |-> n, blocked |-> blocked]
IsToken(c) == "cat" \in DOMAIN c
Stars == <<Char("***", "other")>>
TokenLength(t) == NameLength[t.cat] + 2 + (IF t.blocked THEN 8 ELSE 0)   \* of one-digit n

ASSUME VaultAssumption ==
    /\ MaxTexts \in Nat /\ NameLength \in [DOMAIN NameLength -> Nat]
    /\ \A c \in FirstTexts \cup LaterTexts :
           /\ c.text \in Seq(ToSet(c.text)) /\ c.dets \in Seq(ToSet(c.dets))
           /\ \A d \in ToSet(c.dets) : /\ {d.start, d.end} \subseteq 1..Len(c.text) + 1
                                     /\ d.cat \in DOMAIN NameLength
                                     /\ d.style \notin {"raw", "allow"}

NewVault == [tokens |-> <<>>, counters |-> [c \in DOMAIN NameLength |-> 0]]
VaultInit == vault = NewVault /\ sent = <<>>

-----------------------------------------------------------------------------
(* assign_token, restore, rehydrate. *)
HasOriginal(v, original) == \E p \in ToSet(v.tokens) : p.original = original
TokenFor(v, original) == (CHOOSE p \in ToSet(v.tokens) : p.original = original).token
Restore(v, token) == (CHOOSE p \in ToSet(v.tokens) : p.token = token).original

AssignTokenNotCounted(v, original, cat, blocked) ==
    IF HasOriginal(v, original) THEN v
    ELSE [v EXCEPT !.tokens = Append(@, [token |-> Token(cat, v.counters[cat] + 1, blocked),
                                         original |-> original])]
AssignToken(v, original, cat, blocked) ==
    IF HasOriginal(v, original) THEN v
    ELSE LET n == v.counters[cat] + 1
         IN  [tokens |-> Append(v.tokens, [token |-> Token(cat, n, blocked), original |-> original]),
              counters |-> [v.counters EXCEPT ![cat] = n]]

(* sorted(s, key = ...): what has the same key stays in its order. *)
InOrder(s, key) ==
    LET at == CHOOSE at \in [DOMAIN s -> DOMAIN s] :
                  /\ \A i \in DOMAIN s : \E k \in DOMAIN s : at[k] = i
                  /\ \A j, k \in DOMAIN s :
                         j < k => \/ key[at[j]] < key[at[k]]
                                  \/ key[at[j]] = key[at[k]] /\ at[j] < at[k]
    IN  [k \in DOMAIN s |-> s[at[k]]]

(* One replace per token, the longest first: what an original brings in may  *)
(* be replaced again.                                                        *)
ReplaceToken(text, p) ==
    FlattenSeq([i \in DOMAIN text |-> IF text[i] = p.token THEN p.original ELSE <<text[i]>>])
ByLength(pairs) == InOrder(pairs, [i \in DOMAIN pairs |-> - TokenLength(pairs[i].token)])
RehydrateVault(v, text) ==
    LET pairs == ByLength(v.tokens)
        result[i \in 0..Len(pairs)] ==
            IF i = 0 THEN text ELSE ReplaceToken(result[i - 1], pairs[i])
    IN  result[Len(pairs)]

(* _partial_mask and _format_preserving_mask. *)
Smaller(a, b) == IF a < b THEN a ELSE b
Reveal(n) == IF n <= 4 THEN 0 ELSE Smaller(2, n \div 4)
PartialMask(s) ==
    SubSeq(s, 1, Reveal(Len(s))) \o Stars \o SubSeq(s, Len(s) - Reveal(Len(s)) + 1, Len(s))
Preserved(c) ==
    CASE IsToken(c) -> c
      [] c.class = "upper" -> Char("X", "upper")
      [] c.class = "lower" -> Char("x", "lower")
      [] c.class = "digit" -> Char("0", "digit")
      [] OTHER -> c
FormatPreservingMask(s) == [i \in DOMAIN s |-> Preserved(s[i])]

(* apply_mask_style: a token is assigned whatever the style; an unknown style*)
(* is tokenize.                                                              *)
ApplyMaskStyle(v, original, style) ==
    CASE style = "partial" -> PartialMask(original)
      [] style = "format_preserving" -> FormatPreservingMask(original)
      [] OTHER -> <<TokenFor(v, original)>>

-----------------------------------------------------------------------------
(* mask_payload_with_vault.  A detection is [start, end, cat, action, style],*)
(* a piece [start, end, how, out]: "raw" text and what is allowed go as they *)
(* are.  A span that overlaps an accepted one is skipped, an empty or        *)
(* inverted one too.                                                         *)
Slice(text, a, b) == SubSeq(text, a, b - 1)
Clashes(pieces, d) ==
    \E i \in DOMAIN pieces : /\ pieces[i].how # "raw"
                             /\ pieces[i].end > d.start /\ pieces[i].start < d.end
Raw(text, a, b) == IF a < b THEN <<[start |-> a, end |-> b, how |-> "raw", out |-> Slice(text, a, b)]>>
                   ELSE <<>>
Cursor(pieces) == IF pieces = <<>> THEN 1 ELSE Last(pieces).end
MaskOne(text, acc, d) ==
    LET original == Slice(text, d.start, d.end)
        v == IF d.action = "allow" THEN acc.vault
             ELSE AssignToken(acc.vault, original, d.cat, d.action = "block")
        piece == [start |-> d.start, end |-> d.end,
                  how |-> IF d.action = "allow" THEN "allow" ELSE d.style,
                  out |-> IF d.action = "allow" THEN original ELSE ApplyMaskStyle(v, original, d.style)]
    IN  IF d.end <= d.start \/ Clashes(acc.pieces, d) THEN acc
        ELSE [vault |-> v,
              pieces |-> acc.pieces \o Raw(text, Cursor(acc.pieces), d.start) \o <<piece>>]
AsGiven(dets) == dets
ByStart(dets) == InOrder(dets, [i \in DOMAIN dets |-> dets[i].start])
MaskPayload(text, dets, v) ==
    LET order == ByStart(dets)
        masked[i \in 0..Len(order)] ==
            IF i = 0 THEN [vault |-> v, pieces |-> <<>>] ELSE MaskOne(text, masked[i - 1], order[i])
        end == masked[Len(order)]
    IN  [vault |-> end.vault,
         pieces |-> end.pieces \o Raw(text, Cursor(end.pieces), Len(text) + 1)]

MaskText(given) ==
    LET end == MaskPayload(given.text, given.dets, vault)
    IN  /\ vault' = end.vault
        /\ sent' = Append(sent, [text |-> given.text, dets |-> given.dets, pieces |-> end.pieces])

VaultNext == /\ Len(sent) < MaxTexts
             /\ \E given \in IF sent = <<>> THEN FirstTexts ELSE LaterTexts : MaskText(given)

VaultSpec == VaultInit /\ [][VaultNext]_vaultVars

-----------------------------------------------------------------------------
Masked(s) == FlattenSeq([i \in DOMAIN s.pieces |-> s.pieces[i].out])
Tokenized(s) == \A i \in DOMAIN s.pieces : s.pieces[i].how \notin {"partial", "format_preserving"}
HasLiteral(s) == \E i \in DOMAIN s.text : IsToken(s.text[i])

(* Every text masked with a vault comes back from it, also when later texts  *)
(* were masked since, unless a style that cannot be undone was used or the   *)
(* user wrote something that looks like a token; and what such a style hid   *)
(* is still what its token stands for.                                       *)
RestoresWhatItHides ==
    \A i \in DOMAIN sent :
        /\ Tokenized(sent[i]) /\ (\A j \in DOMAIN sent : ~ HasLiteral(sent[j]))
               => RehydrateVault(vault, Masked(sent[i])) = sent[i].text
        /\ \A k \in DOMAIN sent[i].pieces :
               LET p == sent[i].pieces[k]
                   original == Slice(sent[i].text, p.start, p.end)
               IN  p.how \notin {"raw", "allow"} =>
                       HasOriginal(vault, original) /\ Restore(vault, TokenFor(vault, original)) = original

(* No character of a detection to be masked or blocked leaves the text as    *)
(* it is, but for one that an accepted detection which starts no later left  *)
(* standing: an allowed span, the rest of a span that was skipped for it, or *)
(* what a partial or format preserving mask lets through.                    *)
Covers(p, i) == p.start <= i /\ i < p.end
Hidden(s, i) ==
    \A k \in DOMAIN s.pieces : Covers(s.pieces[k], i) => s.pieces[k].how \notin {"raw", "allow"}
Skipped(s, d) ==
    \E k \in DOMAIN s.pieces : /\ s.pieces[k].how # "raw" /\ Covers(s.pieces[k], d.start)
                               /\ ~ (s.pieces[k].start = d.start /\ s.pieces[k].end = d.end
                                     /\ s.pieces[k].how = d.style)
RawExplained ==
    \A i \in DOMAIN sent : \A k \in DOMAIN sent[i].dets :
        LET d == sent[i].dets[k]
        IN  d.action # "allow" =>
                \A at \in d.start..d.end - 1 : Hidden(sent[i], at) \/ Skipped(sent[i], d)
=============================================================================
