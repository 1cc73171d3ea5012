------------------------------- MODULE Redaction -------------------------------
(***************************************************************************)
(* Engine.scan on one text: the regular expressions of Stage 1 hit spans   *)
(* (detector.scan_text), the context rules of Stage 1.5 hit more           *)
(* (proximity), the NER of Stage 2 may add others or fail (stage2/runner), *)
(* and apply_redactions puts tokens in place of what is left after three   *)
(* different ways to resolve overlaps.  A text is its positions.           *)
(***************************************************************************)
EXTENDS Naturals, SequencesExt, FiniteSetsExt

CONSTANTS Length,       \* of the text
          Categories,   \* those with regular expressions, by priority
          MaxHits,      \* bound: regex hits in a text
          MaxExtra      \* bound: hits of the context rules, and of the NER

ASSUME RedactionAssumption ==
    Length \in Nat /\ Categories \in Seq(STRING) /\ MaxHits \in Nat /\ MaxExtra \in Nat

VARIABLES phase,        \* "regex", "proximity", "ner", "mask", "done"
          hits,         \* what the regular expressions hit, until the context rules ran
          dets,         \* the detections kept so far
          floor,        \* stage1_detections: those that Stage 2 was given
          out           \* the pieces of redacted_text

redactionVars == <<phase, hits, dets, floor, out>>

(* start..end, the end excluded. *)
Spans == {s \in (1..Length) \X (2..Length + 1) : s[1] < s[2]}
Detections(cats) == {[start |-> s[1], end |-> s[2], cat |-> c] : s \in Spans, c \in cats}
Hits == Detections({Categories[i] : i \in DOMAIN Categories})
Rank(d) == CHOOSE i \in DOMAIN Categories : Categories[i] = d.cat
Size(d) == d.end - d.start
Covered(S) == {i \in 1..Length : \E d \in S : d.start <= i /\ i < d.end}

Overlaps(d, e) == d.start < e.end /\ e.start < d.end
Encloses(d, e) == d.start <= e.start /\ e.end <= d.end

RedactionInit ==
    phase = "regex" /\ hits = {} /\ dets = {} /\ floor = {} /\ out = <<>>

-----------------------------------------------------------------------------
(* sort(key = k): the keys are tuples, compared from the left.               *)
Lower(k, l) == \E i \in DOMAIN k : k[i] < l[i] /\ \A j \in 1..i - 1 : k[j] = l[j]

(* From a list sorted by key, whatever overlaps something kept before is     *)
(* dropped, and nothing else.                                                *)
Before(key, d, e) == Lower(key[d], key[e])
KeepDisjoint(S, key) ==
    CHOOSE K \in SUBSET S :
        \A d \in S : d \in K <=> ~ \E e \in K : Before(key, e, d) /\ Overlaps(e, d)

(* scan_text: by start, then priority, then length, the longer first. *)
RegexKeyPriorityFirst(d) == <<Rank(d), d.start, Length - Size(d)>>
RegexKey(d) == <<d.start, Rank(d), Length - Size(d)>>

ScanText ==
    /\ phase = "regex" /\ phase' = "proximity"
    /\ \E S \in UNION {kSubset(n, Hits) : n \in 0..MaxHits} :
           /\ hits' = S
           /\ dets' = KeepDisjoint(S, [d \in S |-> RegexKey(d)])
    /\ UNCHANGED <<floor, out>>

(* proximity.merge, one rule hit: it takes the place of what it contains,    *)
(* and gives way to what contains it or overlaps it in part.                 *)
MergeOnePartial(S, d) ==
    LET met == {b \in S : Overlaps(b, d)}
    IN  IF \E b \in met : Encloses(b, d) THEN S ELSE (S \ met) \cup {d}
MergeOne(S, d) ==
    LET met == {b \in S : Overlaps(b, d)}
    IN  IF \E b \in met : Encloses(b, d) \/ ~ Encloses(d, b) THEN S ELSE (S \ met) \cup {d}

Merge(base, extra) ==
    LET merged[i \in 0..Len(extra)] ==
            IF i = 0 THEN base ELSE MergeOne(merged[i - 1], extra[i])
    IN  merged[Len(extra)]

Proximity ==
    /\ phase = "proximity" /\ phase' = "ner"
    /\ \E s \in UNION {[1..n -> Detections({"context"})] : n \in 0..MaxExtra} :
           /\ dets' = Merge(dets, s)
           /\ floor' = dets' /\ hits' = {}
    /\ UNCHANGED out

(* _merge_detections: by start, then length, Stage 1 before Stage 2.         *)
NerKeyLongestFirst(d) == <<Length - Size(d), d.start, IF d.cat = "ner" THEN 1 ELSE 0>>
NerKey(d) == <<d.start, Length - Size(d), IF d.cat = "ner" THEN 1 ELSE 0>>
MergeNerUnresolved(S) == dets \cup S
MergeNer(S) == KeepDisjoint(dets \cup S, [d \in dets \cup S |-> NerKey(d)])

StageTwo ==
    /\ phase = "ner" /\ phase' = "mask"
    /\ \E S \in UNION {kSubset(n, Detections({"ner"})) : n \in 0..MaxExtra} :
           dets' = MergeNer(S)
    /\ UNCHANGED <<hits, floor, out>>
StageTwoGap ==
    /\ phase = "ner" /\ phase' = "mask"
    /\ UNCHANGED <<hits, dets, floor, out>>

(* apply_redactions: the text up to a detection, its token, and at last the  *)
(* rest of the text.                                                         *)
Piece(a, b) == [start |-> a, end |-> b, cat |-> "text"]
TextBetween(a, b) == IF a < b THEN <<Piece(a, b)>> ELSE <<>>
Sorted(S) ==
    CHOOSE s \in [1..Cardinality(S) -> S] :
        /\ \A d \in S : \E i \in DOMAIN s : s[i] = d
        /\ \A i, j \in DOMAIN s : i < j => s[i].start <= s[j].start
ApplyRedactions(S) ==
    LET s == Sorted(S)
        cursor(i) == IF i = 0 THEN 1 ELSE s[i].end
        parts[i \in 0..Len(s)] ==
            IF i = 0 THEN <<>>
            ELSE parts[i - 1] \o TextBetween(cursor(i - 1), s[i].start) \o <<s[i]>>
    IN  parts[Len(s)] \o TextBetween(cursor(Len(s)), Length + 1)

Redact ==
    /\ phase = "mask" /\ phase' = "done"
    /\ out' = ApplyRedactions(dets)
    /\ UNCHANGED <<hits, dets, floor>>

RedactionNext == ScanText \/ Proximity \/ StageTwo \/ StageTwoGap \/ Redact

RedactionSpec == RedactionInit /\ [][RedactionNext]_redactionVars

-----------------------------------------------------------------------------
(* The redacted text with every token put back is the text: each position    *)
(* is in exactly one piece, in order, whatever the three stages found.       *)
RoundTrip ==
    phase = "done" =>
        /\ IF out = <<>> THEN Length = 0
           ELSE out[1].start = 1 /\ out[Len(out)].end = Length + 1
        /\ \A i \in 1..Len(out) - 1 : out[i].end = out[i + 1].start

(* A hit that gives way to another one is never left unmasked from its       *)
(* beginning: its first character is masked.                                 *)
HitStartsMasked == \A h \in hits : h.start \in Covered(dets)

(* Resolving context hits only adds to what is masked. *)
ProximityOnlyAdds == [][phase = "proximity" => Covered(dets) \subseteq Covered(dets')]_redactionVars

(* Where a detection of Stage 1 gives way to one of the NER, all that can be *)
(* left raw of it is its tail, behind an NER hit that starts before it.      *)
RawTailsFollowNer ==
    phase \in {"mask", "done"} =>
        \A d \in floor : \A i \in d.start..d.end - 1 :
            i \in Covered(dets)
            \/ \E n \in dets \ floor : n.start < d.start /\ d.start < n.end /\ n.end <= i

(* Stage 1 has priority and the NER fills the gaps it left: nothing that     *)
(* Stage 1 detected is raw once the two are merged.                          *)
StageOneHasPriority ==
    phase \in {"mask", "done"} => Covered(floor) \subseteq Covered(dets)

(* Of two overlapping hits the one of the higher priority survives: who was  *)
(* dropped, was dropped for a kept one of at least its own priority.         *)
HigherPriorityWins ==
    phase = "proximity" =>
        \A h \in hits \ dets : \E d \in dets : Overlaps(d, h) /\ Rank(d) <= Rank(h)
=============================================================================
