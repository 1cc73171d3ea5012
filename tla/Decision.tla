------------------------------- MODULE Decision -------------------------------
(***************************************************************************)
(* From a policy file to what happens to a detection.  policy.py parses    *)
(* and validates the settings and guards the pin list; decision.py decides *)
(* on each detection and on each kind of failure; stage2/policy_layer.py   *)
(* applies the decisions to what the NER found.                            *)
(***************************************************************************)
EXTENDS Integers, SequencesExt, FiniteSetsExt

CONSTANTS CategorySpec,         \* CATEGORY_MAP: known category -> [action, style, min]
          Unlisted,     \* categories without an entry there
          Channels,     \* names of channels
          Originals,       \* what detections are about, as they spell it
          Normal,       \* Normal[v]: v.strip().lower()
          HmacKey,      \* whether the engine was given an hmac_key
          PolicyFiles,  \* the policy files a user may write, see below
          DetectionLists \* bound: lists of detections to decide on

PolicyCategories == DOMAIN CategorySpec \cup Unlisted
Confidences == 0..100                   \* percent
NoCategory == "none"

(* Settings are strings; Absent is a missing key, NoValue a key without value,  *)
(* Unhashable a YAML list where a word belongs.                              *)
Absent == "absent"
NoValue == "null"
Unhashable == "list"
NoConfidence == -1

FailModes == {"closed", "open"}
ContentFailureActions == {"block", "warn_allow"}
InfraFailureActions == {"degrade_to_stage1", "block"}
Stage2FailActions == {"block", "mask_known_only", "open"}
UnscannableActions == {"block", "warn_allow", "ocr"}
LegalActions == {"allow", "mask", "block", "tokenize_roundtrip"}
MaskStyles == {"tokenize", "partial", "format_preserving"}

Legal ==
    [fail_mode |-> FailModes, on_content_failure |-> ContentFailureActions,
     on_infra_failure |-> InfraFailureActions, stage2_fail_action |-> Stage2FailActions,
     unscannable_action |-> UnscannableActions]
Globals == <<"fail_mode", "on_content_failure", "on_infra_failure", "stage2_fail_action",
             "unscannable_action">>
ChannelSettings == <<"unscannable_action", "stage2_fail_action", "on_content_failure", "fail_mode">>

SecureDefault ==
    [fail_mode |-> "closed", on_content_failure |-> "block",
     on_infra_failure |-> "degrade_to_stage1", stage2_fail_action |-> "mask_known_only",
     unscannable_action |-> "block"]
NoPolicy == [action |-> Absent, mask_style |-> Absent, min_confidence |-> NoConfidence,
             stage2_fail_action |-> Absent]
NoOverride == [k \in ToSet(ChannelSettings) |-> Absent]

(* A file is [globals |-> , categories |-> , pins |-> , approved |-> ,        *)
(* channels |-> , rest |-> ]: the five global settings; for each category and *)
(* each channel its own (NoPolicy, NoOverride: no entry); the pin list, a     *)
(* sequence of [hash, category, action]; pin_list_approved; and whether the   *)
(* other sections (rehydrate, memory_budget_mb, proximity, stage2, allowlist) *)
(* are well formed.                                                           *)
EmptyFile ==
    [globals |-> [k \in ToSet(Globals) |-> Absent],
     categories |-> [c \in PolicyCategories |-> NoPolicy], pins |-> <<>>, approved |-> TRUE,
     channels |-> [c \in Channels |-> NoOverride], rest |-> TRUE]

ASSUME DecisionAssumption ==
    /\ \A c \in DOMAIN CategorySpec : CategorySpec[c].action \in LegalActions /\ CategorySpec[c].style \in MaskStyles
                              /\ CategorySpec[c].min \in Confidences
    /\ DOMAIN Normal = Originals /\ HmacKey \in BOOLEAN
    /\ IsFiniteSet(PolicyCategories) /\ IsFiniteSet(Channels)
    /\ \A f \in PolicyFiles :
           /\ \A c \in PolicyCategories : DOMAIN f.categories[c] = DOMAIN NoPolicy
           /\ Len(f.pins) \in Nat /\ DOMAIN f.pins = 1..Len(f.pins)
    /\ \A dets \in DetectionLists : \A i \in DOMAIN dets : dets[i].category \in PolicyCategories

VARIABLES config,       \* the policy in force
          pinHash,      \* _last_pin_list_hash
          outcome,      \* how the last load ended: "none", "ok" or the exception
          enforced,     \* place -> detection kept by an apply under it, with its decision
          suppressed    \* place -> detection allowed

decisionVars == <<config, pinHash, outcome, enforced, suppressed>>

-----------------------------------------------------------------------------
(* Parsing: the first setting that is wrong ends it.  What is looked up in a *)
(* set before its type is checked raises TypeError when it is unhashable.    *)
GlobalVerdict(v, legal) == IF v \in legal \cup {Absent} THEN "ok" ELSE "ValueError"
EntryVerdict(v, legal) ==
    CASE v \in legal \cup {Absent, NoValue} -> "ok"
      [] v = Unhashable -> "TypeError"
      [] OTHER -> "ValueError"

ValidateGlobals(g) == [i \in DOMAIN Globals |-> GlobalVerdict(g[Globals[i]], Legal[Globals[i]])]
ParseCategoryPolicy(p) ==
    <<EntryVerdict(p.action, LegalActions), EntryVerdict(p.mask_style, MaskStyles),
      IF p.min_confidence \in Confidences \cup {NoConfidence} THEN "ok" ELSE "ValueError",
      EntryVerdict(p.stage2_fail_action, Stage2FailActions)>>
ParsePinEntry(e) ==
    IF e.hash.digest = "" \/ e.category = "" THEN "ValueError"
    ELSE IF e.action = Unhashable THEN "TypeError"
    ELSE IF e.action \notin LegalActions THEN "ValueError" ELSE "ok"
ParseChannelUnchecked(o) == <<"ok">>
ParseChannelOverride(o) ==
    [i \in DOMAIN ChannelSettings |-> EntryVerdict(o[ChannelSettings[i]], Legal[ChannelSettings[i]])]

First(verdicts) ==
    LET wrong == {i \in DOMAIN verdicts : verdicts[i] # "ok"}
    IN  IF wrong = {} THEN "ok" ELSE verdicts[Min(wrong)]
Outcome(file) ==
    First(<<First(ValidateGlobals(file.globals)),
            IF file.rest THEN "ok" ELSE "ValueError",
            First([i \in DOMAIN SetToSeq(PolicyCategories) |->
                       First(ParseCategoryPolicy(file.categories[SetToSeq(PolicyCategories)[i]]))]),
            First([i \in DOMAIN file.pins |-> ParsePinEntry(file.pins[i])]),
            First([i \in DOMAIN SetToSeq(Channels) |->
                       First(ParseChannelOverride(file.channels[SetToSeq(Channels)[i]]))])>>)

OrElse(v, default) == IF v = Absent THEN default ELSE v
NoValueIsAbsent(v) == IF v = NoValue THEN Absent ELSE v
Parsed(file) ==
    [globals |-> [k \in ToSet(Globals) |-> OrElse(file.globals[k], SecureDefault[k])],
     categories |-> [c \in PolicyCategories |->
         [file.categories[c] EXCEPT !.action = NoValueIsAbsent(@), !.mask_style = NoValueIsAbsent(@),
                                    !.stage2_fail_action = NoValueIsAbsent(@)]],
     pins |-> file.pins,
     channels |-> [c \in Channels |-> [k \in ToSet(ChannelSettings) |->
                                         NoValueIsAbsent(file.channels[c][k])]]]

(* _hash_pin_list: of the entries in sorted order, so of the bag of them.    *)
PinHashWithoutAction(pins) ==
    LET items == [i \in DOMAIN pins |-> <<pins[i].hash, pins[i].category>>]
    IN  [e \in ToSet(items) |-> Cardinality({i \in DOMAIN items : items[i] = e})]
PinHash(pins) ==
    LET items == [i \in DOMAIN pins |-> <<pins[i].hash, pins[i].category, pins[i].action>>]
    IN  [e \in ToSet(items) |-> Cardinality({i \in DOMAIN items : items[i] = e})]

DecisionInit ==
    /\ config = Parsed(EmptyFile) /\ pinHash = PinHash(<<>>) /\ outcome = "none"
    /\ enforced = <<>> /\ suppressed = <<>>

(* _try_load.  A pin list whose hash is new needs pin_list_approved, or the  *)
(* old list stays; everything else of the file is taken either way.          *)
LoadPolicy(file) ==
    /\ outcome' = Outcome(file)
    /\ IF Outcome(file) # "ok" THEN UNCHANGED <<config, pinHash>>
       ELSE IF PinHash(file.pins) = pinHash \/ file.approved
       THEN config' = Parsed(file) /\ pinHash' = PinHash(file.pins)
       ELSE config' = [Parsed(file) EXCEPT !.pins = config.pins] /\ UNCHANGED pinHash
    /\ enforced' = <<>> /\ suppressed' = <<>>

-----------------------------------------------------------------------------
(* A detection is [category, confidence, value]; a decision [action, style]. *)
DetectionSet == UNION {ToSet(dets) : dets \in DetectionLists}
Decided(action, style) == [action |-> action, style |-> style]

Floor(d) ==
    LET own == config.categories[d.category].min_confidence
    IN  CASE own # NoConfidence -> own
          [] own = NoConfidence /\ d.category \in DOMAIN CategorySpec -> CategorySpec[d.category].min
          [] OTHER -> 0

(* _check_pin_list: the first entry of the category with the detection's     *)
(* hash; "sha256:" before a hash is ignored.                                 *)
PinsOf(pins, d) ==
    {i \in DOMAIN pins : pins[i].category = d.category /\ pins[i].hash.digest = Normal[d.value]}
PinAction(pins, d) == pins[Min(PinsOf(pins, d))].action
Pinned(d) == HmacKey /\ PinsOf(config.pins, d) # {}

StyleOf(d) ==
    LET own == config.categories[d.category].mask_style
    IN  CASE own # Absent -> own
          [] own = Absent /\ d.category \in DOMAIN CategorySpec -> CategorySpec[d.category].style
          [] OTHER -> "tokenize"

Default(d) ==
    CASE d.category \in DOMAIN CategorySpec -> Decided(CategorySpec[d.category].action, CategorySpec[d.category].style)
      [] OTHER -> Decided("block", "tokenize")

Decide(d) ==
    IF d.confidence < Floor(d) THEN Decided("allow", "tokenize")
    ELSE IF Pinned(d) THEN Decided(PinAction(config.pins, d), "tokenize")
    ELSE IF config.categories[d.category].action # Absent
    THEN Decided(config.categories[d.category].action, StyleOf(d))
    ELSE Default(d)

(* What to do when something fails: a channel's own setting, then one of the *)
(* category where there is one, then the global one.  An infrastructure      *)
(* failure is decided globally.                                              *)
ChannelSetting(channel, k) ==
    IF channel \in Channels THEN config.channels[channel][k] ELSE Absent
DecideFailure(k, channel) == OrElse(ChannelSetting(channel, k), config.globals[k])
DecideStage2Failure(channel, c) ==
    OrElse(ChannelSetting(channel, "stage2_fail_action"),
          OrElse(IF c = NoCategory THEN Absent ELSE config.categories[c].stage2_fail_action,
                config.globals["stage2_fail_action"]))
DecideInfraFailure == config.globals["on_infra_failure"]

(* apply_decisions and Stage2PolicyLayer.apply: Action() and MaskStyle() are *)
(* called on every decision that is not to allow.                            *)
ApplyDecisions(dets) ==
    LET kept == {i \in DOMAIN dets : Decide(dets[i]).action # "allow"}
    IN  /\ enforced' = [i \in kept |-> [of |-> dets[i], as |-> Decide(dets[i])]]
        /\ suppressed' = [i \in DOMAIN dets \ kept |-> dets[i]]
        /\ UNCHANGED <<config, pinHash, outcome>>

DecisionNext ==
    \/ \E file \in PolicyFiles : LoadPolicy(file)
    \/ \E dets \in DetectionLists : ApplyDecisions(dets)

DecisionSpec == DecisionInit /\ [][DecisionNext]_decisionVars

-----------------------------------------------------------------------------
(* Whatever file was loaded, no decision is outside the vocabulary of those  *)
(* who act on it: Action() and MaskStyle() never raise on a detection, and a *)
(* failure is met with an action its kind allows, for every channel, also    *)
(* one without an entry, and every category.                                 *)
LegalDecisions ==
    /\ \A i \in DOMAIN enforced : enforced[i].as.action \in LegalActions \ {"allow"}
    /\ \A d \in DetectionSet : Decide(d).action \in LegalActions /\ Decide(d).style \in MaskStyles
    /\ \A channel \in Channels \cup {""} :
        /\ \A k \in ToSet(ChannelSettings) : DecideFailure(k, channel) \in Legal[k]
        /\ \A c \in PolicyCategories \cup {NoCategory} :
               DecideStage2Failure(channel, c) \in Stage2FailActions
    /\ DecideInfraFailure \in InfraFailureActions

(* A pin list may be replaced without approval when its hash stays the same: *)
(* then it decides as before on every detection, unless it has two entries   *)
(* of one category and hash with different actions, whose order counts.      *)
Ambiguous(pins) ==
    \E i, j \in DOMAIN pins : /\ pins[i].category = pins[j].category
                              /\ pins[i].hash.digest = pins[j].hash.digest
                              /\ pins[i].action # pins[j].action
PinActions(pins, d) == IF PinsOf(pins, d) = {} THEN "none" ELSE PinAction(pins, d)
UnapprovedPinsDecideAlike ==
    [][pinHash' = pinHash =>
        \A d \in DetectionSet :
            PinActions(config'.pins, d) = PinActions(config.pins, d) \/ Ambiguous(config.pins)
      ]_decisionVars
=============================================================================
