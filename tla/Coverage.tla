------------------------------- MODULE Coverage -------------------------------
(***************************************************************************)
(* What the providers' modules see of a request.  diff_request compares    *)
(* its keys and its declared API version with what the code knows,         *)
(* apply_coverage_alarm_policy turns each difference into an alarm and may *)
(* refuse the request; parse_*_request maps what is to be scanned;         *)
(* scrub_*_request scans it.  Four walks over the same JSON, written apart.*)
(***************************************************************************)
EXTENDS JsonValues, FiniteSets

C == INSTANCE ClaudeRequests
O == INSTANCE OpenAIRequests
G == INSTANCE GeminiRequests

CONSTANT Requests       \* [provider |-> , payload |-> , version |-> ] to choose from

(* Keys are strings, arrays no longer than there are names for positions, and *)
(* of the strings that hold JSON only the arguments of OpenAI are told apart. *)
InPlace(node, provider) ==
    LET v == node[2]
    IN  /\ \A k \in Keys(v) : k \in STRING
        /\ IsList(v) => \E n \in 0..Len(Positions) : DOMAIN v[2] = 1..n
        /\ IsEncoded(v) => provider = "openai" /\ Pattern(node[1]) = O!ArgumentsPath

ASSUME CoverageAssumption ==
    \A r \in Requests :
        /\ r.provider \in {"claude", "openai", "gemini"} /\ IsDict(r.payload)
        /\ \A node \in Nodes(r.payload, <<>>) : InPlace(node, r.provider)
        /\ \A node \in Levels(r.payload, <<>>)[Depth] : Children(node) = {}

(* True of any strings, and said because the provers do not know it. *)
ASSUME StringAssumption == O!ToolCallKeys \cup O!CalledFunctionKeys \subseteq STRING

FieldActions == {"block", "warn_allow"}      \* unknown_field_action, unscannable_action

(* A version is [name |-> , date |-> , number |-> ]. *)
NoVersion == [name |-> "none", date |-> 0, number |-> 0]

VARIABLES step,         \* "arrived", "diffed", "alarmed", "parsed", "scrubbed"
          request, unknownFieldAction, unscannableAction,
          fieldDeltas, versionDelta,    \* the result of diff_request
          alarms,       \* the events of emit_coverage_alarms
          refused,      \* should_block of the alarm policy
          fieldMap,     \* all_fields of the parser
          scrubbed      \* the events and unknown fields of the scrubber

given == <<request, unknownFieldAction, unscannableAction>>
coverageVars == <<step, given, fieldDeltas, versionDelta, alarms, refused, fieldMap, scrubbed>>

CoverageInit ==
    /\ step = "arrived"
    /\ request \in Requests
    /\ unknownFieldAction \in FieldActions /\ unscannableAction \in FieldActions
    /\ fieldDeltas = {} /\ versionDelta = {} /\ alarms = {} /\ refused = FALSE
    /\ fieldMap = {} /\ scrubbed = {}

Of(claude, openai, gemini) ==
    CASE request.provider = "claude" -> claude
      [] request.provider = "openai" -> openai
      [] request.provider = "gemini" -> gemini

-----------------------------------------------------------------------------
(* diff_api_version.  Claude's versions are compared as dates, the other     *)
(* providers' by their leading number; 1 is the newest known of either, and  *)
(* 0 what has no such form.                                                  *)
KnownVersions == Of({"2023-06-01"}, {"v1"}, {"v1", "v1beta", "v1alpha"})
IsFuture(v) == Of(v.date, v.number, v.number) > 1
DiffApiVersion(v) ==
    IF v = NoVersion \/ v.name \in KnownVersions THEN {} ELSE {[declared |-> v.name, future |-> IsFuture(v)]}

DiffRequest ==
    /\ step = "arrived" /\ step' = "diffed"
    /\ fieldDeltas' = Of(C!Diff(request.payload), O!Diff(request.payload), G!Diff(request.payload))
    /\ versionDelta' = DiffApiVersion(request.version)
    /\ UNCHANGED <<given, alarms, refused, fieldMap, scrubbed>>

Alarm(type, delta) == [type |-> type, delta |-> delta]

(* One alarm for each difference; all of them refuse or none does. *)
AlarmPolicy ==
    /\ step = "diffed" /\ step' = "alarmed"
    /\ alarms' = {Alarm("unknown_fields", d) : d \in fieldDeltas}
                 \cup {Alarm("unknown_version", d) : d \in versionDelta}
    /\ refused' = (unknownFieldAction = "block" /\ alarms' # {})
    /\ UNCHANGED <<given, fieldDeltas, versionDelta, fieldMap, scrubbed>>

ParseRequest ==
    /\ step = "alarmed" /\ step' = "parsed"
    /\ fieldMap' = Of(C!Parse(request.payload), O!Parse(request.payload), G!Parse(request.payload))
    /\ UNCHANGED <<given, fieldDeltas, versionDelta, alarms, refused, scrubbed>>

ScrubRequest ==
    /\ step = "parsed" /\ step' = "scrubbed"
    /\ scrubbed' = Of(C!Scrub(request.payload), O!Scrub(request.payload), G!Scrub(request.payload))
    /\ UNCHANGED <<given, fieldDeltas, versionDelta, alarms, refused, fieldMap>>

CoverageNext == DiffRequest \/ AlarmPolicy \/ ParseRequest \/ ScrubRequest

CoverageSpec == CoverageInit /\ [][CoverageNext]_coverageVars

-----------------------------------------------------------------------------
(* should_block of the scrubber, as far as the form of the request goes. *)
ScrubberRefuses ==
    \/ Places(scrubbed, {"error"}) # {}
    \/ unknownFieldAction = "block" /\ Places(scrubbed, {"unknown"}) # {}
    \/ unscannableAction = "block" /\ Places(scrubbed, {"unscannable"}) # {}

(* The map of the parser and the walk of the scrubber, which are separate    *)
(* code, agree on any request: they want the same strings scanned and find   *)
(* the same content unscannable; of what the parser calls unknown the        *)
(* scrubber leaves out array elements that are no objects, and no other.     *)
ScrubberFollowsMap ==
    step = "scrubbed" =>
        /\ Places(scrubbed, {"text", "error"}) = Places(fieldMap, {"text"})
        /\ Places(scrubbed, {"unscannable"}) = Places(fieldMap, {"unscannable"})
        /\ Places(scrubbed, {"unknown", "noted"}) \subseteq Places(fieldMap, {"unknown"})
        /\ \A at \in Places(fieldMap, {"unknown"}) \ Places(scrubbed, {"unknown", "noted"}) :
               IsIndex(Last(at)) /\ ~ IsDict(ValueAt(request.payload, at))

(* Under the strictest settings, with alarm and scrubber both asked, every   *)
(* text of the user that leaves unscanned sits where the Unread of its       *)
(* provider says, and the API version is one the code knows.                 *)
StrictLetsThroughOnly ==
    (/\ step = "scrubbed" /\ ~ refused /\ ~ ScrubberRefuses
     /\ unknownFieldAction = "block" /\ unscannableAction = "block") =>
        /\ request.version = NoVersion \/ request.version.name \in KnownVersions
        /\ \A at \in TextPaths(request.payload) \ Places(scrubbed, {"text"}) :
               Of(C!Unread(request.payload, at), O!Unread(request.payload, at),
                  G!Unread(request.payload, at))
=============================================================================
