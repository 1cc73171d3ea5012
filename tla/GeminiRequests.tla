---------------------------- MODULE GeminiRequests ----------------------------
(***************************************************************************)
(* The three walks over a request of the Gemini API: the scrubber          *)
(* (providers/gemini.py), the parser (gemini_parser.py) and the comparison *)
(* with the known schema (schema_coverage.py).  A part says what it is by  *)
(* the key it has, in camelCase or snake_case.                             *)
(***************************************************************************)
EXTENDS JsonValues

Kinds == <<"text", "functionCall", "functionResponse", "executableCode",
           "codeExecutionResult", "inlineData", "fileData">>
Alias ==
    [functionCall |-> "function_call", functionResponse |-> "function_response",
     executableCode |-> "executable_code", codeExecutionResult |-> "code_execution_result",
     inlineData |-> "inline_data", fileData |-> "file_data",
     systemInstruction |-> "system_instruction"]
(* _get_part_key and _resolve_key: the spelling of k that v uses, the first  *)
(* of the two when it uses both.                                             *)
KeyOf(v, k) ==
    CASE k \in Keys(v) -> k
      [] k \notin Keys(v) /\ k \in DOMAIN Alias /\ Alias[k] \in Keys(v) -> Alias[k]
      [] OTHER -> ""

(* The chain of elif over the kinds: the first kind a part has is the one    *)
(* that counts, its other keys are not looked at.                            *)
Has(b, i) == KeyOf(b, Kinds[i]) # ""
KindOf(b) ==
    IF \E i \in DOMAIN Kinds : Has(b, i)
    THEN Kinds[CHOOSE i \in DOMAIN Kinds : Has(b, i) /\ \A j \in 1..i - 1 : ~ Has(b, j)]
    ELSE ""

(* Where the text of the four kinds with an object inside is. *)
Inside ==
    [functionCall |-> "args", functionResponse |-> "response",
     executableCode |-> "code", codeExecutionResult |-> "output"]

-----------------------------------------------------------------------------
(* The scrubber. *)
ScrubJsonObject(v, at) == UNION {Found(p, "text") : p \in StringPaths(v, at)}

ScrubPart(b, at) ==
    LET kind  == KindOf(b)
        key   == KeyOf(b, kind)
        value == Get(b, key)
        here  == Append(at, key)
    IN  CASE ~ IsDict(b) -> {}
          [] kind = "text" -> ScanSpan(value, here)
          [] kind \in {"functionCall", "functionResponse"} /\ IsDict(value) ->
                 ScrubJsonObject(OrEmpty(Get(value, Inside[kind])), Append(here, Inside[kind]))
          [] kind \in {"executableCode", "codeExecutionResult"} /\ IsDict(value) ->
                 ScanSpan(Get(value, Inside[kind]), Append(here, Inside[kind]))
          [] kind \in DOMAIN Inside /\ ~ IsDict(value) -> Unknown(here)
          [] kind \in {"inlineData", "fileData"} -> Unscannable(here)
          [] IsDict(b) /\ kind = "" -> Unknown(at)
ScrubParts(v, at) == IF IsList(v) THEN EachItem(v, at, ScrubPart) ELSE {}

ScrubSystemInstruction(v, at) ==
    CASE IsString(v) -> ScanSpan(v, at)
      [] IsList(Get(v, "parts")) -> ScrubParts(Get(v, "parts"), Append(at, "parts"))
      [] OTHER -> Unknown(at)
ScrubContentItem(c, at) == ScrubParts(Get(c, "parts"), Append(at, "parts"))

InstructionKey(p) == KeyOf(p, "systemInstruction")
Scrub(p) ==
    (IF InstructionKey(p) # ""
     THEN ScrubSystemInstruction(Get(p, InstructionKey(p)), <<InstructionKey(p)>>) ELSE {})
    \cup EachOf(p, "contents", ScrubContentItem)

-----------------------------------------------------------------------------
(* The parser.  Unlike those of the other two providers it passes over parts *)
(* that are no objects, as the scrubber does.                                *)
ParseJsonObject(v, at) == UNION {ScanTarget(p) : p \in StringPaths(v, at)}

ParsePart(b, at) ==
    LET kind  == KindOf(b)
        key   == KeyOf(b, kind)
        value == Get(b, key)
        here  == Append(at, key)
    IN  CASE ~ IsDict(b) -> {}
          [] kind = "text" -> ScanTarget(here)
          [] kind \in {"functionCall", "functionResponse"} /\ IsDict(value) ->
                 ParseJsonObject(OrEmpty(Get(value, Inside[kind])), Append(here, Inside[kind]))
          [] kind \in {"executableCode", "codeExecutionResult"} /\ IsDict(value) ->
                 ScanTarget(Append(here, Inside[kind]))
          [] kind \in DOMAIN Inside /\ ~ IsDict(value) -> Unknown(here)
          [] kind \in {"inlineData", "fileData"} -> Unscannable(here)
          [] IsDict(b) /\ kind = "" -> Unknown(at)
ParseParts(v, at) == IF IsList(v) THEN EachItem(v, at, ParsePart) ELSE {}

ParseSystemInstruction(v, at) ==
    CASE IsString(v) -> ScanTarget(at)
      [] IsList(Get(v, "parts")) -> ParseParts(Get(v, "parts"), Append(at, "parts"))
      [] OTHER -> Unknown(at)
ParseContentItem(c, at) == ParseParts(Get(c, "parts"), Append(at, "parts"))
Parse(p) ==
    (IF InstructionKey(p) # ""
     THEN ParseSystemInstruction(Get(p, InstructionKey(p)), <<InstructionKey(p)>>) ELSE {})
    \cup EachOf(p, "contents", ParseContentItem)

-----------------------------------------------------------------------------
(* The schema, of each pair of spellings both. *)
Both(ks) == ks \cup {Alias[k] : k \in ks \cap DOMAIN Alias}
RootKeys ==
    Both({"contents", "systemInstruction", "model"}) \cup
    {"tools", "toolConfig", "tool_config", "safetySettings", "safety_settings",
     "generationConfig", "generation_config", "cachedContent", "cached_content"}
ContentKeys == {"role", "parts"}
PartKeys ==
    Both({Kinds[i] : i \in DOMAIN Kinds}) \cup {"thought", "videoMetadata", "video_metadata"}
InstructionKeys == {"role", "parts"}
(* The 36 keys of generationConfig, by a few of them. *)
GenerationKeys == {"stopSequences", "stop_sequences", "responseSchema", "response_schema"}

DiffPart(b, at) == Extra(b, at, PartKeys)
DiffParts(v, at) ==
    IF IsList(Get(v, "parts")) THEN EachItem(Get(v, "parts"), Append(at, "parts"), DiffPart) ELSE {}
DiffContentItem(c, at) == Extra(c, at, ContentKeys) \cup DiffParts(c, at)
DiffInstruction(v, at) == Extra(v, at, InstructionKeys) \cup DiffParts(v, at)
DiffSpellings(p, ks, Walk(_, _)) == UNION {Walk(Get(p, k), <<k>>) : k \in ks}
DiffGenerationConfig(v, at) == Extra(v, at, GenerationKeys)
Diff(p) ==
    Extra(p, <<>>, RootKeys)
    \cup EachOf(p, "contents", DiffContentItem)
    \cup DiffSpellings(p, {"systemInstruction", "system_instruction"}, DiffInstruction)
    \cup DiffSpellings(p, {"generationConfig", "generation_config"}, DiffGenerationConfig)

(* What a strict scrubber and a strict alarm let pass unread.  In a part that *)
(* counts as one kind it is whatever else the part has, the other spelling of *)
(* its own key included.                                                      *)
UnreadKeys ==
    {<<k>> : k \in RootKeys \ Both({"contents", "systemInstruction"})}
    \cup {<<"contents", Anywhere, "role">>, <<"systemInstruction", "role">>,
          <<"system_instruction", "role">>}
Shapes ==
    {<<"contents">>, <<"contents", Anywhere>>, <<"contents", Anywhere, "parts">>,
     <<"contents", Anywhere, "parts", Anywhere>>, <<"systemInstruction", "parts", Anywhere>>,
     <<"system_instruction", "parts", Anywhere>>}

PartPatterns == {<<"contents", Anywhere, "parts", Anywhere>>, <<"systemInstruction", "parts", Anywhere>>,
                 <<"system_instruction", "parts", Anywhere>>}
UnreadInPart(p, at) ==
    \E n \in {3, 4} :
        /\ Len(at) > n /\ SubSeq(Pattern(at), 1, n) \in PartPatterns
        /\ LET part == ValueAt(p, SubSeq(at, 1, n))
               kind == KindOf(part)
           IN  \/ at[n + 1] # KeyOf(part, kind)
               \/ kind \in DOMAIN Inside /\ Len(at) > n + 1 /\ at[n + 2] # Inside[kind]
Unread(p, at) ==
    \/ Misshapen(p, at, Shapes)
    \/ \E k \in UnreadKeys : IsPrefix(k, Pattern(at))
    \/ at[1] = "system_instruction" /\ InstructionKey(p) # at[1]
    \/ UnreadInPart(p, at)
=============================================================================
