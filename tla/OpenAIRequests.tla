---------------------------- MODULE OpenAIRequests ----------------------------
(***************************************************************************)
(* The three walks over a request of the OpenAI API: the scrubber          *)
(* (providers/openai.py), the parser (openai_parser.py) and the comparison *)
(* with the known schema (schema_coverage.py).                             *)
(***************************************************************************)
EXTENDS JsonValues

(* The scrubber. *)
ScrubPart(b, at) ==
    CASE ~ IsDict(b) -> {}
      [] Word(b, "type") \in {"text", "refusal"} ->
             ScanSpan(Get(b, Word(b, "type")), Append(at, Word(b, "type")))
      [] Word(b, "type") \in {"image_url", "input_audio", "file"} -> Unscannable(at)
      [] OTHER -> Unknown(at)
ScrubContent(v, at) ==
    CASE v = Null -> {}
      [] IsString(v) -> ScanSpan(v, at)
      [] IsList(v) -> EachItem(v, at, ScrubPart)
      [] OTHER -> Unknown(at)

ScrubJsonObject(v, at) == UNION {Found(p, "text") : p \in StringPaths(v, at)}

(* Arguments that are no string are noted and go on as they are. *)
ScrubArguments(v, at) ==
    CASE v = Null -> {}
      [] IsString(v) -> ScanSpan(v, at)
      [] IsEncoded(v) -> ScrubJsonObject(v[2], at)
      [] OTHER -> Found(at, "noted")
ScrubToolCall(c, at) ==
    ScrubArguments(Get(Get(c, "function"), "arguments"), Append(Append(at, "function"), "arguments"))

ScrubMessage(m, at) ==
    ScrubContent(Get(m, "content"), Append(at, "content"))
    \cup (IF Word(m, "role") = "assistant" /\ IsList(Get(m, "tool_calls"))
          THEN EachItem(Get(m, "tool_calls"), Append(at, "tool_calls"), ScrubToolCall) ELSE {})
Scrub(p) == EachOf(p, "messages", ScrubMessage)

-----------------------------------------------------------------------------
(* The parser. *)
ParsePart(b, at) ==
    CASE Word(b, "type") \in {"text", "refusal"} -> ScanTarget(Append(at, Word(b, "type")))
      [] Word(b, "type") \in {"image_url", "input_audio", "file"} -> Unscannable(at)
      [] OTHER -> Unknown(at)
ParseContent(v, at) ==
    CASE v = Null -> {}
      [] IsString(v) -> ScanTarget(at)
      [] IsList(v) -> EachItem(v, at, ParsePart)
      [] OTHER -> Unknown(at)

ParseJsonObject(v, at) == UNION {ScanTarget(p) : p \in StringPaths(v, at)}
ParseArguments(v, at) ==
    CASE v = Null -> {}
      [] IsString(v) -> ScanTarget(at)
      [] IsEncoded(v) -> ParseJsonObject(v[2], at)
      [] OTHER -> Unknown(at)
ParseToolCall(c, at) ==
    ParseArguments(Get(Get(c, "function"), "arguments"), Append(Append(at, "function"), "arguments"))

ParseMessage(m, at) ==
    ParseContent(Get(m, "content"), Append(at, "content"))
    \cup (IF Word(m, "role") = "assistant" /\ IsList(Get(m, "tool_calls"))
          THEN EachItem(Get(m, "tool_calls"), Append(at, "tool_calls"), ParseToolCall) ELSE {})
Parse(p) == EachOf(p, "messages", ParseMessage)

-----------------------------------------------------------------------------
(* The schema. *)
RootKeys ==
    {"model", "messages", "temperature", "top_p", "n", "stream", "stream_options",
     "stop", "max_tokens", "max_completion_tokens", "presence_penalty",
     "frequency_penalty", "logit_bias", "logprobs", "top_logprobs", "tools",
     "tool_choice", "parallel_tool_calls", "function_call", "functions",
     "response_format", "modalities", "audio", "seed", "service_tier", "metadata",
     "store", "user", "reasoning_effort", "prediction", "web_search_options"}
MessageKeys == {"role", "content", "name", "tool_calls", "tool_call_id", "refusal", "audio"}
ToolCallKeys == {"id", "type", "function"}
CalledFunctionKeys == {"name", "arguments"}
ToolKeys == {"type", "function"}
ToolFunctionKeys == {"name", "description", "parameters", "strict"}
PartTypes == {"text", "image_url", "input_audio", "file", "refusal"}
PartKeys(b) ==
    IF Word(b, "type") \in PartTypes THEN {"type", Word(b, "type")} ELSE {"type"} \cup PartTypes

DiffPart(b, at) == Extra(b, at, PartKeys(b))
DiffToolCall(c, at) ==
    Extra(c, at, ToolCallKeys)
    \cup Extra(Get(c, "function"), Append(at, "function"), CalledFunctionKeys)
DiffTool(t, at) ==
    Extra(t, at, ToolKeys)
    \cup Extra(Get(t, "function"), Append(at, "function"), ToolFunctionKeys)
DiffMessage(m, at) ==
    LET each(k, Walk(_, _)) ==
            IF IsList(Get(m, k)) THEN EachItem(Get(m, k), Append(at, k), Walk) ELSE {}
    IN  Extra(m, at, MessageKeys) \cup each("content", DiffPart) \cup each("tool_calls", DiffToolCall)
Diff(p) ==
    Extra(p, <<>>, RootKeys)
    \cup EachOf(p, "messages", DiffMessage)
    \cup EachOf(p, "tools", DiffTool)

(* What a strict scrubber and a strict alarm let pass unread. *)
UnreadKeys ==
    {<<k>> : k \in RootKeys \ {"messages"}}
    \cup {<<"messages", Anywhere, k>> : k \in {"role", "name", "tool_call_id", "refusal", "audio"}}
Shapes == {<<"messages">>, <<"messages", Anywhere>>, <<"messages", Anywhere, "content", Anywhere>>}

(* Of a tool call only the arguments are read, only in a message of the      *)
(* assistant, and only when they are a string as the API has them.           *)
ToolCallPath == <<"messages", Anywhere, "tool_calls">>
ArgumentsPath == <<"messages", Anywhere, "tool_calls", Anywhere, "function", "arguments">>
UnreadToolCall(p, at) ==
    /\ IsPrefix(ToolCallPath, Pattern(at))
    /\ \/ ~ IsPrefix(ArgumentsPath, Pattern(at))
       \/ Word(ValueAt(p, SubSeq(at, 1, 2)), "role") # "assistant"
       \/ IsDict(ValueAt(p, SubSeq(at, 1, 6))) \/ IsList(ValueAt(p, SubSeq(at, 1, 6)))
Unread(p, at) ==
    \/ Misshapen(p, at, Shapes)
    \/ \E k \in UnreadKeys : IsPrefix(k, Pattern(at))
    \/ UnreadToolCall(p, at)
=============================================================================
