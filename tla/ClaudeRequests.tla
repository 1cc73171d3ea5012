---------------------------- MODULE ClaudeRequests ----------------------------
(***************************************************************************)
(* The three walks over a request of the Claude API: the scrubber          *)
(* (providers/claude.py), the parser that maps what there is to scan       *)
(* (claude_parser.py), and the comparison of its keys with the schema the  *)
(* code knows (schema_coverage.py).                                        *)
(***************************************************************************)
EXTENDS JsonValues

(* The scrubber. *)
ScrubSystemBlock(b, at) ==
    CASE ~ IsDict(b) -> {}
      [] Word(b, "type") = "text" -> ScanSpan(Get(b, "text"), Append(at, "text"))
      [] OTHER -> Unknown(at)
ScrubSystem(v, at) ==
    CASE IsString(v) -> ScanSpan(v, at)
      [] IsList(v) -> EachItem(v, at, ScrubSystemBlock)
      [] OTHER -> Unknown(at)

ScrubJsonObject(v, at) == UNION {Found(p, "text") : p \in StringPaths(v, at)}

ScrubToolResultBlock(b, at) ==
    CASE ~ IsDict(b) -> {}
      [] Word(b, "type") = "text" -> ScanSpan(Get(b, "text"), Append(at, "text"))
      [] Word(b, "type") = "image" -> Unscannable(at)
      [] OTHER -> Unknown(at)
ScrubToolResultContent(v, at) ==
    CASE v = Null -> {}
      [] IsString(v) -> ScanSpan(v, at)
      [] IsList(v) -> EachItem(v, at, ScrubToolResultBlock)
      [] OTHER -> Unknown(at)

ScrubDocumentSource(source, at) ==
    CASE Word(source, "type") = "text" ->
             ScanSpan(Get(source, "data"), Append(at, "data"))
      [] Word(source, "type") \in {"base64", "url"} -> Unscannable(at)
      [] OTHER -> Unknown(at)

ScrubBlock(b, at) ==
    CASE ~ IsDict(b) -> {}
      [] Word(b, "type") = "text" -> ScanSpan(Get(b, "text"), Append(at, "text"))
      [] Word(b, "type") = "tool_use" -> ScrubJsonObject(OrEmpty(Get(b, "input")), Append(at, "input"))
      [] Word(b, "type") = "tool_result" ->
             ScrubToolResultContent(Get(b, "content"), Append(at, "content"))
      [] Word(b, "type") = "document" ->
             ScrubDocumentSource(Get(b, "source"), Append(at, "source"))
      [] Word(b, "type") = "image" -> Unscannable(at)
      [] OTHER -> Unknown(at)
ScrubContent(v, at) ==
    CASE IsString(v) -> ScanSpan(v, at)
      [] IsList(v) -> EachItem(v, at, ScrubBlock)
      [] OTHER -> Unknown(at)

ScrubMessage(m, at) ==
    IF Get(m, "content") = Null THEN {}
    ELSE ScrubContent(Get(m, "content"), Append(at, "content"))
Scrub(p) ==
    (IF "system" \in Keys(p) THEN ScrubSystem(Get(p, "system"), <<"system">>) ELSE {})
    \cup EachOf(p, "messages", ScrubMessage)

-----------------------------------------------------------------------------
(* The parser.  An element of an array that is no object is recorded here,   *)
(* where the scrubber passes it on.                                          *)
ParseSystemBlock(b, at) ==
    IF Word(b, "type") = "text" THEN ScanTarget(Append(at, "text")) ELSE Unknown(at)
ParseSystem(v, at) ==
    CASE IsString(v) -> ScanTarget(at)
      [] IsList(v) -> EachItem(v, at, ParseSystemBlock)
      [] OTHER -> Unknown(at)

ParseJsonObject(v, at) == UNION {ScanTarget(p) : p \in StringPaths(v, at)}

ParseToolResultBlock(b, at) ==
    CASE Word(b, "type") = "text" -> ScanTarget(Append(at, "text"))
      [] Word(b, "type") = "image" -> Unscannable(at)
      [] OTHER -> Unknown(at)
ParseToolResultStringsOnly(v, at) ==
    CASE v = Null \/ IsList(v) -> {}
      [] IsString(v) -> ScanTarget(at)
      [] OTHER -> Unknown(at)
ParseToolResultContent(v, at) ==
    CASE v = Null -> {}
      [] IsString(v) -> ScanTarget(at)
      [] IsList(v) -> EachItem(v, at, ParseToolResultBlock)
      [] OTHER -> Unknown(at)

ParseDocumentSource(source, at) ==
    CASE Word(source, "type") = "text" -> ScanTarget(Append(at, "data"))
      [] Word(source, "type") \in {"base64", "url"} -> Unscannable(at)
      [] OTHER -> Unknown(at)

ParseBlock(b, at) ==
    CASE Word(b, "type") = "text" -> ScanTarget(Append(at, "text"))
      [] Word(b, "type") = "tool_use" -> ParseJsonObject(OrEmpty(Get(b, "input")), Append(at, "input"))
      [] Word(b, "type") = "tool_result" ->
             ParseToolResultContent(Get(b, "content"), Append(at, "content"))
      [] Word(b, "type") = "document" ->
             ParseDocumentSource(Get(b, "source"), Append(at, "source"))
      [] Word(b, "type") = "image" -> Unscannable(at)
      [] OTHER -> Unknown(at)
ParseContent(v, at) ==
    CASE IsString(v) -> ScanTarget(at)
      [] IsList(v) -> EachItem(v, at, ParseBlock)
      [] OTHER -> Unknown(at)

ParseMessage(m, at) ==
    IF Get(m, "content") = Null THEN {}
    ELSE ParseContent(Get(m, "content"), Append(at, "content"))
Parse(p) ==
    (IF "system" \in Keys(p) THEN ParseSystem(Get(p, "system"), <<"system">>) ELSE {})
    \cup EachOf(p, "messages", ParseMessage)

-----------------------------------------------------------------------------
(* The schema: the keys the code knows at each level.                        *)
RootKeys ==
    {"model", "messages", "max_tokens", "system", "stream", "temperature", "top_p",
     "top_k", "stop_sequences", "metadata", "tools", "tool_choice",
     "anthropic_version", "betas"}
MessageKeys == {"role", "content"}
SystemKeys == {"type", "text", "cache_control"}
SourceKeys == {"type", "media_type", "data", "url"}
ToolKeys == {"name", "description", "input_schema", "cache_control"}
AnyBlockKeys ==
    {"type", "text", "id", "name", "input", "tool_use_id", "content", "source",
     "thinking", "signature", "cache_control", "media_type"}

(* A block of a type without an entry may have any key of any type. *)
BlockKeys(b) ==
    CASE Word(b, "type") = "text" -> {"type", "text", "cache_control"}
      [] Word(b, "type") = "tool_use" -> {"type", "id", "name", "input", "cache_control"}
      [] Word(b, "type") = "tool_result" ->
             {"type", "tool_use_id", "content", "cache_control", "is_error"}
      [] Word(b, "type") = "document" ->
             {"type", "source", "title", "cache_control", "citations"}
      [] Word(b, "type") = "image" -> {"type", "source", "cache_control"}
      [] Word(b, "type") = "thinking" -> {"type", "thinking", "signature"}
      [] Word(b, "type") = "redacted_thinking" -> {"type", "data"}
      [] OTHER -> AnyBlockKeys

(* The levels at which diff_claude_fields compares keys, and which it knows. *)
DiffNestedBlock(b, at) == Extra(b, at, BlockKeys(b))
DiffBlockOuterOnly(b, at) ==
    Extra(b, at, BlockKeys(b)) \cup Extra(Get(b, "source"), Append(at, "source"), SourceKeys)
DiffBlock(b, at) ==
    Extra(b, at, BlockKeys(b))
    \cup Extra(Get(b, "source"), Append(at, "source"), SourceKeys)
    \cup (IF Word(b, "type") = "tool_result" /\ IsList(Get(b, "content"))
          THEN EachItem(Get(b, "content"), Append(at, "content"), DiffNestedBlock) ELSE {})
DiffMessage(m, at) ==
    Extra(m, at, MessageKeys)
    \cup (IF IsList(Get(m, "content"))
          THEN EachItem(Get(m, "content"), Append(at, "content"), DiffBlock) ELSE {})
DiffSystemBlock(b, at) == Extra(b, at, SystemKeys)
DiffTool(t, at) == Extra(t, at, ToolKeys)
Diff(p) ==
    Extra(p, <<>>, RootKeys)
    \cup EachOf(p, "system", DiffSystemBlock)
    \cup EachOf(p, "messages", DiffMessage)
    \cup EachOf(p, "tools", DiffTool)

(* What a strict scrubber and a strict alarm let pass unread: the rest of    *)
(* the request, and array elements that are no objects.                      *)
SystemBlock == <<"system", Anywhere>>
Block == <<"messages", Anywhere, "content", Anywhere>>
NestedBlock == <<"messages", Anywhere, "content", Anywhere, "content", Anywhere>>
UnreadKeys ==
    {<<k>> : k \in RootKeys \ {"system", "messages"}}
    \cup {Append(SystemBlock, "cache_control"), <<"messages", Anywhere, "role">>}
    \cup {Append(Block, k) : k \in {"title", "citations", "id", "name", "tool_use_id",
                                    "cache_control", "is_error"}}
    \cup {Append(Append(Block, "source"), k) : k \in {"media_type", "url"}}
    \cup {Append(NestedBlock, "cache_control")}
Shapes == {<<"messages">>, <<"messages", Anywhere>>, SystemBlock, Block, NestedBlock}
Unread(p, at) ==
    Misshapen(p, at, Shapes) \/ \E k \in UnreadKeys : IsPrefix(k, Pattern(at))
=============================================================================
