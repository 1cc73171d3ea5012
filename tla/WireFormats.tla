------------------------------ MODULE WireFormats ------------------------------
(***************************************************************************)
(* The wire formats of the three providers as tables: what each request    *)
(* scrubber (providers/claude.py, openai.py, gemini.py) does with the      *)
(* content at every place of a request that it tells apart, and where the  *)
(* response rehydrator looks for tokens in a reply.  "leaf" is a string at *)
(* any depth of a JSON object, "bare" a list element that is no object.    *)
(***************************************************************************)

Providers == {"claude", "openai", "gemini"}

-----------------------------------------------------------------------------
(* Strings handed to _scan_span. *)
ClaudeScanned ==
    {"system", "system.text", "content", "content.text", "tool_use.input leaf",
     "tool_result", "tool_result.text", "document.text"}
OpenAIScanned ==
    {"content", "content.text", "content.refusal", "arguments leaf", "arguments"}
GeminiScanned ==
    {"systemInstruction", "text", "functionCall.args leaf",
     "functionResponse.response leaf", "executableCode.code",
     "codeExecutionResult.output"}

(* Content that cannot be scanned as text. *)
ClaudeUnscannable == {"image", "tool_result.image", "document.base64", "document.url"}
OpenAIUnscannable == {"image_url", "input_audio", "file"}
GeminiUnscannable == {"inlineData", "fileData"}

(* Blocks and values of a type the scrubber does not know. *)
ClaudeUnknown ==
    {"system block", "system type", "content block", "content type",
     "tool_result block", "tool_result type", "document.source"}
OpenAIUnknown == {"content part", "content type"}
GeminiUnknown ==
    {"part", "systemInstruction type", "systemInstruction.parts",
     "functionCall type", "functionResponse type", "executableCode type",
     "codeExecutionResult type"}

(* Of these, the ones that get a coverage-gap event when they are refused.   *)
ReportedUnknown == {"content block", "content part", "part"}

(* Places the walk does not look at: the rest of the request. *)
ClaudeUnvisited == {"bare", "tools", "metadata", "tool_use.name", "document.title"}
OpenAIUnvisited == {"bare", "tools", "prompt", "arguments object", "tool_calls of a user"}
GeminiUnvisited == {"bare", "tools", "contents.parts type", "functionCall.name"}

Format(scanned, unscannable, unknown, unvisited) ==
    [scan |-> scanned, unscannable |-> unscannable, unknown |-> unknown, pass |-> unvisited]

Formats ==
    [claude |-> Format(ClaudeScanned, ClaudeUnscannable, ClaudeUnknown, ClaudeUnvisited),
     openai |-> Format(OpenAIScanned, OpenAIUnscannable, OpenAIUnknown, OpenAIUnvisited),
     gemini |-> Format(GeminiScanned, GeminiUnscannable, GeminiUnknown, GeminiUnvisited)]

Treatments == {"scan", "unscannable", "unknown", "pass"}
Places(provider) == UNION {Formats[provider][t] : t \in Treatments}
Treatment(provider, place) ==
    CHOOSE t \in Treatments : place \in Formats[provider][t]

-----------------------------------------------------------------------------
(* The strings of a reply in which tokens are restored, and some others.     *)
ClaudeRestored == {"text", "thinking", "tool_use.input leaf"}
OpenAIRestored == {"message.content", "arguments", "delta.content"}
GeminiRestored == {"text", "functionCall.args leaf"}
RestoredPlaces ==
    [claude |-> ClaudeRestored, openai |-> OpenAIRestored, gemini |-> GeminiRestored]
OtherReplyPlaces ==
    [claude |-> {"stop_sequence"}, openai |-> {"message.refusal"},
     gemini |-> {"executableCode.code", "function_call.args leaf"}]
=============================================================================
