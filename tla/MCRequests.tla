------------------------------ MODULE MCRequests ------------------------------
(* What happens to a request apart from the proxy, four parts with no state   *)
(* in common: its fields, its texts, the decisions on what is found, and the  *)
(* vault.  A behaviour chooses one of the parts; the others stay as they are. *)
EXTENDS Coverage, Redaction, Decision, Vault

CONSTANTS p1, p2, p3
ThreePositions == <<p1, p2, p3>>

VARIABLE part

requestsVars == <<part, coverageVars, redactionVars, decisionVars, vaultVars>>

-----------------------------------------------------------------------------
(* Requests: for each provider one message around every kind of content the  *)
(* walks tell apart, with the keys the schema knows and one that it does not, *)
(* and one request for each way the rest of it can be.                       *)
S(s) == String(s)
One(v) == List(<<v>>)
Typed(t, f) == Dict(("type" :> S(t)) @@ f)
X == "x_new"
WithExtra(D) == D \cup {Dict(d[2] @@ (X :> Text)) : d \in {e \in D : IsDict(e)}}

Nested == Dict([a |-> Text, b |-> One(Text)])
ClaudeBlocks == WithExtra(
    {Typed("text", [text |-> v]) : v \in {Text, Null, Zero, Number, S(""), One(Text)}} \cup
    {Typed("text", [cache_control |-> Nested]), Typed("text", [text |-> Text, data |-> Text])} \cup
    {Typed("tool_use", [input |-> v, name |-> Text]) : v \in {Text, Nested, Null, S("")}} \cup
    {Typed("tool_result", [content |-> v]) : v \in
        {Text, Null, Nested} \cup {One(b) : b \in
            {Text, Typed("text", [text |-> Text]), Typed("text", [text |-> Text, source |-> Nested]),
             Typed("image", [source |-> Nested]), Typed("thinking", [thinking |-> Text])}}} \cup
    {Typed("document", [source |-> v, title |-> Text]) : v \in
        {Text, Typed("text", [data |-> Text]), Typed("text", [data |-> Text, note |-> Text]),
         Typed("base64", [data |-> Text]), Typed("url", [url |-> Text]), Typed("odd", [a |-> Text])}} \cup
    {Typed("image", [source |-> Nested]), Typed("thinking", [thinking |-> Text]),
     Typed("tool_result", [is_error |-> Text]),
     Typed("tool_result", [content |-> One(Typed("text", [cache_control |-> Nested]))]),
     Typed("document", [source |-> Typed("text", [media_type |-> Text, url |-> Nested])]),
     Typed("redacted_thinking", [data |-> Text]), Typed("odd", [text |-> Text]),
     Dict([text |-> Text]), Text, One(Text)})
ClaudeContents == {Text, Null, Nested} \cup {One(b) : b \in ClaudeBlocks}
                  \cup {List(<<Text, Typed("text", [text |-> Text])>>)}
ClaudeMessages ==
    {One(Dict([role |-> S("user"), content |-> c])) : c \in ClaudeContents}
    \cup {Text, One(Text), One(Dict([role |-> S("user"), content |-> Text, x_new |-> Text]))}
ClaudePayloads ==
    {Dict([messages |-> m]) : m \in ClaudeMessages} \cup
    {Dict([system |-> s]) : s \in {Text, Null, Nested, One(Text), One(Typed("text", [text |-> Text])),
        One(Typed("text", [text |-> Text, x_new |-> Text])), One(Typed("text", [cache_control |-> Nested])),
        One(Typed("odd", [text |-> Text]))}} \cup
    {Dict(k :> v) : k \in {"metadata", "tools", "tool_choice", "stop_sequences", "model", "max_tokens", X},
                   v \in {Text, One(Dict([name |-> Text, description |-> Text])), One(Dict(X :> Text)),
                          Dict(X :> Text)}}

Function(f) == One(Dict([id |-> Text, function |-> Dict(f)]))
OpenAIParts == WithExtra(
    {Typed(t, t :> v) : t \in {"text", "refusal", "image_url", "input_audio", "file", "odd"},
                       v \in {Text, Nested}} \cup {Dict([text |-> Text]), Text, Typed("text", [type |-> S("text")])})
OpenAIMessages ==
    {Dict([role |-> S("user"), content |-> c]) : c \in {Text, Null, Nested} \cup {One(b) : b \in OpenAIParts}} \cup
    {Dict([role |-> S(r), tool_calls |-> c]) : r \in {"assistant", "user"}, c \in
        {Function([name |-> Text, arguments |-> a]) : a \in
            {Text, Encoded(Nested), Encoded(Text), Encoded(Null), Nested, One(Text), Number, Null}}
        \cup {Function([arguments |-> Text, x_new |-> Text]), One(Dict([id |-> Text, x_new |-> Text])), Text, One(Text)}} \cup
    {Dict(k :> Text) : k \in {"role", "name", "tool_call_id", "refusal", "audio", X}} \cup {Text}
OpenAIPayloads ==
    {Dict([messages |-> m]) : m \in {One(m) : m \in OpenAIMessages} \cup {Text}} \cup
    {Dict(k :> v) : k \in {"tools", "functions", "user", "metadata", "prediction", "seed", "prompt", "stop"},
                   v \in {Text, One(Dict([type |-> Text, function |-> Dict([name |-> Text])])),
                          One(Dict([type |-> Text, function |-> Dict(X :> Text)])), One(Dict(X :> Text))}}

GeminiParts == WithExtra(
    {Dict(k :> v) : k \in {"text", "functionCall", "function_call", "functionResponse", "executableCode",
                           "code_execution_result", "inlineData", "file_data", "thought"},
                   v \in {Text, Dict([args |-> Nested, response |-> Text, code |-> Text, output |-> Text]),
                          Dict([code |-> Nested, args |-> S(""), name |-> Text])}} \cup
    {Dict([text |-> Text, functionCall |-> Dict([args |-> Text])]),
     Dict([functionCall |-> Dict([args |-> Text]), function_call |-> Dict([args |-> Text])]),
     Dict([executable_code |-> Text, inline_data |-> Text]), Dict([text |-> Text, file_data |-> Text]),
     Dict([thought |-> Text, text |-> Null]), Text, Dict(<<>>)})
Parts == {Text, Null} \cup {One(b) : b \in GeminiParts}
GeminiPayloads ==
    {Dict([contents |-> One(Dict([role |-> Text, parts |-> p]))]) : p \in Parts} \cup
    {Dict([contents |-> c]) : c \in {Text, One(Text), One(Dict([x_new |-> Text]))}} \cup
    {Dict(k :> v) : k \in {"systemInstruction", "system_instruction"},
        v \in {Text, Null, One(Text), Dict([role |-> Text]), Dict([parts |-> One(Dict([text |-> Text]))]),
               Dict([parts |-> One(Dict([text |-> Text, inlineData |-> Text]))]),
               Dict([parts |-> One(Text), x_new |-> Text])}} \cup
    {Dict([systemInstruction |-> Text, system_instruction |-> Text])} \cup
    {Dict(k :> Dict(x :> Text)) : k \in {"generationConfig", "generation_config"}, x \in {"stop_sequences", X}} \cup
    {Dict(k :> Text) : k \in {"tools", "cachedContent", X}}

V(n, d, k) == [name |-> n, date |-> d, number |-> k]
SomeVersions == {V("2023-06-01", 1, 2023), V("2099-01-01", 2, 2099), V("v1", 0, 1), V("v2beta", 0, 2)}
Asked(p, v, n) == [provider |-> p, payload |-> v, version |-> n]
SomeRequests ==
    {Asked("claude", v, NoVersion) : v \in ClaudePayloads} \cup
    {Asked("openai", v, NoVersion) : v \in OpenAIPayloads} \cup
    {Asked("gemini", v, NoVersion) : v \in GeminiPayloads} \cup
    {Asked(p, Dict([model |-> Text]), n) : p \in {"claude", "openai", "gemini"}, n \in SomeVersions}

-----------------------------------------------------------------------------
(* Policies: every setting absent, valid and invalid in each way, one at a   *)
(* time; pin lists that agree with one another up to order, spelling of the  *)
(* hash, label or action.                                                    *)
TwoSpecs == [RRN |-> [action |-> "block", style |-> "tokenize", min |-> 80],
             PERSON |-> [action |-> "mask", style |-> "partial", min |-> 40]]
SpelledTwice == [kim |-> "kim", Kim |-> "kim", lee |-> "lee"]
Wrong == {"odd", NoValue, Unhashable}
WithGlobal(k, v) == [EmptyFile EXCEPT !.globals[k] = v]
WithCategory(c, k, v) == [EmptyFile EXCEPT !.categories[c][k] = v]
WithChannel(k, v) == [EmptyFile EXCEPT !.channels["api"][k] = v]
WithPins(pins, ok) == [EmptyFile EXCEPT !.pins = pins, !.approved = ok]
Pin(h, pre, c, a) == [hash |-> [digest |-> h, prefix |-> pre], category |-> c, action |-> a]
PinEntries == {Pin("kim", FALSE, "PERSON", "allow"), Pin("kim", FALSE, "PERSON", "block"),
               Pin("kim", TRUE, "PERSON", "allow"), Pin("lee", FALSE, "RRN", "allow")}
PinLists == UNION {[1..n -> PinEntries] : n \in 0..2}
            \cup {<<Pin("", FALSE, "PERSON", "mask")>>, <<Pin("kim", FALSE, "", "mask")>>}
            \cup {<<Pin("kim", FALSE, "PERSON", a)>> : a \in Wrong}
SomeFiles ==
    {EmptyFile, [EmptyFile EXCEPT !.rest = FALSE]}
    \cup {WithGlobal(k, v) : k \in ToSet(Globals), v \in Wrong \cup {"block", "open", "degrade_to_stage1"}}
    \cup {WithCategory(c, k, v) : c \in {"PERSON", "NEW"}, v \in Wrong \cup {"block", "mask", "partial"},
                                  k \in {"action", "mask_style", "stage2_fail_action"}}
    \cup {WithCategory(c, "min_confidence", v) : c \in {"PERSON", "NEW"}, v \in {0, 60, 101}}
    \cup {WithChannel(k, v) : k \in ToSet(ChannelSettings), v \in Wrong \cup {"block", "warn_allow"}}
    \cup {WithPins(p, ok) : p \in PinLists, ok \in BOOLEAN}
SomeDetections == {<<>>} \cup
    {<<[category |-> c, confidence |-> n, value |-> v]>> :
        c \in {"RRN", "PERSON", "NEW"}, n \in {30, 90}, v \in {"kim", "Kim", "lee"}}

-----------------------------------------------------------------------------
(* Texts to redact have four positions: up to three hits of two categories,  *)
(* one of which is blocked and one only masked, met by up to two hits of each*)
(* later stage, so that spans nest, overlap in part, coincide and touch.     *)
RRNBeforeAddress == <<"RRN", "ADDRESS">>

(* Texts for the vault have five characters, enough for a partial mask to    *)
(* show some, one of them a Korean letter or what looks like a token.        *)
Names == [EMAIL |-> 5, PERSON |-> 6, RRN |-> 3]
A == Char("a", "lower")
Digit == Char("1", "digit")
Kim == Char("kim", "other")
PlainText == <<A, Digit, Kim, A, Digit>>
VaultTexts == {PlainText, <<Digit, Token("PERSON", 1, FALSE), A, Char("B", "upper"), A>>}
Found5 == {[start |-> s[1], end |-> s[2], cat |-> k[1], action |-> k[2], style |-> k[3]] :
               s \in {<<1, 6>>, <<1, 3>>, <<2, 4>>, <<3, 6>>},
               k \in {<<"EMAIL", "allow", "tokenize">>, <<"PERSON", "mask", "odd">>,
                      <<"RRN", "block", "tokenize">>, <<"PERSON", "mask", "partial">>,
                      <<"RRN", "block", "format_preserving">>}}
          \cup {[start |-> 3, end |-> 3, cat |-> "RRN", action |-> "block", style |-> "tokenize"]}
ToMask(texts, max) == {[text |-> t, dets |-> d] : t \in texts, d \in UNION {[1..n -> Found5] : n \in 0..max}}
UpToTwo == ToMask(VaultTexts, 2)
UpToOne == ToMask({PlainText}, 1)

RequestsInit ==
    /\ part \in {"fields", "texts", "decisions", "vault"}
    /\ CoverageInit /\ RedactionInit /\ DecisionInit /\ VaultInit
    /\ part # "fields" => /\ request = Asked("claude", Dict([system |-> Text]), NoVersion)
                          /\ unknownFieldAction = "block" /\ unscannableAction = "block"

RequestsNext ==
    /\ UNCHANGED part
    /\ \/ part = "fields" /\ CoverageNext /\ UNCHANGED <<redactionVars, decisionVars, vaultVars>>
       \/ part = "texts" /\ RedactionNext /\ UNCHANGED <<coverageVars, decisionVars, vaultVars>>
       \/ part = "decisions" /\ DecisionNext /\ UNCHANGED <<coverageVars, redactionVars, vaultVars>>
       \/ part = "vault" /\ VaultNext /\ UNCHANGED <<coverageVars, redactionVars, decisionVars>>

RequestsSpec == RequestsInit /\ [][RequestsNext]_requestsVars
===============================================================================
