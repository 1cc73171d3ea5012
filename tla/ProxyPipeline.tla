----------------------------- MODULE ProxyPipeline -----------------------------
(***************************************************************************)
(* The proxy's way of a request: proxy._handle_post scrubs the payload     *)
(* place by place (WireFormats), masking through the session map           *)
(* (SessionMap), sweeps the result with the tripwire, refuses it or sends  *)
(* it upstream, and restores the tokens of the reply.  HTTPServer has one  *)
(* thread, so requests come one after another and share the session, and   *)
(* whoever keeps that thread waiting keeps everybody waiting.              *)
(***************************************************************************)
EXTENDS SessionMap, WireFormats, Sequences

CONSTANTS MaskValues,       \* found by Stage 1, action MASK
          BlockValues,      \* found by Stage 1, action BLOCK
          NerValues,        \* found by Stage 2 only, action MASK
          Nothing,          \* the empty text, redacted_text of a failed scan
          UnknownAction,    \* unknown_field_action
          UnscannableAction,\* unscannable_action
          StageTwoFailAction,\* stage2_fail_action of the Stage 2 runner
          UsedProviders,    \* bound: the providers of the requests
          UsedPlaces,       \* bound: UsedPlaces[n]: the places of requests of n
          MaxRequests,      \* bound: requests
          MaxCrashes        \* bound: crashes of the proxy process

ASSUME PipelineAssumption ==
    /\ Nothing \notin Values \cup Tokens
    /\ Values = MaskValues \cup BlockValues \cup NerValues
    /\ NerValues \cap (MaskValues \cup BlockValues) = {}
    /\ \A v \in Values : v \notin Tokens
    /\ DOMAIN UsedPlaces \subseteq Nat
    /\ {"EMAIL", "API_KEY", "PERSON"} \subseteq Categories
    /\ {UnknownAction, UnscannableAction} \subseteq {"block", "warn_allow"}
    /\ StageTwoFailAction \in {"mask_known_only", "block", "open"}
    /\ UsedProviders \subseteq Providers \cup {"none"}

VARIABLES phase,        \* "idle"; "receive", "await", "write": the thread waits for
                        \* the client or the upstream; "silent": the upstream has
                        \* stopped sending; "scan", "send"
          provider,     \* _detect_provider of the current request, or "none"
          req,          \* its places and what the client wrote there
          out,          \* sanitized_payload, as far as it is scrubbed
          block,        \* should_block of the scrub result so far
          gaps,         \* the places where Stage 2 failed
          reported,     \* the places in coverage_gaps
          swept,        \* the tripwire has run and not failed
          answer,       \* what the last request got: see Answer
          held,         \* <<token, value, process>>: tokens a client saw unrestored
          wire,         \* <<value, token>> pairs sent upstream by this process
          served, crashes

request == <<provider, req, out, block, gaps, reported, swept>>
pipelineVars == <<vars, phase, request, answer, held, wire, served, crashes>>

Raw(x) == x \in Values
CategoryOf(v) == IF v \in BlockValues THEN "API_KEY"
                 ELSE IF v \in NerValues THEN "PERSON" ELSE "EMAIL"
(* kind of answer; provider and place of the reply; what the client had      *)
(* written where the model quotes it from, and what the client reads now.    *)
Answer(k, pr, pl, w, x) == [kind |-> k, from |-> pr, place |-> pl, written |-> w, item |-> x]
Status(k) == Answer(k, "none", "none", Nothing, Nothing)

PipelineInit ==
    /\ Init
    /\ phase = "idle" /\ provider = "none" /\ req = <<>> /\ out = <<>>
    /\ block = FALSE /\ gaps = {} /\ reported = {} /\ swept = FALSE
    /\ answer = Status("none") /\ held = {} /\ wire = {} /\ served = 0 /\ crashes = 0

(* The payload is of no more use, or the handler returns: its locals are gone. *)
LocalsGone ==
    /\ provider' = "none" /\ req' = <<>> /\ out' = <<>>
    /\ block' = FALSE /\ gaps' = {} /\ reported' = {} /\ swept' = FALSE
HandlerReturns == phase' = "idle" /\ LocalsGone

-----------------------------------------------------------------------------
(* A client may write a value or a token it has seen. *)
PlacesOf(p) == IF p = "none" THEN {"body"} ELSE Places(p)
Items == Values \cup {h[1] : h \in held}
Requests(p) ==
    UNION {[1..n -> [place : PlacesOf(p) \cap UsedPlaces[n], item : Items]] : n \in DOMAIN UsedPlaces}

(* The connection of a client is taken up.  Until its headers and all of its *)
(* body have been read nobody else is served: the socket has no timeout.     *)
Connect ==
    /\ phase = "idle" /\ served < MaxRequests
    /\ phase' = "receive" /\ served' = served + 1
    /\ answer' = Status("none")
    /\ UNCHANGED <<vars, request, held, wire, crashes>>

Accept ==
    /\ phase = "receive"
    /\ \E p \in UsedProviders : \E r \in Requests(p) :
         /\ provider' = p /\ req' = r
         /\ phase' = IF p = "none" THEN "send" ELSE "scan"
         /\ out' = IF p = "none" THEN [i \in DOMAIN r |-> r[i].item] ELSE <<>>
    /\ UNCHANGED <<vars, block, gaps, reported, swept, answer, held, wire, served, crashes>>

(* A body that cannot be read or is no JSON: answered 400.  The scrubber     *)
(* raises on one that is JSON but no object: the connection is dropped.      *)
Reject ==
    /\ phase = "receive" /\ HandlerReturns
    /\ \E k \in {"400", "reset"} : answer' = Status(k)
    /\ UNCHANGED <<vars, held, wire, served, crashes>>

-----------------------------------------------------------------------------
Here == Len(out) + 1
Current == req[Here]
Scanning == phase = "scan" /\ Len(out) < Len(req)
How == Treatment(provider, Current.place)

(* What one place adds to the payload, the block flag and the gaps. *)
Place(x, b, gap, seen) ==
    /\ out' = Append(out, x)
    /\ block' = (block \/ b)
    /\ gaps' = IF gap THEN gaps \cup {Here} ELSE gaps
    /\ reported' = IF seen THEN reported \cup {Here} ELSE reported
    /\ UNCHANGED <<phase, provider, req, swept, answer, held, wire, served, crashes>>

(* engine.scan: the value goes through the session map.  Slips: a session of *)
(* its own for each scan; the BLOCK action of a detection is not looked at.  *)
ScanFreshSession(x) ==
    /\ v2p' = Put(Empty, x, TokenOf(CategoryOf(x), 1 + Len(out), x \in BlockValues))
    /\ p2v' = Put(Empty, v2p'[x], x)
    /\ UNCHANGED counters
    /\ Place(v2p'[x], x \in BlockValues, FALSE, FALSE)
ScanForgetsBlock(x) ==
    /\ Encode(x, CategoryOf(x), x \in BlockValues)
    /\ Place(v2p'[x], FALSE, FALSE, FALSE)
ScanValue(x) ==
    /\ Encode(x, CategoryOf(x), x \in BlockValues)
    /\ Place(v2p'[x], x \in BlockValues, FALSE, FALSE)

ScanFinds == Scanning /\ How = "scan" /\ Raw(Current.item) /\ ScanValue(Current.item)

(* Text in which nothing is detected: here, a token the client wrote. *)
ScanFindsNothing ==
    /\ Scanning /\ How = "scan" /\ ~ Raw(Current.item)
    /\ Place(Current.item, FALSE, FALSE, FALSE)
    /\ UNCHANGED vars

(* Stage 2 fails: Stage 1 alone decides, and _scan_span reports no gap,      *)
(* whatever stage2_fail_action asks for.                                     *)
StageTwoFails ==
    /\ Scanning /\ How = "scan"
    /\ IF Raw(Current.item) /\ Current.item \notin NerValues
       THEN /\ Encode(Current.item, CategoryOf(Current.item), Current.item \in BlockValues)
            /\ Place(v2p'[Current.item], Current.item \in BlockValues, TRUE, FALSE)
       ELSE UNCHANGED vars /\ Place(Current.item, FALSE, TRUE, FALSE)

(* engine.scan raises: the text is dropped and the request refused.          *)
ScanFails ==
    /\ Scanning /\ How = "scan"
    /\ Place(Nothing, TRUE, FALSE, TRUE)
    /\ UNCHANGED vars

(* Everything else goes on as it is; the policy may refuse the request.      *)
PolicyBlocks(how) ==
    \/ how = "unknown" /\ UnknownAction = "block"
    \/ how = "unscannable" /\ UnscannableAction = "block"
PassOn ==
    /\ Scanning /\ How # "scan"
    /\ Place(Current.item, PolicyBlocks(How), FALSE,
             \/ How = "unscannable"
             \/ Current.place \in ReportedUnknown /\ UnknownAction = "block")
    /\ UNCHANGED vars

-----------------------------------------------------------------------------
(* The tripwire sees every place of the payload but, of what Stage 1 could   *)
(* find, refuses only what is to be blocked.  If it raises it has no hits.   *)
Hits == {i \in DOMAIN out : out[i] \in BlockValues}
Refuse == HandlerReturns /\ answer' = Status("blocked")
Clear(ok) == phase' = "send" /\ swept' = ok
             /\ UNCHANGED <<provider, req, out, block, gaps, reported, answer>>
Finish(refused, ok) ==
    /\ phase = "scan" /\ Len(out) = Len(req)
    /\ IF refused THEN Refuse ELSE Clear(ok)
    /\ UNCHANGED <<vars, held, wire, served, crashes>>
SweepAfterBlockOnly == Finish(block, TRUE)
Sweep      == Finish(block \/ Hits # {}, TRUE)
SweepFails == Finish(block, FALSE)

(* _forward: the payload is with the upstream.  The pairs of this process.   *)
Sent == {<<req[i].item, out[i]>> : i \in {j \in DOMAIN out : Raw(req[j].item) /\ ~ Raw(out[j])}}
Forward ==
    /\ phase = "send" /\ phase' = "await"
    /\ wire' = wire \cup Sent
    /\ UNCHANGED <<vars, request, answer, held, served, crashes>>

(* The reply quotes something of the payload, at some place.  In a body that *)
(* is a JSON object the places of the provider are restored, or every string *)
(* if the path is none of a provider's.  A body that is none, or that is     *)
(* compressed because the client's Accept-Encoding went upstream with its    *)
(* other headers, is passed on as it is, and so is one with an error status. *)
UnreadBody == "body that is no JSON object"
ReplyPlaces ==
    {UnreadBody} \cup (IF provider = "none" THEN {"body"}
                      ELSE RestoredPlaces[provider] \cup OtherReplyPlaces[provider])
IsRestored(pr, place) == IF pr = "none" THEN place = "body" ELSE place \in RestoredPlaces[pr]

Restore(x) == IF x \in DOMAIN p2v THEN p2v[x] ELSE x
Respond(a) ==
    /\ answer' = a
    /\ held' = IF a.item \in DOMAIN p2v THEN held \cup {<<a.item, p2v[a.item], crashes>>} ELSE held
    /\ phase' = "write" /\ LocalsGone
    /\ UNCHANGED <<vars, wire, served, crashes>>

ReplyVerbatim ==
    /\ phase = "await"
    /\ \E place \in ReplyPlaces, i \in DOMAIN out : Respond(Answer("ok", provider, place, req[i].item, out[i]))
Reply ==
    /\ phase = "await"
    /\ \E place \in ReplyPlaces, i \in DOMAIN out :
         Respond(Answer("ok", provider, place, req[i].item,
                        IF IsRestored(provider, place) THEN Restore(out[i]) ELSE out[i]))
ErrorReply ==
    /\ phase = "await"
    /\ \E i \in DOMAIN out : Respond(Answer("error", provider, UnreadBody, req[i].item, out[i]))

(* The call ends without a reply: an OSError is answered 502; anything else  *)
(* that is raised, as by a body that ends too soon, by one the rehydrator    *)
(* trips over or while an error body is read, drops the connection.          *)
CallEnds ==
    /\ HandlerReturns
    /\ \E k \in {"502", "reset"} : answer' = Status(k)
    /\ UNCHANGED <<vars, held, wire, served, crashes>>
UpstreamFails == phase = "await" /\ CallEnds

(* The 30 s of urlopen bound one read of the socket, not the call: they end  *)
(* it once the upstream has fallen silent, and not while it keeps sending.   *)
UpstreamSilent ==
    /\ phase = "await" /\ phase' = "silent" /\ LocalsGone
    /\ UNCHANGED <<vars, answer, held, wire, served, crashes>>
UpstreamHangs    == phase = "silent" /\ UNCHANGED pipelineVars
UpstreamTimesOut == phase = "silent" /\ CallEnds

(* The client reads its answer, which may be larger than the socket's buffer,*)
(* or leaves; it may also leave before it has sent its request.              *)
ClientReads ==
    /\ phase = "write" /\ HandlerReturns
    /\ UNCHANGED <<vars, answer, held, wire, served, crashes>>
ClientLeaves ==
    /\ phase \in {"receive", "write"} /\ HandlerReturns
    /\ answer' = Status("reset")
    /\ UNCHANGED <<vars, held, wire, served, crashes>>

(* The process ends (os._exit on a signal, or a crash) and is started again: *)
(* the client's connection is reset and the session is gone.                 *)
Crash ==
    /\ crashes < MaxCrashes /\ crashes' = crashes + 1
    /\ Reset /\ wire' = {}
    /\ HandlerReturns
    /\ answer' = IF phase = "idle" THEN answer ELSE Status("reset")
    /\ UNCHANGED <<held, served>>

-----------------------------------------------------------------------------
ScanStep == ScanFinds \/ ScanFindsNothing \/ StageTwoFails \/ ScanFails \/ PassOn
ProxyStep == ScanStep \/ Sweep \/ SweepFails \/ Forward \/ UpstreamTimesOut

PipelineNext ==
    \/ Connect \/ Accept \/ Reject
    \/ ScanFinds \/ ScanFindsNothing \/ StageTwoFails \/ ScanFails \/ PassOn
    \/ Sweep \/ SweepFails \/ Forward
    \/ Reply \/ ErrorReply \/ UpstreamFails \/ UpstreamSilent \/ UpstreamTimesOut
    \/ ClientReads \/ ClientLeaves \/ Crash

(* The server thread runs on, and a read from a silent upstream times out.   *)
(* Nothing is assumed of the client, or of an upstream that sends.           *)
PipelineSpec ==
    PipelineInit /\ [][PipelineNext]_pipelineVars /\ WF_pipelineVars(ProxyStep)

-----------------------------------------------------------------------------

Leaving == phase = "await" /\ provider # "none"

(* Every raw value in a payload that goes upstream is there for a reason the *)
(* policy admits: Stage 2 failed on it, it lies where the policy lets        *)
(* unscannable or unknown content pass, or where no scrubber looks; and in   *)
(* none of these places is it a blocked one if the tripwire has run.         *)
RawOnlyByPolicy ==
    Leaving => \A i \in DOMAIN out : Raw(out[i]) =>
        LET how == Treatment(provider, req[i].place)
        IN  /\ how = "scan" => out[i] \in NerValues /\ i \in gaps
            /\ ~ PolicyBlocks(how)
            /\ swept => out[i] \notin BlockValues

(* A payload in which a secret was found, a scan raised or the policy        *)
(* objects is never sent, not even with the secret already replaced.         *)
RefusedStaysHere ==
    Leaving => \A i \in DOMAIN out :
        LET how == Treatment(provider, req[i].place)
        IN  /\ how = "scan" => req[i].item \notin BlockValues /\ out[i] # Nothing
            /\ ~ PolicyBlocks(how)

(* Over all requests of one process, the upstream sees one token for a value *)
(* and one value behind a token, so that the turns of a conversation agree.  *)
WireOneToOne == \A m, n \in wire : m[1] = n[1] <=> m[2] = n[2]

(* What the model quotes of a request, where the rehydrator looks, comes     *)
(* back as the client wrote it, also where the value was masked in an        *)
(* earlier request or process.                                               *)
QuotesComeBack ==
    answer.kind = "ok" /\ IsRestored(answer.from, answer.place) /\ Raw(answer.written) =>
        answer.item = answer.written

(* A token that reached a client unrestored, in a place or a body the        *)
(* rehydrator does not read, and that the client writes into a later request *)
(* to the same process, by any path, is restored to the value it was given   *)
(* for where the rehydrator reads.  After a restart it may stand for nothing,*)
(* or another value.                                                         *)
HeldTokensComeBack ==
    answer.kind = "ok" /\ IsRestored(answer.from, answer.place) =>
        \A h \in held : answer.written = h[1] /\ h[3] = crashes => answer.item = h[2]

(* Content that passed without Stage 2 is reported as a coverage gap.        *)
GapsReported == Leaving => gaps \subseteq reported

(* The one server thread is given back, whatever fails: only a client that   *)
(* does not send the rest of its request or read its answer, or an upstream  *)
(* that keeps sending, holds it for ever.                                    *)
RequestsAnswered ==
    \/ []<>(phase = "idle")
    \/ <>[](phase = "receive") \/ <>[](phase = "await") \/ <>[](phase = "write")
=============================================================================
