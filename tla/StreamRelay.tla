------------------------------ MODULE StreamRelay ------------------------------
(***************************************************************************)
(* A streamed reply on its way from the upstream to the client:            *)
(* proxy._forward_streaming reads what the socket has, feeds it to         *)
(* StreamingSSERehydrator and writes the result at once.  The rehydrator   *)
(* parses events, sends the text of text events through the look-ahead     *)
(* buffer (LookAheadBuffer), restores tokens in what comes out and         *)
(* forwards every other event as it is.  Either end may go away.           *)
(***************************************************************************)
EXTENDS LookAheadBuffer, SequencesExt

CONSTANTS FeatureSets,  \* what streams may contain, see below
          LastBlock,    \* bound: content blocks are numbered 0..LastBlock
          MaxEvents,    \* bound: events of one stream
          MaxInFlight   \* bound: events sent and not yet read by the relay

(* "stop": the stream ends with message_stop or [DONE];                      *)
(* "tool": events that are not text deltas quote a token in their payload;   *)
(* "chunked": the reply uses HTTP chunked encoding;                          *)
(* "cut": a read ends in the middle of a multi-byte character.               *)
ASSUME RelayAssumption ==
    /\ FeatureSets \subseteq SUBSET {"stop", "tool", "chunked", "cut"}
    /\ LastBlock \in Nat /\ MaxEvents \in Nat /\ MaxInFlight \in Nat
    /\ MaxLen >= 3                      \* so that a token is a placeholder

VARIABLES sent,         \* the events the upstream has sent
          read,         \* how many of them the relay has read
          got,          \* the events written to the client
          upstream,     \* "open": it goes on sending; "silent": it has stopped, and
                        \* keeps the connection; "ended", "reset"
          relay,        \* "streaming", "blocked" in a write to the client, or how
                        \* it ended: "closed", "cut", "left"
          features      \* what this stream may contain, one of FeatureSets

relayVars == <<vars, sent, read, got, upstream, relay, features>>

Token == <<"[", Upper, "]">>    \* a token of the restoration map
Value == "R"                    \* the value it stands for

-----------------------------------------------------------------------------
(* _rehydrate_str: every occurrence of the token becomes the value.          *)
TokenAt(s, i) == i \in 1..(Len(s) - 2) /\ SubSeq(s, i, i + 2) = Token
Restored(s) ==
    FlattenSeq([i \in 1..Len(s) |->
        IF TokenAt(s, i) THEN <<Value>>
        ELSE IF TokenAt(s, i - 1) \/ TokenAt(s, i - 2) THEN <<>>
        ELSE <<s[i]>>])

(* decode("utf-8", errors="replace") of each half of a cut character.        *)
Garbled(s) ==
    FlattenSeq([i \in 1..Len(s) |-> IF s[i] = Other THEN <<"?", "?">> ELSE <<s[i]>>])

Event(k, b, t) == [kind |-> k, block |-> b, txt |-> t]

RelayInit ==
    /\ Init
    /\ sent = <<>> /\ read = 0 /\ got = <<>>
    /\ upstream = "open" /\ relay = "streaming"
    /\ features \in FeatureSets

-----------------------------------------------------------------------------
(* The upstream.  Blocks follow one another; nothing follows a stop.         *)
Payloads == IF "tool" \in features THEN {<<>>, Token} ELSE {<<>>}
LastSent == IF sent = <<>> THEN Event("other", 0, <<>>) ELSE sent[Len(sent)]

UpstreamSend ==
    /\ upstream = "open" /\ LastSent.kind # "stop"
    /\ Len(sent) < MaxEvents /\ Len(sent) - read < MaxInFlight
    /\ \E b \in LastSent.block..LastBlock :
         \/ \E d \in Chunks : sent' = Append(sent, Event("text", b, d))
         \/ \E p \in Payloads : sent' = Append(sent, Event("other", b, p))
         \/ "stop" \in features /\ sent' = Append(sent, Event("stop", b, <<>>))
    /\ UNCHANGED <<vars, read, got, upstream, relay, features>>

UpstreamSilent ==
    /\ upstream = "open" /\ upstream' = "silent"
    /\ UNCHANGED <<vars, sent, read, got, relay, features>>
UpstreamEnd ==
    /\ upstream = "open" /\ upstream' = "ended"
    /\ UNCHANGED <<vars, sent, read, got, relay, features>>
UpstreamReset ==
    /\ upstream = "open" /\ upstream' = "reset"
    /\ UNCHANGED <<vars, sent, read, got, relay, features>>

-----------------------------------------------------------------------------
(* One event read, processed and written.                                    *)
Arrived(e) == relay = "streaming" /\ read < Len(sent) /\ e = sent[read + 1]
Write(e) ==
    /\ got' = Append(got, e)
    /\ read' = read + 1
    /\ UNCHANGED <<sent, upstream, relay, features>>

(* What this call of the look-ahead buffer returned. *)
Returned == Suffix(out', Len(out) + 1)

(* A text event: the event goes on with whatever text is safe by now, or     *)
(* with none.  The slips: the buffer is by-passed; an event without safe      *)
(* text is not sent at all.                                                  *)
FeedAndWriteUnbuffered(e, t) ==
    /\ UNCHANGED vars
    /\ Write([e EXCEPT !.txt = Restored(t)])
FeedAndWriteNonEmpty(e, t) ==
    /\ Feed(t)
    /\ got' = IF Returned = <<>> THEN got
              ELSE Append(got, [e EXCEPT !.txt = Restored(Returned)])
    /\ read' = read + 1
    /\ UNCHANGED <<sent, upstream, relay, features>>
FeedAndWrite(e, t) ==
    /\ Feed(t)
    /\ Write([e EXCEPT !.txt = Restored(Returned)])

RelayText == \E e \in {sent[i] : i \in 1..Len(sent)} :
    Arrived(e) /\ e.kind = "text" /\ FeedAndWrite(e, e.txt)

(* The reads cut a character of the event's text: each half decodes alone.   *)
RelayCutText == \E e \in {sent[i] : i \in 1..Len(sent)} :
    /\ "cut" \in features
    /\ Arrived(e) /\ e.kind = "text" /\ FeedAndWrite(e, Garbled(e.txt))

(* Any other event: forwarded as it is. *)
RelayOther == \E e \in {sent[i] : i \in 1..Len(sent)} :
    Arrived(e) /\ e.kind # "text" /\ Write(e) /\ UNCHANGED vars

(* read1 is called on resp.fp, below the decoder of chunked encoding, so the *)
(* chunk-size line that falls into an event is taken for part of it; its     *)
(* data is no JSON then, and the event is forwarded as it is.                *)
RelayFramed == \E e \in {sent[i] : i \in 1..Len(sent)} :
    "chunked" \in features /\ Arrived(e) /\ Write(e) /\ UNCHANGED vars

(* The upstream has closed: the held tail is flushed as an event of block 0. *)
CloseWithoutFlush ==
    /\ relay = "streaming" /\ upstream = "ended" /\ read = Len(sent)
    /\ relay' = "closed"
    /\ UNCHANGED <<vars, sent, read, upstream, got, features>>
EndOfStream ==
    /\ relay = "streaming" /\ upstream = "ended" /\ read = Len(sent)
    /\ Flush
    /\ got' = IF buf = <<>> THEN got ELSE Append(got, Event("text", 0, Restored(buf)))
    /\ relay' = "closed"
    /\ UNCHANGED <<sent, read, upstream, features>>

(* read1 raises OSError: what was in flight and what is held are dropped.    *)
UpstreamFailed ==
    /\ relay = "streaming" /\ upstream = "reset"
    /\ relay' = "cut"
    /\ UNCHANGED <<vars, sent, read, got, upstream, features>>

(* The timeout of 30 s bounds one read of the upstream's socket: it expires  *)
(* when nothing at all comes, not while the upstream goes on sending.        *)
TimeoutKeepsReading ==
    /\ relay = "streaming" /\ upstream = "silent" /\ read = Len(sent)
    /\ UNCHANGED relayVars
Timeout ==
    /\ relay = "streaming" /\ upstream = "silent" /\ read = Len(sent)
    /\ relay' = "cut"
    /\ UNCHANGED <<vars, sent, read, got, upstream, features>>

(* The client's socket has no timeout: if the client does not read, the next *)
(* write waits until it does, or has gone, and nothing is read meanwhile.    *)
WriteBlocks ==
    /\ relay = "streaming" /\ relay' = "blocked"
    /\ read < Len(sent) \/ (upstream = "ended" /\ buf # <<>>)
    /\ UNCHANGED <<vars, sent, read, got, upstream, features>>
ClientReads ==
    /\ relay = "blocked" /\ relay' = "streaming"
    /\ UNCHANGED <<vars, sent, read, got, upstream, features>>

(* The client has gone: the write raises OSError. *)
ClientLeft ==
    /\ relay \in {"streaming", "blocked"} /\ relay' = "left"
    /\ UNCHANGED <<vars, sent, read, got, upstream, features>>

RelayStep == RelayText \/ RelayCutText \/ RelayOther \/ RelayFramed
             \/ EndOfStream \/ UpstreamFailed

RelayNext == UpstreamSend \/ UpstreamSilent \/ UpstreamEnd \/ UpstreamReset
             \/ RelayText \/ RelayCutText \/ RelayOther \/ RelayFramed
             \/ EndOfStream \/ UpstreamFailed \/ Timeout
             \/ WriteBlocks \/ ClientReads \/ ClientLeft

(* The proxy thread runs on, a write the client has read goes through, and a *)
(* read from a silent upstream times out; nothing is assumed of the client,  *)
(* or of an upstream that goes on sending.                                   *)
Fairness == SF_relayVars(RelayStep) /\ WF_relayVars(Timeout)

RelaySpec == RelayInit /\ [][RelayNext]_relayVars /\ Fairness

-----------------------------------------------------------------------------
TextIn(events) ==
    FlattenSeq([i \in 1..Len(events) |->
        IF events[i].kind = "text" THEN events[i].txt ELSE <<>>])

(* The force-emit path has ended an emission in the middle of a token.       *)
Severed == \E k \in forced : TokenAt(fed, k - 1) \/ TokenAt(fed, k)

(* No token is in what the client has been sent, in one event or across     *)
(* several: what streaming_rehydrator.py promises of any stream.             *)
TokenFree ==
    /\ \A i \in 1..Len(TextIn(got)) : ~ TokenAt(TextIn(got), i)
    /\ \A i \in 1..Len(got) : \A j \in 1..Len(got[i].txt) : ~ TokenAt(got[i].txt, j)

(* However the token is cut into deltas and whenever the client reads, no    *)
(* token reaches it, unless in an event the rehydrator does not look into    *)
(* or cannot read, or in two halves out of an overfull buffer; emissions     *)
(* forced anywhere else do no harm.                                          *)
NoTokenDelivered == features \cap {"tool", "chunked"} = {} /\ ~ Severed => TokenFree

(* Whatever the reply is made of, the relay writes one event for each event  *)
(* it reads, of its kind and block and in its place, and adds at most the    *)
(* tail: a held text leaves an empty event behind, none swallows another.    *)
EventsKeepTheirPlace ==
    /\ relay \in {"streaming", "blocked"} => Len(got) = read
    /\ \A i \in 1..Len(got) : i <= read =>
           got[i].kind = sent[i].kind /\ got[i].block = sent[i].block

(* At every moment the client has a prefix of the restored text of the       *)
(* reply, and all of it when the relay closes the stream normally; a         *)
(* character that two reads cut, a token severed by a forced emission, and   *)
(* chunk framing are the exceptions.                                         *)
ClientTextRestored ==
    features \cap {"cut", "chunked"} = {} /\ ~ Severed =>
        /\ IsPrefix(TextIn(got), Restored(TextIn(sent)))
        /\ relay = "closed" => TextIn(got) = Restored(TextIn(sent))

(* The single server thread is given back, whatever fails: only an upstream  *)
(* that goes on sending, or a client that neither reads nor leaves, holds it *)
(* for ever.                                                                 *)
StreamEnds ==
    \/ <>(relay \in {"closed", "cut", "left"})
    \/ <>[](upstream = "open") \/ <>[](relay = "blocked")
=============================================================================
