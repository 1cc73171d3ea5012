---------------------------- MODULE LookAheadBuffer ----------------------------
(***************************************************************************)
(* streaming_buffer.StreamingLookAheadBuffer: text of a streamed reply     *)
(* passes through a bounded buffer that holds back the beginning of what   *)
(* may become a placeholder, so that the rehydrator behind it never sees   *)
(* half of one.  Characters are abstracted to the classes the code tells   *)
(* apart; the lengths 64 and 512 are the constants MaxLen and MaxBuffer.   *)
(***************************************************************************)
EXTENDS Naturals, Sequences

CONSTANTS MaxLen,       \* _MAX_PLACEHOLDER_LEN
          MaxBuffer,    \* max_buffer_size
          Chunks,       \* the text deltas the upstream sends
          MaxText       \* bound: characters fed to one stream

Upper == "A"            \* an upper-case letter
Digit == "1"            \* a digit or an underscore
Other == "x"            \* anything else
Chars == {"[", "]", Upper, Digit, Other}

ASSUME BufferAssumption ==
    /\ MaxLen \in Nat \ {0} /\ MaxBuffer \in Nat
    /\ MaxBuffer >= 2 * MaxLen          \* _MIN_BUFFER_SIZE, checked by __init__
    /\ Chunks \subseteq Seq(Chars) /\ MaxText \in Nat

VARIABLES buf,          \* _buf
          fed,          \* all text fed to this stream so far
          out,          \* all text returned by feed and flush so far
          cuts,         \* the positions of the text where an emission ended
          forced,       \* those of them where the force-emit path ended it
          open          \* the stream has not been flushed

vars == <<buf, fed, out, cuts, forced, open>>

Suffix(s, i) == SubSeq(s, i, Len(s))
Prefix(s, i) == SubSeq(s, 1, i)

-----------------------------------------------------------------------------
(* _could_be_placeholder_prefix *)
PrefixWithoutLengthLimit(s) ==
    /\ s # <<>> /\ s[1] = "["
    /\ Len(s) > 1 => s[2] = Upper
    /\ \A i \in 3..Len(s) : s[i] \in {Upper, Digit}
CouldBePlaceholderPrefix(s) ==
    /\ s # <<>> /\ s[1] = "["
    /\ Len(s) <= MaxLen
    /\ Len(s) > 1 => s[2] = Upper
    /\ \A i \in 3..Len(s) : s[i] \in {Upper, Digit}

(* _find_safe_boundary: the rightmost "[" from which the buffer may still    *)
(* become a placeholder starts what is held back.  It is the only one, since *)
(* no placeholder contains a second "[".                                     *)
BoundaryAfterBracket(b) ==
    LET held == {i \in 1..Len(b) : CouldBePlaceholderPrefix(Suffix(b, i))}
    IN  IF held = {} THEN Len(b) ELSE CHOOSE i \in held : \A j \in held : i >= j
FindSafeBoundary(b) ==
    LET held == {i \in 1..Len(b) : CouldBePlaceholderPrefix(Suffix(b, i))}
    IN  IF held = {} THEN Len(b) ELSE (CHOOSE i \in held : \A j \in held : i >= j) - 1

(* _extract_safe: how many characters of the buffer are emitted now. *)
Oversized(b) == Len(b) > MaxBuffer
SafeLength(b) == IF Oversized(b) THEN Len(b) - MaxLen ELSE FindSafeBoundary(b)

Emit(b, n) ==
    /\ out' = out \o Prefix(b, n)
    /\ buf' = Suffix(b, n + 1)
    /\ cuts' = cuts \cup {Len(out) + n}

-----------------------------------------------------------------------------
Init == buf = <<>> /\ fed = <<>> /\ out = <<>> /\ cuts = {0}
        /\ forced = {} /\ open = TRUE

(* feed(chunk); nobody feeds a stream that has been flushed. *)
Feed(chunk) ==
    /\ open /\ UNCHANGED open
    /\ fed' = fed \o chunk
    /\ LET b == buf \o chunk
       IN  /\ Emit(b, SafeLength(b))
           /\ forced' = IF Oversized(b) THEN forced \cup {Len(out) + SafeLength(b)}
                                       ELSE forced

(* flush(): the stream has ended, what is held goes out as it is. *)
Flush ==
    /\ open /\ open' = FALSE
    /\ Emit(buf, Len(buf))
    /\ UNCHANGED <<fed, forced>>

(* reset(): the buffer object is put to use on a new stream. *)
Reset ==
    /\ buf' = <<>> /\ fed' = <<>> /\ out' = <<>> /\ cuts' = {0}
    /\ forced' = {} /\ open' = TRUE

Next ==
    \/ \E chunk \in Chunks :
           Len(fed) + Len(chunk) <= MaxText /\ Feed(chunk)
    \/ Flush
    \/ Reset

Spec == Init /\ [][Next]_vars

-----------------------------------------------------------------------------
(* A complete placeholder at positions i..j of text s. *)
PlaceholderAt(s, i, j) ==
    /\ i < j - 1 /\ j - i < MaxLen
    /\ s[i] = "[" /\ s[i + 1] = Upper /\ s[j] = "]"
    /\ \A k \in (i + 2)..(j - 1) : s[k] \in {Upper, Digit}

Split(k) ==
    \E i \in 1..k, j \in (k + 1)..Len(fed) : PlaceholderAt(fed, i, j)

(* Bounded: however long the deltas, no more than one placeholder's worth of *)
(* text waits in the buffer between calls, so the first text is not delayed. *)
HeldBack == Len(buf) <= MaxLen

(* A placeholder is split only by the force-emit path: where a feed leaves   *)
(* the buffer within its limit, no cut ever turns out to lie inside one, even *)
(* in a stream where forced emissions came before.                           *)
OnlyForceSplits == \A k \in cuts \ forced : ~ Split(k)
=============================================================================
