----------------------------- MODULE MCStreamRelay -----------------------------
(* The relay on streams of a few short deltas: every way to cut the token     *)
(* [A] into deltas, next to other text and to what only looks like a token.   *)
(* A stream is plain, or it may have every kind of payload, framing and cut.  *)
(*                                                                            *)
(* And the buffer by itself, with a placeholder of at most 3 characters in    *)
(* place of 64, fed longer texts and put to use again: short deltas, and long *)
(* ones that overfill it with a placeholder, or the beginning of one, before, *)
(* across and behind the place where the force-emit path cuts.                *)
EXTENDS StreamRelay

VARIABLE part

Pieces == {<<>>, <<"[">>, <<"A">>, <<"]">>, <<"x">>, <<"[", "A">>, <<"A", "]">>,
           <<"x", "[">>, <<"[", "A", "]">>}
WithTools == {{"tool"}}
PlainOrAny == {{"stop"}, {"tool", "chunked", "cut"}}

Short == {<<"[">>, <<"]">>, <<"A">>, <<"1">>, <<"[", "A">>, <<"A", "]">>}
Long == {<<"x", "x", "x", "[", "A", "]", "[">>, <<"x", "x", "[", "A", "]", "[", "A">>,
         <<"[", "A", "]", "[", "A", "1", "]">>, <<"[", "[", "A", "A", "]", "x", "]">>}
PiecesOrLong == Pieces \cup Short \cup Long
Overfull == {<<"[", "A", "]", "[", "A", "1", "]">>}

partVars == <<part, relayVars>>

PartInit ==
    \/ part = "relay" /\ RelayInit
    \/ /\ part = "buffer" /\ Init       \* after a relay that its client left
       /\ sent = <<>> /\ read = 0 /\ got = <<>>
       /\ upstream = "open" /\ relay = "left" /\ features = {"stop"}

PartNext ==
    /\ UNCHANGED part
    /\ \/ part = "relay" /\ RelayNext /\ LastSent'.txt \in Pieces \cup Overfull \cup {<<>>, Token}
       \/ /\ part = "buffer" /\ Next /\ Suffix(fed', Len(fed) + 1) \in {<<>>} \cup Short \cup Long
          /\ UNCHANGED <<sent, read, got, upstream, relay, features>>

PartSpec == PartInit /\ [][PartNext]_partVars /\ Fairness
===============================================================================
