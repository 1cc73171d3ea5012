----------------------------- MODULE EngineProofs -----------------------------
(***************************************************************************)
(* What of the Engine outlives a request.                                  *)
(*                                                                         *)
(* SharedSession, for any number of threads, any values and categories:    *)
(* under the engine lock the statements of encode do not mix, so tokens    *)
(* keep the value they were given for and the steps add up to              *)
(* registrations of the abstract store.                                    *)
(*                                                                         *)
(* Stage2Runner, for any number of calls: no answer is taken for another   *)
(* text than its own, nothing is left over for the next call, and a worker *)
(* that was warmed up serves until it leaves or fails.                     *)
(***************************************************************************)
EXTENDS SharedSession, Stage2Runner, TLAPS

-----------------------------------------------------------------------------
(* The session map, statement by statement.                                *)

Encoding == {"lookup", "load", "store", "index", "forward", "reverse"}
Labels == {"idle", "masking", "masked"} \cup Encoding

SharedTypeOK ==
    /\ TypeOK
    /\ pc \in [Threads -> Labels] /\ tmp \in [Threads -> Nat]
    /\ DOMAIN arg = Threads /\ got \in [Threads -> SUBSET (Values \X Tokens)]
    /\ \A th \in Threads : pc[th] \in Encoding => arg[th] \in Arg

(* Who masks holds the lock. *)
Mutex == \A th \in Threads : pc[th] \notin {"idle", "masked"} => lock = th

(* Between its two assignments encode leaves a value with a token that the   *)
(* reverse dictionary does not have yet; there is no other gap.              *)
HalfPut(th, v) == pc[th] = "reverse" /\ arg[th].value = v /\ v2p[v] = TokenFor(th)
AlmostInverse ==
    /\ \A t \in DOMAIN p2v : p2v[t] \in DOMAIN v2p /\ v2p[p2v[t]] = t
    /\ \A v \in DOMAIN v2p : \/ v2p[v] \in DOMAIN p2v /\ p2v[v2p[v]] = v
                             \/ \E th \in Threads : HalfPut(th, v)

(* What a thread knows of the dictionaries from its earlier statements is    *)
(* still true: the value has no token, the counter is the one it loaded or   *)
(* stored, and nobody has a token with that index.                           *)
Taken(c, n) == \E t \in DOMAIN p2v : t.cat = c /\ t.idx = n
KnowsCounter(th) == tmp[th] = counters[arg[th].category]
Knows(th) ==
    /\ pc[th] \in {"load", "store", "index", "forward"} => arg[th].value \notin DOMAIN v2p
    /\ pc[th] \in {"store", "forward", "reverse"} => KnowsCounter(th)
    /\ pc[th] \in {"index", "forward", "reverse"} =>
           /\ counters[arg[th].category] # 0
           /\ ~ Taken(arg[th].category, counters[arg[th].category])
    /\ pc[th] = "reverse" => /\ arg[th].value \in DOMAIN v2p
                             /\ v2p[arg[th].value] = TokenFor(th)
KnowsStillTrue == \A th \in Threads : Knows(th)

SharedInv ==
    SharedTypeOK /\ Mutex /\ AlmostInverse /\ IndexOnce /\ KnowsStillTrue /\ OwnTokenDecodes

-----------------------------------------------------------------------------
(* A step of th leaves the label of every other thread alone. *)
LEMMA GotoFacts ==
    ASSUME SharedTypeOK, NEW th \in Threads, NEW l \in Labels, Goto(th, l)
    PROVE  /\ pc' \in [Threads -> Labels] /\ pc'[th] = l
           /\ \A o \in Threads \ {th} : pc'[o] = pc[o]
BY DEF SharedTypeOK, Goto

(* While one thread is masking no other one is. *)
LEMMA OthersOut ==
    ASSUME SharedInv, NEW th \in Threads, pc[th] \notin {"idle", "masked"}
    PROVE  \A o \in Threads \ {th} : pc[o] \in {"idle", "masked"}
BY DEF SharedInv, Mutex

(* Outside of the call a thread knows nothing that could become false. *)
LEMMA IdleKnows ==
    ASSUME NEW th, pc[th] \in {"idle", "masking", "masked", "lookup"}
    PROVE  Knows(th)
BY DEF Knows

LEMMA SharedInitInv == SharedInit => SharedInv
<1> SUFFICES ASSUME SharedInit PROVE SharedInv
  OBVIOUS
<1>1. DOMAIN v2p = {} /\ DOMAIN p2v = {} /\ v2p \in [{} -> Tokens] /\ p2v \in [{} -> Values]
  BY DEF SharedInit, Init, Empty
<1>2. \A th \in Threads : pc[th] = "idle" /\ got[th] = {}
  BY DEF SharedInit
<1>3. SharedTypeOK
  BY <1>1, <1>2 DEF SharedInit, Init, SharedTypeOK, TypeOK, Labels, Encoding
<1> QED BY <1>1, <1>2, <1>3, IdleKnows
        DEF SharedInv, Mutex, AlmostInverse, IndexOnce, KnowsStillTrue, OwnTokenDecodes

-----------------------------------------------------------------------------
(* The steps that leave the dictionaries and counters alone. *)
LEMMA BeginInv ==
    ASSUME UseLock, SharedInv, NEW th \in Threads, Begin(th) PROVE SharedInv'
<1> USE DEF SharedInv, Begin
<1>1. Goto(th, "masking") /\ "masking" \in Labels
  BY DEF Labels
<1>2. /\ pc' \in [Threads -> Labels] /\ pc'[th] = "masking"
      /\ \A o \in Threads \ {th} : pc'[o] = pc[o]
  BY <1>1, GotoFacts
<1>3. SharedTypeOK'
  BY <1>2 DEF SharedTypeOK, TypeOK, vars, Encoding
<1>4. Mutex'
  BY <1>2, SharedAssumption DEF Mutex
<1>5. AlmostInverse'
  BY <1>2 DEF AlmostInverse, HalfPut, TokenFor, vars
<1>6. KnowsStillTrue'
  BY <1>2 DEF KnowsStillTrue, Knows, KnowsCounter, Taken, TokenFor, vars
<1> QED BY <1>3, <1>4, <1>5, <1>6 DEF IndexOnce, OwnTokenDecodes, vars

LEMMA CallEncodeInv ==
    ASSUME SharedInv, NEW th \in Threads, CallEncode(th) PROVE SharedInv'
<1> USE DEF SharedInv, CallEncode
<1>1. Goto(th, "lookup") /\ "lookup" \in Labels
  BY DEF Labels, Encoding
<1>2. /\ pc' \in [Threads -> Labels] /\ pc'[th] = "lookup"
      /\ \A o \in Threads \ {th} : pc'[o] = pc[o]
  BY <1>1, GotoFacts
<1>3. /\ DOMAIN arg' = Threads /\ arg'[th] \in Arg
      /\ \A o \in Threads \ {th} : arg'[o] = arg[o]
  BY DEF SharedTypeOK
<1>4. SharedTypeOK'
  BY <1>2, <1>3 DEF SharedTypeOK, TypeOK, vars, Arg
<1>5. Mutex'
  BY <1>2 DEF Mutex
<1>6. AlmostInverse'
  BY <1>2, <1>3 DEF AlmostInverse, HalfPut, TokenFor, vars
<1>7. KnowsStillTrue'
  <2>1. Knows(th)'
    BY <1>2 DEF Knows
  <2>2. \A o \in Threads \ {th} : Knows(o)'
    BY <1>2, <1>3 DEF KnowsStillTrue, Knows, KnowsCounter, Taken, TokenFor, vars
  <2> QED BY <2>1, <2>2 DEF KnowsStillTrue
<1> QED BY <1>4, <1>5, <1>6, <1>7 DEF IndexOnce, OwnTokenDecodes, vars

(* A value that has a token is answered with it, and since nobody else is    *)
(* between the two assignments that token decodes to it.                     *)
LEMMA LookupInv ==
    ASSUME SharedInv, NEW th \in Threads, Lookup(th) PROVE SharedInv'
<1> USE DEF SharedInv, Lookup
<1>1. PICK l \in {"masking", "load"} :
          /\ Goto(th, l)
          /\ l = "load" => got' = got /\ arg[th].value \notin DOMAIN v2p
          /\ l = "masking" => /\ arg[th].value \in DOMAIN v2p
                              /\ got' = [got EXCEPT ![th] = @ \cup {<<arg[th].value, v2p[arg[th].value]>>}]
  BY DEF Return
<1>2. /\ pc' \in [Threads -> Labels] /\ pc'[th] = l
      /\ \A o \in Threads \ {th} : pc'[o] = pc[o]
  BY <1>1, GotoFacts DEF Labels, Encoding
<1>3. \A o \in Threads : pc[o] # "reverse"
  BY OthersOut
<1>4. arg[th] \in Arg
  BY DEF SharedTypeOK, Encoding
<1>5. l = "masking" => /\ v2p[arg[th].value] \in DOMAIN p2v
                       /\ p2v[v2p[arg[th].value]] = arg[th].value
                       /\ v2p[arg[th].value] \in Tokens
  BY <1>1, <1>3 DEF AlmostInverse, HalfPut, SharedTypeOK, TypeOK
<1>6. SharedTypeOK'
  <2>1. got' \in [Threads -> SUBSET (Values \X Tokens)]
    BY <1>1, <1>4, <1>5 DEF SharedTypeOK, Arg
  <2> QED BY <1>2, <1>4, <2>1 DEF SharedTypeOK, TypeOK, vars
<1>7. Mutex'
  BY <1>1, <1>2 DEF Mutex
<1>8. AlmostInverse'
  BY <1>2, <1>3 DEF AlmostInverse, HalfPut, vars
<1>9. KnowsStillTrue'
  BY <1>1, <1>2 DEF KnowsStillTrue, Knows, KnowsCounter, Taken, TokenFor, vars
<1>10. OwnTokenDecodes'
  BY <1>1, <1>5 DEF OwnTokenDecodes, SharedTypeOK, vars
<1> QED BY <1>6, <1>7, <1>8, <1>9, <1>10 DEF IndexOnce, vars

LEMMA LoadCounterInv ==
    ASSUME SharedInv, NEW th \in Threads, LoadCounter(th) PROVE SharedInv'
<1> USE DEF SharedInv, LoadCounter
<1>1. Goto(th, "store") /\ "store" \in Labels
  BY DEF Labels, Encoding
<1>2. /\ pc' \in [Threads -> Labels] /\ pc'[th] = "store"
      /\ \A o \in Threads \ {th} : pc'[o] = pc[o]
  BY <1>1, GotoFacts
<1>3. arg[th] \in Arg /\ counters[arg[th].category] \in Nat
  BY DEF SharedTypeOK, TypeOK, Encoding, Arg
<1>4. /\ tmp' \in [Threads -> Nat] /\ tmp'[th] = counters[arg[th].category]
      /\ \A o \in Threads \ {th} : tmp'[o] = tmp[o]
  BY <1>3 DEF SharedTypeOK
<1>5. SharedTypeOK'
  BY <1>2, <1>3, <1>4 DEF SharedTypeOK, TypeOK, vars
<1>6. Mutex'
  BY <1>2 DEF Mutex
<1>7. AlmostInverse'
  BY <1>2, <1>4 DEF AlmostInverse, HalfPut, TokenFor, vars
<1>8. KnowsStillTrue'
  <2>1. Knows(th)'
    BY <1>2, <1>4 DEF KnowsStillTrue, Knows, KnowsCounter, vars
  <2>2. \A o \in Threads \ {th} : Knows(o)'
    BY <1>2, <1>4 DEF KnowsStillTrue, Knows, KnowsCounter, Taken, TokenFor, vars
  <2> QED BY <2>1, <2>2 DEF KnowsStillTrue
<1> QED BY <1>5, <1>6, <1>7, <1>8 DEF IndexOnce, OwnTokenDecodes, vars

LEMMA TakeIndexInv ==
    ASSUME SharedInv, NEW th \in Threads, TakeIndex(th) PROVE SharedInv'
<1> USE DEF SharedInv, TakeIndex
<1>1. Goto(th, "forward") /\ "forward" \in Labels
  BY DEF Labels, Encoding
<1>2. /\ pc' \in [Threads -> Labels] /\ pc'[th] = "forward"
      /\ \A o \in Threads \ {th} : pc'[o] = pc[o]
  BY <1>1, GotoFacts
<1>3. arg[th] \in Arg /\ counters[arg[th].category] \in Nat
  BY DEF SharedTypeOK, TypeOK, Encoding, Arg
<1>4. /\ tmp' \in [Threads -> Nat] /\ tmp'[th] = counters[arg[th].category]
      /\ \A o \in Threads \ {th} : tmp'[o] = tmp[o]
  BY <1>3 DEF SharedTypeOK
<1>5. SharedTypeOK'
  BY <1>2, <1>3, <1>4 DEF SharedTypeOK, TypeOK, vars
<1>6. Mutex'
  BY <1>2 DEF Mutex
<1>7. AlmostInverse'
  BY <1>2, <1>4 DEF AlmostInverse, HalfPut, TokenFor, vars
<1>8. KnowsStillTrue'
  <2>1. Knows(th)'
    BY <1>2, <1>4 DEF KnowsStillTrue, Knows, KnowsCounter, Taken, vars
  <2>2. \A o \in Threads \ {th} : Knows(o)'
    BY <1>2, <1>4 DEF KnowsStillTrue, Knows, KnowsCounter, Taken, TokenFor, vars
  <2> QED BY <2>1, <2>2 DEF KnowsStillTrue
<1> QED BY <1>5, <1>6, <1>7, <1>8 DEF IndexOnce, OwnTokenDecodes, vars

LEMMA ReleaseInv ==
    ASSUME UseLock, SharedInv, NEW th \in Threads, Release(th) PROVE SharedInv'
<1> USE DEF SharedInv, Release
<1>1. Goto(th, "masked") /\ "masked" \in Labels
  BY DEF Labels
<1>2. /\ pc' \in [Threads -> Labels] /\ pc'[th] = "masked"
      /\ \A o \in Threads \ {th} : pc'[o] = pc[o]
  BY <1>1, GotoFacts
<1>3. SharedTypeOK'
  BY <1>2 DEF SharedTypeOK, TypeOK, vars, Encoding
<1>4. Mutex'
  BY <1>2, OthersOut DEF Mutex
<1>5. AlmostInverse'
  BY <1>2 DEF AlmostInverse, HalfPut, TokenFor, vars
<1>6. KnowsStillTrue'
  BY <1>2 DEF KnowsStillTrue, Knows, KnowsCounter, Taken, TokenFor, vars
<1> QED BY <1>3, <1>4, <1>5, <1>6 DEF IndexOnce, OwnTokenDecodes, vars

LEMMA FinishInv ==
    ASSUME SharedInv, NEW th \in Threads, Finish(th) PROVE SharedInv'
<1> USE DEF SharedInv, Finish
<1>1. Goto(th, "idle") /\ "idle" \in Labels
  BY DEF Labels
<1>2. /\ pc' \in [Threads -> Labels] /\ pc'[th] = "idle"
      /\ \A o \in Threads \ {th} : pc'[o] = pc[o]
  BY <1>1, GotoFacts
<1>3. got' \in [Threads -> SUBSET (Values \X Tokens)] /\ \A o \in Threads : got'[o] \subseteq got[o]
  BY DEF SharedTypeOK
<1>4. SharedTypeOK'
  BY <1>2, <1>3 DEF SharedTypeOK, TypeOK, vars, Encoding
<1>5. Mutex'
  BY <1>2 DEF Mutex
<1>6. AlmostInverse'
  BY <1>2 DEF AlmostInverse, HalfPut, TokenFor, vars
<1>7. KnowsStillTrue'
  BY <1>2 DEF KnowsStillTrue, Knows, KnowsCounter, Taken, TokenFor, vars
<1> QED BY <1>3, <1>4, <1>5, <1>6, <1>7 DEF IndexOnce, OwnTokenDecodes, vars

-----------------------------------------------------------------------------
(* The steps that write.  The others are out of encode, so what they know    *)
(* of the counters and dictionaries is nothing.                              *)
LEMMA OthersKnow ==
    ASSUME SharedInv, NEW th \in Threads, pc[th] \notin {"idle", "masked"}, Knows(th)',
           \A o \in Threads \ {th} : pc'[o] = pc[o]
    PROVE  KnowsStillTrue'
<1>1. \A o \in Threads \ {th} : pc'[o] \in {"idle", "masked"}
  BY OthersOut
<1>2. \A o \in Threads \ {th} : Knows(o)'
  BY <1>1 DEF Knows
<1> QED BY <1>2 DEF KnowsStillTrue

LEMMA StoreCounterInv ==
    ASSUME SharedInv, NEW th \in Threads, StoreCounter(th) PROVE SharedInv'
<1> USE DEF SharedInv, StoreCounter
<1> DEFINE c == arg[th].category
<1>1. Goto(th, "index") /\ "index" \in Labels
  BY DEF Labels, Encoding
<1>2. /\ pc' \in [Threads -> Labels] /\ pc'[th] = "index"
      /\ \A o \in Threads \ {th} : pc'[o] = pc[o]
  BY <1>1, GotoFacts
<1>3. arg[th] \in Arg /\ c \in Categories /\ counters \in [Categories -> Nat]
  BY DEF SharedTypeOK, TypeOK, Encoding, Arg
<1>4. tmp[th] = counters[c]
  BY DEF KnowsStillTrue, Knows, KnowsCounter
<1>5. /\ counters' \in [Categories -> Nat] /\ counters'[c] = counters[c] + 1
      /\ \A d \in Categories : counters[d] <= counters'[d]
  BY <1>3, <1>4
<1>6. \A t \in DOMAIN p2v : t.cat \in Categories /\ t.idx \in Nat /\ t.idx <= counters[t.cat]
  BY DEF SharedTypeOK, TypeOK, Tokens, IndexOnce
<1>7. SharedTypeOK'
  BY <1>2, <1>3, <1>5 DEF SharedTypeOK, TypeOK
<1>8. Mutex'
  BY <1>2 DEF Mutex
<1>9. AlmostInverse'
  BY <1>2 DEF AlmostInverse, HalfPut, TokenFor
<1>10. IndexOnce'
  <2>1. \A t \in DOMAIN p2v : t.idx <= counters'[t.cat]
    BY <1>3, <1>5, <1>6
  <2> QED BY <2>1 DEF IndexOnce
<1>11. KnowsStillTrue'
  <2>1. counters'[c] # 0
    BY <1>3, <1>5
  <2>2. ~ \E t \in DOMAIN p2v : t.cat = c /\ t.idx = counters'[c]
    BY <1>3, <1>5, <1>6
  <2>3. Knows(th)'
    BY <1>2, <2>1, <2>2 DEF KnowsStillTrue, Knows, Taken
  <2> QED BY <1>2, <2>3, OthersKnow
<1> QED BY <1>7, <1>8, <1>9, <1>10, <1>11 DEF OwnTokenDecodes

(* The token a thread is about to put is a token, and new. *)
LEMMA TokenForFresh ==
    ASSUME SharedInv, NEW th \in Threads, pc[th] \in {"forward", "reverse"}
    PROVE  TokenFor(th) \in Tokens /\ TokenFor(th) \notin DOMAIN p2v
<1> DEFINE c == arg[th].category
<1>1. /\ arg[th] \in Arg /\ tmp[th] = counters[c] /\ counters[c] # 0 /\ ~ Taken(c, counters[c])
      /\ counters \in [Categories -> Nat]
  BY DEF SharedInv, SharedTypeOK, TypeOK, Encoding, KnowsStillTrue, Knows, KnowsCounter
<1>2. tmp[th] \in Nat \ {0} /\ c \in Categories /\ arg[th].blocked \in BOOLEAN
  BY <1>1 DEF Arg
<1> QED BY <1>1, <1>2 DEF TokenFor, TokenOf, Tokens, Taken

LEMMA PutForwardInv ==
    ASSUME SharedInv, NEW th \in Threads, PutForward(th) PROVE SharedInv'
<1> USE DEF SharedInv, PutForward
<1> DEFINE v == arg[th].value
           t == TokenFor(th)
<1>1. Goto(th, "reverse") /\ "reverse" \in Labels
  BY DEF Labels, Encoding
<1>2. /\ pc' \in [Threads -> Labels] /\ pc'[th] = "reverse"
      /\ \A o \in Threads \ {th} : pc'[o] = pc[o]
  BY <1>1, GotoFacts
<1>3. arg[th] \in Arg /\ v \in Values
  BY DEF SharedTypeOK, Encoding, Arg
<1>4. t \in Tokens /\ t' = t
  BY TokenForFresh DEF TokenFor
<1>5. v \notin DOMAIN v2p
  BY DEF KnowsStillTrue, Knows
<1>6. /\ DOMAIN v2p' = DOMAIN v2p \cup {v} /\ v2p'[v] = t
      /\ \A y \in DOMAIN v2p : v2p'[y] = v2p[y]
      /\ v2p' = [y \in DOMAIN v2p' |-> v2p'[y]]
  <2>1. v2p' = Put(v2p, v, t)
    OBVIOUS
  <2> QED BY <1>5, <2>1 DEF Put
<1>7. SharedTypeOK'
  <2>1. DOMAIN v2p' \subseteq Values /\ v2p' \in [DOMAIN v2p' -> Tokens]
    BY <1>3, <1>4, <1>6 DEF SharedTypeOK, TypeOK
  <2> QED BY <1>2, <1>3, <2>1 DEF SharedTypeOK, TypeOK
<1>8. Mutex'
  BY <1>2 DEF Mutex
<1>9. AlmostInverse'
  <2>1. \A s \in DOMAIN p2v : p2v[s] \in DOMAIN v2p' /\ v2p'[p2v[s]] = s
    BY <1>6 DEF AlmostInverse
  <2>2. \A y \in DOMAIN v2p : v2p[y] \in DOMAIN p2v /\ p2v[v2p[y]] = y
    BY OthersOut DEF AlmostInverse, HalfPut
  <2>3. HalfPut(th, v)'
    BY <1>2, <1>4, <1>6 DEF HalfPut
  <2> QED BY <1>6, <2>1, <2>2, <2>3 DEF AlmostInverse
<1>10. KnowsStillTrue'
  <2>1. Knows(th)'
    BY <1>2, <1>4, <1>6 DEF KnowsStillTrue, Knows, KnowsCounter, Taken
  <2> QED BY <1>2, <2>1, OthersKnow
<1> QED BY <1>7, <1>8, <1>9, <1>10 DEF IndexOnce, OwnTokenDecodes

LEMMA PutReverseFacts ==
    ASSUME SharedInv, NEW th \in Threads, PutReverse(th)
    PROVE  /\ arg[th].value \in Values
           /\ TokenFor(th) \in Tokens /\ TokenFor(th) \notin DOMAIN p2v
           /\ DOMAIN p2v' = DOMAIN p2v \cup {TokenFor(th)} /\ p2v'[TokenFor(th)] = arg[th].value
           /\ \A s \in DOMAIN p2v : p2v'[s] = p2v[s]
           /\ p2v' = [s \in DOMAIN p2v' |-> p2v'[s]]
           /\ arg[th].value \in DOMAIN v2p /\ v2p[arg[th].value] = TokenFor(th)
<1>1. arg[th].value \in Values
  BY DEF SharedInv, SharedTypeOK, PutReverse, Encoding, Arg
<1>2. TokenFor(th) \in Tokens /\ TokenFor(th) \notin DOMAIN p2v
  BY TokenForFresh DEF PutReverse
<1>3. p2v' = Put(p2v, TokenFor(th), arg[th].value)
  BY DEF PutReverse
<1>4. arg[th].value \in DOMAIN v2p /\ v2p[arg[th].value] = TokenFor(th)
  BY DEF SharedInv, PutReverse, KnowsStillTrue, Knows
<1>5. /\ DOMAIN p2v' = DOMAIN p2v \cup {TokenFor(th)} /\ p2v'[TokenFor(th)] = arg[th].value
      /\ \A s \in DOMAIN p2v : p2v'[s] = p2v[s]
      /\ p2v' = [s \in DOMAIN p2v' |-> p2v'[s]]
  BY <1>2, <1>3 DEF Put
<1> QED BY <1>1, <1>2, <1>4, <1>5

LEMMA PutReverseInv ==
    ASSUME SharedInv, NEW th \in Threads, PutReverse(th) PROVE SharedInv'
<1> USE DEF SharedInv, PutReverse
<1> DEFINE v == arg[th].value
           t == TokenFor(th)
           c == arg[th].category
<1>1. Goto(th, "masking") /\ "masking" \in Labels
  BY DEF Return, Labels
<1>2. /\ pc' \in [Threads -> Labels] /\ pc'[th] = "masking"
      /\ \A o \in Threads \ {th} : pc'[o] = pc[o]
  BY <1>1, GotoFacts
<1>3. /\ v \in Values /\ t \in Tokens /\ t \notin DOMAIN p2v
      /\ DOMAIN p2v' = DOMAIN p2v \cup {t} /\ p2v'[t] = v
      /\ \A s \in DOMAIN p2v : p2v'[s] = p2v[s]
      /\ p2v' = [s \in DOMAIN p2v' |-> p2v'[s]]
      /\ v \in DOMAIN v2p /\ v2p[v] = t
  BY PutReverseFacts
<1>4. got' = [got EXCEPT ![th] = @ \cup {<<v, t>>}]
  BY DEF Return
<1>5. SharedTypeOK'
  <2>1. DOMAIN p2v' \subseteq Tokens /\ p2v' \in [DOMAIN p2v' -> Values]
    BY <1>3 DEF SharedTypeOK, TypeOK
  <2>2. got' \in [Threads -> SUBSET (Values \X Tokens)]
    BY <1>3, <1>4 DEF SharedTypeOK
  <2> QED BY <1>2, <2>1, <2>2 DEF SharedTypeOK, TypeOK, Encoding
<1>6. Mutex'
  BY <1>2 DEF Mutex
<1>7. AlmostInverse'
  <2>1. \A s \in DOMAIN p2v' : p2v'[s] \in DOMAIN v2p /\ v2p[p2v'[s]] = s
    BY <1>3 DEF AlmostInverse
  <2>2. \A y \in DOMAIN v2p \ {v} : v2p[y] \in DOMAIN p2v /\ p2v[v2p[y]] = y
    BY OthersOut DEF AlmostInverse, HalfPut
  <2> QED BY <1>3, <2>1, <2>2 DEF AlmostInverse
<1>8. IndexOnce'
  <2>1. t.cat = c /\ t.idx = counters[c] /\ counters[c] \in Nat /\ ~ Taken(c, counters[c])
    BY DEF KnowsStillTrue, Knows, KnowsCounter, TokenFor, TokenOf, SharedTypeOK, TypeOK, Encoding, Arg
  <2>2. \A s \in DOMAIN p2v' : s.idx <= counters[s.cat]
    BY <1>3, <2>1 DEF IndexOnce
  <2>3. \A s, u \in DOMAIN p2v' : s.cat = u.cat /\ s.idx = u.idx => s = u
    BY <1>3, <2>1 DEF IndexOnce, Taken
  <2> QED BY <2>2, <2>3 DEF IndexOnce
<1>9. KnowsStillTrue'
  <2>1. Knows(th)'
    BY <1>2 DEF Knows
  <2> QED BY <1>2, <2>1, OthersKnow
<1>10. OwnTokenDecodes'
  BY <1>3, <1>4 DEF OwnTokenDecodes, SharedTypeOK
<1> QED BY <1>5, <1>6, <1>7, <1>8, <1>9, <1>10

-----------------------------------------------------------------------------
LEMMA SharedNextInv == UseLock /\ SharedInv /\ [SharedNext]_sharedVars => SharedInv'
<1> SUFFICES ASSUME UseLock, SharedInv, [SharedNext]_sharedVars PROVE SharedInv'
  OBVIOUS
<1>1. CASE UNCHANGED sharedVars
  BY <1>1 DEF sharedVars, SharedInv, SharedTypeOK, TypeOK, Mutex, AlmostInverse, HalfPut, TokenFor,
              IndexOnce, KnowsStillTrue, Knows, KnowsCounter, Taken, OwnTokenDecodes
<1>2. ASSUME NEW th \in Threads, Step(th) PROVE SharedInv'
  BY <1>2, BeginInv, CallEncodeInv, LookupInv, LoadCounterInv, StoreCounterInv, TakeIndexInv,
     PutForwardInv, PutReverseInv, ReleaseInv, FinishInv DEF Step
<1> QED BY <1>1, <1>2 DEF SharedNext

(* SharedInv holds in every state that threads under the lock can reach.     *)
THEOREM SharedInvariance == UseLock => (SharedSpec => []SharedInv)
<1> SUFFICES ASSUME UseLock PROVE SharedSpec => []SharedInv
  OBVIOUS
<1>1. SharedInv /\ [SharedNext]_sharedVars => SharedInv'
  BY SharedNextInv
<1> QED BY <1>1, SharedInitInv, PTL DEF SharedSpec

(* With the lock a request's tokens decode to its own values, whatever other *)
(* threads mask before its reply is restored.                                *)
THEOREM OwnTokensDecode == UseLock => (SharedSpec => []OwnTokenDecodes)
<1>1. SharedInv => OwnTokenDecodes
  BY DEF SharedInv
<1> QED BY <1>1, SharedInvariance, PTL

(* One step is seen from outside as a registration or not at all: only the   *)
(* second assignment of encode adds a pair.                                  *)
LEMMA SharedStepAbstract ==
    SharedInv /\ [SharedNext]_sharedVars => [Abstract!Next]_Pairs
<1> SUFFICES ASSUME SharedInv, [SharedNext]_sharedVars PROVE [Abstract!Next]_Pairs
  OBVIOUS
<1>1. CASE p2v' = p2v
  BY <1>1 DEF Pairs
<1>2. ASSUME NEW th \in Threads, PutReverse(th) PROVE Abstract!Next
  <2> DEFINE v == arg[th].value
             t == TokenFor(th)
  <2>1. /\ v \in Values /\ t \in Tokens /\ t \notin DOMAIN p2v
        /\ DOMAIN p2v' = DOMAIN p2v \cup {t} /\ p2v'[t] = v
        /\ \A s \in DOMAIN p2v : p2v'[s] = p2v[s]
        /\ v \in DOMAIN v2p /\ v2p[v] = t
    BY <1>2, PutReverseFacts
  <2>2. Pairs' = Pairs \cup {<<v, t>>}
    BY <2>1 DEF Pairs
  <2>3. v \notin Abstract!Named
    BY <2>1 DEF Abstract!Named, Pairs, SharedInv, AlmostInverse
  <2>4. t \notin Abstract!Used
    BY <2>1 DEF Abstract!Used, Pairs
  <2>5. Abstract!Register(<<v, t>>) /\ <<v, t>> \in Pairs'
    BY <2>1, <2>2, <2>3, <2>4 DEF Abstract!Register
  <2> QED BY <2>5 DEF Abstract!Next
<1>3. ASSUME NEW th \in Threads, Step(th) PROVE p2v' = p2v \/ PutReverse(th)
  BY <1>3 DEF Step, Begin, CallEncode, Lookup, LoadCounter, StoreCounter, TakeIndex, PutForward,
              Release, Finish, vars
<1> QED BY <1>1, <1>2, <1>3 DEF SharedNext, sharedVars

(* With the lock the separate statements of encode, of any number of threads,*)
(* implement the atomic registrations of the abstract store.                 *)
THEOREM StepsAreAtomic == UseLock => (SharedSpec => StepsAtomic)
<1> SUFFICES ASSUME UseLock PROVE SharedSpec => StepsAtomic
  OBVIOUS
<1>1. SharedInit => Abstract!Init
  BY DEF SharedInit, Init, Empty, Abstract!Init, Pairs
<1>2. SharedSpec => []SharedInv
  BY SharedInvariance
<1> QED BY <1>1, <1>2, SharedStepAbstract, PTL DEF SharedSpec, StepsAtomic, Abstract!Spec

-----------------------------------------------------------------------------
(* The Stage-2 runner.                                                     *)

RunnerTypeOK ==
    /\ phase \in {"idle", "send", "wait", "reset"} /\ kind \in {"warmup", "scan"}
    /\ calls \in Nat /\ answered \in Nat /\ result \in {"none", "ok", "gap"}
    /\ worker \in {"none", "cold", "warm", "dead"}
    /\ hand \in Nat /\ reqQ \in Nat /\ respQ \in Nat /\ respOk \in BOOLEAN
    /\ slow \in BOOLEAN /\ warmed \in BOOLEAN /\ idled \in BOOLEAN /\ fault \in BOOLEAN

(* One text is on its way at most, in one of the two queues or at the        *)
(* worker's hand: that of the call that waits or gives up.                   *)
OneInFlight ==
    /\ phase \in {"idle", "send"} => reqQ = 0 /\ hand = 0 /\ respQ = 0
    /\ {reqQ, hand, respQ} \subseteq {0, calls}
    /\ (reqQ = 0 /\ hand = 0) \/ (reqQ = 0 /\ respQ = 0) \/ (hand = 0 /\ respQ = 0)

(* As long as no worker has left and nothing has failed, who answers has its *)
(* model and answers well; after a warmup it is there, and nobody gave up on *)
(* it.                                                                       *)
Unharmed == ~ idled /\ ~ fault
StaysWarm ==
    /\ Unharmed /\ respQ # 0 => respOk /\ worker = "warm"
    /\ Unharmed /\ warmed => worker = "warm" /\ phase # "reset" /\ result # "gap"

RunnerInv == RunnerTypeOK /\ OneInFlight /\ OwnAnswer /\ StaysWarm

-----------------------------------------------------------------------------
LEMMA RunnerInitInv == RunnerInit => RunnerInv
<1> SUFFICES ASSUME RunnerInit PROVE RunnerInv
  OBVIOUS
<1>1. RunnerTypeOK
  BY DEF RunnerInit, RunnerTypeOK
<1>2. OneInFlight /\ OwnAnswer
  BY DEF RunnerInit, OneInFlight, OwnAnswer
<1>3. StaysWarm
  BY DEF RunnerInit, StaysWarm
<1> QED BY <1>1, <1>2, <1>3 DEF RunnerInv

(* The caller's steps. *)
LEMMA CallInv ==
    ASSUME RunnerInv, NEW k \in {"warmup", "scan"}, Call(k) PROVE RunnerInv'
<1> USE DEF RunnerInv
<1>1. /\ phase = "idle" /\ phase' = "send" /\ kind' = k /\ calls' = calls + 1
      /\ UNCHANGED <<result, answered, slow, warmed, idled, fault>>
  BY DEF Call, history
<1>2. reqQ = 0 /\ hand = 0 /\ respQ = 0
  BY <1>1 DEF OneInFlight
<1>3. CASE Alive
  <2>1. UNCHANGED <<worker, hand, reqQ, respQ, respOk>>
    BY <1>3 DEF Call, EnsureWorkerAlive, workerVars
  <2> QED BY <1>1, <1>2, <2>1 DEF RunnerTypeOK, OneInFlight, OwnAnswer, StaysWarm, Unharmed
<1>4. CASE ~ Alive
  <2>1. worker' = "cold" /\ hand' = 0 /\ reqQ' = 0 /\ respQ' = 0 /\ respOk' = FALSE
    BY <1>4 DEF Call, EnsureWorkerAlive, FreshQueues
  <2>2. ~ (Unharmed /\ warmed)
    BY <1>4 DEF StaysWarm, Alive
  <2>3. RunnerTypeOK'
    <3>1. respOk' \in BOOLEAN
      BY <2>1, Zenon
    <3>2. {slow', warmed', idled', fault'} \subseteq BOOLEAN
      BY <1>1 DEF RunnerTypeOK
    <3> QED BY <1>1, <2>1, <3>1, <3>2 DEF RunnerTypeOK
  <2>4. OneInFlight' /\ OwnAnswer'
    BY <1>1, <2>1 DEF OneInFlight, OwnAnswer
  <2>5. StaysWarm'
    BY <1>1, <2>1, <2>2 DEF StaysWarm, Unharmed
  <2> QED BY <2>3, <2>4, <2>5
<1> QED BY <1>3, <1>4

LEMMA StartFailsInv == ASSUME RunnerInv, StartFails PROVE RunnerInv'
BY DEF RunnerInv, RunnerTypeOK, OneInFlight, OwnAnswer, StaysWarm, Unharmed, StartFails, workerVars

LEMMA SendInv == ASSUME RunnerInv, Send PROVE RunnerInv'
BY DEF RunnerInv, RunnerTypeOK, OneInFlight, OwnAnswer, StaysWarm, Unharmed, Send, history

LEMMA ReceiveInv == ASSUME RunnerInv, Receive PROVE RunnerInv'
BY DEF RunnerInv, RunnerTypeOK, OneInFlight, OwnAnswer, StaysWarm, Unharmed, Receive

LEMMA WaitFailsInv == ASSUME RunnerInv, WaitFails PROVE RunnerInv'
BY DEF RunnerInv, RunnerTypeOK, OneInFlight, OwnAnswer, StaysWarm, Unharmed, WaitFails, workerVars

LEMMA SendFailsInv == ASSUME RunnerInv, SendFails PROVE RunnerInv'
BY DEF RunnerInv, RunnerTypeOK, OneInFlight, OwnAnswer, StaysWarm, Unharmed, SendFails, workerVars

LEMMA ResetWorkerInv == ASSUME RunnerInv, ResetWorker PROVE RunnerInv'
BY DEF RunnerInv, RunnerTypeOK, OneInFlight, OwnAnswer, StaysWarm, Unharmed,
       ResetWorker, FreshQueues, history

LEMMA CloseInv == ASSUME RunnerInv, Close PROVE RunnerInv'
BY DEF RunnerInv, RunnerTypeOK, OneInFlight, OwnAnswer, StaysWarm, Unharmed,
       Close, FreshQueues, caller

(* The worker's steps, at any moment of a call. *)
LEMMA TakeInv == ASSUME RunnerInv, Take PROVE RunnerInv'
BY DEF RunnerInv, RunnerTypeOK, OneInFlight, OwnAnswer, StaysWarm, Unharmed,
       Take, caller, history

LEMMA LoadModelInv == ASSUME RunnerInv, LoadModel PROVE RunnerInv'
BY DEF RunnerInv, RunnerTypeOK, OneInFlight, OwnAnswer, StaysWarm, Unharmed,
       LoadModel, caller, history

LEMMA AnswerInv == ASSUME RunnerInv, Answer PROVE RunnerInv'
BY DEF RunnerInv, RunnerTypeOK, OneInFlight, OwnAnswer, StaysWarm, Unharmed,
       Answer, Respond, caller

LEMMA AnswerErrorInv == ASSUME RunnerInv, AnswerError PROVE RunnerInv'
BY DEF RunnerInv, RunnerTypeOK, OneInFlight, OwnAnswer, StaysWarm, Unharmed,
       AnswerError, Respond, caller

LEMMA LeavingInv == ASSUME RunnerInv, IdleExit \/ Killed PROVE RunnerInv'
BY DEF RunnerInv, RunnerTypeOK, OneInFlight, OwnAnswer, StaysWarm, Unharmed,
       IdleExit, Killed, Alive, caller

LEMMA RunnerNextInv == RunnerInv /\ [RunnerNext]_runnerVars => RunnerInv'
<1> SUFFICES ASSUME RunnerInv, [RunnerNext]_runnerVars PROVE RunnerInv'
  OBVIOUS
<1>1. CASE UNCHANGED runnerVars
  BY <1>1 DEF runnerVars, caller, workerVars, history, RunnerInv, RunnerTypeOK, OneInFlight,
              OwnAnswer, StaysWarm, Unharmed
<1>2. CASE RunnerNext
  BY <1>2, CallInv, StartFailsInv, SendInv, SendFailsInv, ReceiveInv, WaitFailsInv, ResetWorkerInv, CloseInv,
     TakeInv, LoadModelInv, AnswerInv, AnswerErrorInv, LeavingInv DEF RunnerNext
<1> QED BY <1>1, <1>2

(* RunnerInv holds in every state of the runner and its worker. *)
THEOREM RunnerInvariance == RunnerSpec => []RunnerInv
BY RunnerInitInv, RunnerNextInv, PTL DEF RunnerSpec

(* An answer that scan returns is the one to the text it was called with,    *)
(* whatever timed out, failed or was restarted before.                       *)
THEOREM AnswersOwn == RunnerSpec => []OwnAnswer
<1>1. RunnerInv => OwnAnswer
  BY DEF RunnerInv
<1> QED BY <1>1, RunnerInvariance, PTL

(* Each call finds both queues and the worker's hand empty. *)
THEOREM CallsStartClean == RunnerSpec => []NothingLeftOver
<1>1. RunnerInv => NothingLeftOver
  BY DEF RunnerInv, OneInFlight, NothingLeftOver
<1> QED BY <1>1, RunnerInvariance, PTL

(* After a warmup only an idle exit or a failure leaves a call without its   *)
(* Stage-2 answer.                                                           *)
THEOREM WarmServes == RunnerSpec => []WarmUntilIdle
<1>1. RunnerInv => WarmUntilIdle
  BY DEF RunnerInv, StaysWarm, Unharmed, WarmUntilIdle
<1> QED BY <1>1, RunnerInvariance, PTL
===============================================================================
