-------------------------- MODULE ProxyPipelineProofs --------------------------
(***************************************************************************)
(* Proofs about SessionMap, ProxyPipeline and PolicyControl, which has no  *)
(* state in common with the other two.  The session map, for any values and*)
(* categories: its types, the inductive invariant IInv, the stability of   *)
(* tokens and the refinement of Pseudonyms.  The pipeline on top of it, for*)
(* any values, places, requests, crashes and settings: what leaves raw,    *)
(* what is refused, that quotes and held tokens come back, that the        *)
(* upstream sees one pseudonym per value, and that the session map is used *)
(* as the abstract store promises.  The policy loader, for any files, gates*)
(* and writes: what may come into force, and that the known file has.      *)
(***************************************************************************)
EXTENDS ProxyPipeline, PolicyControl, TLAPS

-----------------------------------------------------------------------------
(* The session map.                                                          *)

(* What one step needs: the maps are inverse, and the counters bound every   *)
(* issued index, which is what makes the next index fresh.                   *)
IInv == TypeOK /\ Inverse /\ IndexOnce

(* Put keeps a typed partial function typed. *)
LEMMA PutTyped ==
    ASSUME NEW f, NEW k, NEW x, NEW S, NEW T,
           DOMAIN f \subseteq S, f \in [DOMAIN f -> T], k \in S, x \in T
    PROVE  /\ DOMAIN Put(f, k, x) \subseteq S
           /\ Put(f, k, x) \in [DOMAIN Put(f, k, x) -> T]
BY DEF Put

LEMMA EmptyFacts == DOMAIN Empty = {} /\ (\A S : Empty \in [{} -> S])
BY DEF Empty

(* The token of the next index has not been issued. *)
LEMMA NextTokenFresh ==
    ASSUME IInv, NEW c \in Categories, NEW b \in BOOLEAN
    PROVE  /\ TokenOf(c, counters[c] + 1, b) \in Tokens
           /\ TokenOf(c, counters[c] + 1, b) \notin DOMAIN p2v
<1> DEFINE t == TokenOf(c, counters[c] + 1, b)
<1>1. counters[c] \in Nat
  BY DEF IInv, TypeOK
<1>2. t \in Tokens
  BY <1>1 DEF TokenOf, Tokens
<1>3. t.cat = c /\ t.idx = counters[c] + 1
  BY DEF TokenOf
<1>4. t \notin DOMAIN p2v
  BY <1>1, <1>3 DEF IInv, IndexOnce
<1> QED BY <1>2, <1>4

LEMMA InitIInv == Init => IInv
BY EmptyFacts DEF Init, IInv, TypeOK, Inverse, IndexOnce

(* The assignment of a fresh token is the step that could break the pairing. *)
LEMMA AssignIInv ==
    ASSUME IInv, NEW v \in Values, NEW c \in Categories, NEW b \in BOOLEAN,
           v \notin DOMAIN v2p, Assign(v, c, b)
    PROVE  IInv'
<1> DEFINE t == TokenOf(c, counters[c] + 1, b)
<1>1. t \in Tokens /\ t \notin DOMAIN p2v
  BY NextTokenFresh
<1>2. v2p' = Put(v2p, v, t) /\ p2v' = Put(p2v, t, v)
  BY DEF Assign
<1>3. counters' = [counters EXCEPT ![c] = @ + 1]
  BY DEF Assign
<1>4. counters \in [Categories -> Nat]
  BY DEF IInv, TypeOK
<1>5. t.cat = c /\ t.idx = counters[c] + 1
  BY DEF TokenOf
<1>6. /\ DOMAIN v2p' = DOMAIN v2p \cup {v}
      /\ v2p'[v] = t
      /\ \A y \in DOMAIN v2p : v2p'[y] = v2p[y]
  BY <1>2 DEF Put
<1>7. /\ DOMAIN p2v' = DOMAIN p2v \cup {t}
      /\ p2v'[t] = v
      /\ \A y \in DOMAIN p2v : p2v'[y] = p2v[y]
  BY <1>1, <1>2 DEF Put
<1>8. TypeOK'
  <2>1. counters' \in [Categories -> Nat]
    BY <1>3, <1>4
  <2>2. DOMAIN v2p' \subseteq Values /\ v2p' \in [DOMAIN v2p' -> Tokens]
    BY <1>1, <1>2, PutTyped DEF IInv, TypeOK
  <2>3. DOMAIN p2v' \subseteq Tokens /\ p2v' \in [DOMAIN p2v' -> Values]
    BY <1>1, <1>2, PutTyped DEF IInv, TypeOK
  <2> QED BY <2>1, <2>2, <2>3 DEF TypeOK
<1>9. Inverse'
  <2>1. \A y \in DOMAIN v2p : v2p[y] \in DOMAIN p2v /\ p2v[v2p[y]] = y
    BY DEF IInv, Inverse
  <2>2. \A s \in DOMAIN p2v : p2v[s] \in DOMAIN v2p /\ v2p[p2v[s]] = s
    BY DEF IInv, Inverse
  <2>3. \A y \in DOMAIN v2p' : v2p'[y] \in DOMAIN p2v' /\ p2v'[v2p'[y]] = y
    BY <1>1, <1>6, <1>7, <2>1
  <2>4. \A s \in DOMAIN p2v' : p2v'[s] \in DOMAIN v2p' /\ v2p'[p2v'[s]] = s
    BY <1>1, <1>6, <1>7, <2>2
  <2> QED BY <2>3, <2>4 DEF Inverse
<1>10. IndexOnce'
  <2>1. \A s \in DOMAIN p2v : s.idx <= counters[s.cat] /\ s.cat \in Categories
                              /\ s.idx \in Nat
    BY DEF IInv, TypeOK, IndexOnce, Tokens
  <2>2. \A d \in Categories : counters[d] \in Nat /\ counters'[d] \in Nat
                              /\ counters[d] <= counters'[d]
    BY <1>3, <1>4
  <2>3. counters'[c] = counters[c] + 1
    BY <1>3, <1>4
  <2>4. \A s \in DOMAIN p2v' : s.idx <= counters'[s.cat]
    BY <1>5, <1>7, <2>1, <2>2, <2>3
  <2>5. \A s \in DOMAIN p2v : ~ (s.cat = c /\ s.idx = counters[c] + 1)
    BY <1>4, <2>1
  <2>6. \A s, u \in DOMAIN p2v' : s.cat = u.cat /\ s.idx = u.idx => s = u
    BY <1>5, <1>7, <2>5 DEF IInv, IndexOnce
  <2> QED BY <2>4, <2>6 DEF IndexOnce
<1> QED BY <1>8, <1>9, <1>10 DEF IInv

LEMMA NextIInv == IInv /\ [Next]_vars => IInv'
<1> SUFFICES ASSUME IInv, [Next]_vars PROVE IInv'
  OBVIOUS
<1>1. CASE UNCHANGED vars
  BY <1>1 DEF IInv, TypeOK, Inverse, IndexOnce, vars
<1>2. ASSUME NEW v \in Values, NEW c \in Categories, NEW b \in BOOLEAN,
             Encode(v, c, b)
      PROVE  IInv'
  BY <1>1, <1>2, AssignIInv DEF Encode
<1>3. CASE Reset
  BY <1>3, EmptyFacts DEF Reset, IInv, TypeOK, Inverse, IndexOnce
<1> QED BY <1>1, <1>2, <1>3 DEF Next

(* IInv holds in every reachable state of the session map. *)
THEOREM Invariance == Spec => []IInv
BY InitIInv, NextIInv, PTL DEF Spec

(* The dictionaries hold values and tokens, the counters naturals: no call   *)
(* of encode or reset leaves them ill-typed.                                 *)
THEOREM TypeCorrect == Spec => []TypeOK
<1>1. IInv => TypeOK
  BY DEF IInv
<1> QED BY <1>1, Invariance, PTL

(* encode writes two dictionaries; they stay inverse to each other, so       *)
(* decoding a token gives back the one value it was issued for.              *)
THEOREM MapsInverse == Spec => []Inverse
<1>1. IInv => Inverse
  BY DEF IInv
<1> QED BY <1>1, Invariance, PTL

(* An index is given out once per category, whatever the blocked flag.       *)
THEOREM IndicesUnique == Spec => []IndexOnce
<1>1. IInv => IndexOnce
  BY DEF IInv
<1> QED BY <1>1, Invariance, PTL

(* Until reset, encode never rebinds or drops a token it has returned.       *)
THEOREM TokensKeepMeaning == Spec => TokenKeepsMeaning
<1>1. ASSUME IInv, [Next]_vars
      PROVE  \/ p2v' = Empty
             \/ \A t \in DOMAIN p2v : t \in DOMAIN p2v' /\ p2v'[t] = p2v[t]
  <2>1. CASE UNCHANGED vars
    BY <2>1 DEF vars
  <2>2. ASSUME NEW v \in Values, NEW c \in Categories, NEW b \in BOOLEAN,
               Assign(v, c, b)
        PROVE  \A t \in DOMAIN p2v : t \in DOMAIN p2v' /\ p2v'[t] = p2v[t]
    <3> DEFINE u == TokenOf(c, counters[c] + 1, b)
    <3>1. u \notin DOMAIN p2v
      BY <1>1, NextTokenFresh
    <3>2. p2v' = Put(p2v, u, v)
      BY <2>2 DEF Assign
    <3> QED BY <3>1, <3>2 DEF Put
  <2>3. CASE Reset
    BY <2>3 DEF Reset
  <2> QED BY <1>1, <2>1, <2>2, <2>3 DEF Next, Encode
<1> QED BY <1>1, Invariance, PTL DEF Spec, TokenKeepsMeaning

-----------------------------------------------------------------------------
LEMMA InitAbstract == Init => Abstract!Init
BY EmptyFacts DEF Init, Abstract!Init, Pairs

(* Every step of the session map registers one fresh pair, forgets all of    *)
(* them, or leaves the pairs alone.                                          *)
LEMMA StepAbstract == IInv /\ [Next]_vars => [Abstract!Next]_Pairs
<1> SUFFICES ASSUME IInv, [Next]_vars PROVE [Abstract!Next]_Pairs
  OBVIOUS
<1>1. CASE UNCHANGED vars
  BY <1>1 DEF vars, Pairs
<1>2. ASSUME NEW v \in Values, NEW c \in Categories, NEW b \in BOOLEAN,
             v \notin DOMAIN v2p, Assign(v, c, b)
      PROVE  Abstract!Next
  <2> DEFINE t == TokenOf(c, counters[c] + 1, b)
  <2>1. t \in Tokens /\ t \notin DOMAIN p2v
    BY NextTokenFresh
  <2>2. /\ DOMAIN p2v' = DOMAIN p2v \cup {t}
        /\ p2v'[t] = v
        /\ \A y \in DOMAIN p2v : p2v'[y] = p2v[y]
    BY <1>2, <2>1 DEF Assign, Put
  <2>3. Pairs' = Pairs \cup {<<v, t>>}
    BY <2>1, <2>2 DEF Pairs
  <2>4. v \notin Abstract!Named
    BY <1>2 DEF Abstract!Named, Pairs, IInv, Inverse
  <2>5. t \notin Abstract!Used
    BY <2>1 DEF Abstract!Used, Pairs
  <2>6. Abstract!Register(<<v, t>>)
    BY <2>1, <2>3, <2>4, <2>5 DEF Abstract!Register
  <2>7. <<v, t>> \in Pairs'
    BY <2>3
  <2> QED BY <2>6, <2>7 DEF Abstract!Next
<1>3. CASE Reset
  BY <1>3, EmptyFacts DEF Reset, Pairs, Abstract!Next, Abstract!Forget
<1> QED BY <1>1, <1>2, <1>3 DEF Next, Encode

(* The two dictionaries and the counters implement the abstract store of     *)
(* one-to-one pairs.                                                         *)
THEOREM ImplementsPseudonyms == Spec => RefinesPseudonyms
BY InitAbstract, StepAbstract, Invariance, PTL
   DEF Spec, RefinesPseudonyms, Abstract!Spec

-----------------------------------------------------------------------------
(* The pipeline.                                                             *)

Text == Values \cup Tokens
Entries == [place : UNION {PlacesOf(p) : p \in UsedProviders}, item : Text]

PipelineTypeOK ==
    /\ phase \in {"idle", "receive", "scan", "send", "await", "silent", "write"}
    /\ req \in Seq(Entries) /\ out \in Seq(Text \cup {Nothing}) /\ Len(out) <= Len(req)
    /\ block \in BOOLEAN /\ crashes \in Nat
    /\ held \subseteq Tokens \X Values \X Nat /\ wire \subseteq Values \X Tokens

(* What became of a place: it is as the client wrote it, its value has the   *)
(* token that decodes to it, or its text was dropped and the request will be *)
(* refused.                                                                  *)
TreatmentAt(i) == Treatment(provider, req[i].place)
Kept(i) == out[i] = req[i].item
Masked(i) == Raw(req[i].item) /\ out[i] \in DOMAIN p2v /\ p2v[out[i]] = req[i].item
Dropped(i) == out[i] = Nothing /\ block
Scrubbed == \A i \in DOMAIN out : Kept(i) \/ Masked(i) \/ Dropped(i)

(* What the places scanned so far had to leave in the block flag and the gaps.*)
Accounted(i) ==
    /\ TreatmentAt(i) = "scan" =>
           /\ req[i].item \in BlockValues => block
           /\ Raw(out[i]) => out[i] \in NerValues /\ i \in gaps
    /\ PolicyBlocks(TreatmentAt(i)) => block
AllAccounted == provider # "none" => \A i \in DOMAIN out : Accounted(i)

(* While the thread waits for a client nothing is left of an earlier request,*)
(* and only one that nothing speaks against goes on.                         *)
GoesOnClean ==
    /\ phase \in {"idle", "receive", "silent", "write"} => out = <<>> /\ ~ block
    /\ phase \in {"send", "await"} =>
           ~ block /\ (provider # "none" /\ swept => \A i \in DOMAIN out : out[i] \notin BlockValues)

(* What is out in the world agrees with the session map: tokens held by      *)
(* clients of this process, and what its upstream has been sent.             *)
HeldDecodes ==
    \A h \in held : /\ h[3] <= crashes
                    /\ h[3] = crashes => h[1] \in DOMAIN p2v /\ p2v[h[1]] = h[2]
WireDecodes == \A m \in wire : m[2] \in DOMAIN p2v /\ p2v[m[2]] = m[1]

PipelineInv ==
    /\ IInv /\ PipelineTypeOK /\ Scrubbed /\ AllAccounted /\ GoesOnClean
    /\ HeldDecodes /\ WireDecodes /\ QuotesComeBack /\ HeldTokensComeBack

-----------------------------------------------------------------------------
(* The session map under the pipeline.                                       *)

(* What a scan gets from encode decodes to the value, and earlier tokens     *)
(* keep theirs.                                                              *)
Grows == \A t \in DOMAIN p2v : t \in DOMAIN p2v' /\ p2v'[t] = p2v[t]
LEMMA EncodeFacts ==
    ASSUME IInv, NEW v \in Values, NEW c \in Categories, NEW b \in BOOLEAN, Encode(v, c, b)
    PROVE  /\ IInv' /\ Grows
           /\ v2p'[v] \in Tokens /\ v2p'[v] \in DOMAIN p2v' /\ p2v'[v2p'[v]] = v
<1>1. CASE v \in DOMAIN v2p
  <2>1. v2p[v] \in DOMAIN p2v /\ p2v[v2p[v]] = v /\ v2p[v] \in Tokens
    BY <1>1 DEF IInv, Inverse, TypeOK
  <2>2. v2p' = v2p /\ p2v' = p2v /\ counters' = counters
    BY <1>1 DEF Encode, vars
  <2>3. IInv'
    BY <2>2 DEF IInv, TypeOK, Inverse, IndexOnce
  <2> QED BY <2>1, <2>2, <2>3 DEF Grows
<1>2. CASE v \notin DOMAIN v2p
  <2> DEFINE t == TokenOf(c, counters[c] + 1, b)
  <2>1. Assign(v, c, b)
    BY <1>2 DEF Encode
  <2>2. t \in Tokens /\ t \notin DOMAIN p2v
    BY NextTokenFresh
  <2>3. v2p' = Put(v2p, v, t) /\ p2v' = Put(p2v, t, v)
    BY <2>1 DEF Assign
  <2>4. IInv'
    BY <1>2, <2>1, AssignIInv
  <2>5. v2p'[v] = t /\ t \in DOMAIN p2v' /\ p2v'[t] = v /\ Grows
    BY <2>2, <2>3 DEF Put, Grows
  <2> QED BY <2>2, <2>4, <2>5
<1> QED BY <1>1, <1>2

LEMMA CategoryIsOne == \A v : CategoryOf(v) \in Categories
BY PipelineAssumption DEF CategoryOf

(* Raw text and tokens are never confused. *)
LEMMA TokensAreNotRaw ==
    ASSUME IInv
    PROVE  /\ DOMAIN p2v \subseteq Tokens /\ (\A t \in DOMAIN p2v : p2v[t] \in Values)
           /\ (\A v \in Values : v \notin Tokens) /\ Nothing \notin Text
           /\ NerValues \cap BlockValues = {} /\ BlockValues \subseteq Values
<1>1. DOMAIN p2v \subseteq Tokens /\ \A t \in DOMAIN p2v : p2v[t] \in Values
  BY DEF IInv, TypeOK
<1> QED BY <1>1, PipelineAssumption DEF Text

-----------------------------------------------------------------------------
LEMMA PipelineInitInv == PipelineInit => PipelineInv
<1> SUFFICES ASSUME PipelineInit PROVE PipelineInv
  OBVIOUS
<1>1. IInv
  BY InitIInv DEF PipelineInit
<1>2. PipelineTypeOK
  <2>1. req = <<>> /\ out = <<>> /\ Len(out) <= Len(req)
    BY DEF PipelineInit
  <2>2. req \in Seq(Entries) /\ out \in Seq(Text \cup {Nothing})
    BY <2>1
  <2>3. phase = "idle" /\ block \in BOOLEAN /\ crashes \in Nat
        /\ held \subseteq Tokens \X Values \X Nat /\ wire \subseteq Values \X Tokens
    BY DEF PipelineInit
  <2> QED BY <2>1, <2>2, <2>3 DEF PipelineTypeOK
<1>3. answer.kind = "none"
  BY DEF PipelineInit, Status, Answer
<1>4. Scrubbed /\ AllAccounted /\ GoesOnClean
  BY DEF PipelineInit, Scrubbed, AllAccounted, GoesOnClean
<1> QED BY <1>1, <1>2, <1>3, <1>4
        DEF PipelineInit, PipelineInv, HeldDecodes, WireDecodes, QuotesComeBack, HeldTokensComeBack

LEMMA RequestsAreEntries ==
    ASSUME PipelineTypeOK, NEW p \in UsedProviders, NEW r \in Requests(p)
    PROVE  r \in Seq(Entries) /\ Len(r) \in Nat /\ DOMAIN r = 1..Len(r)
<1>1. PICK n \in DOMAIN UsedPlaces : r \in [1..n -> [place : PlacesOf(p) \cap UsedPlaces[n], item : Items]]
  BY DEF Requests
<1>2. n \in Nat
  BY <1>1, PipelineAssumption
<1>3. Items \subseteq Text
  BY DEF Items, Text, PipelineTypeOK
<1>4. [place : PlacesOf(p) \cap UsedPlaces[n], item : Items] \subseteq Entries
  BY <1>3 DEF Entries
<1>5. r \in [1..n -> Entries]
  BY <1>1, <1>4
<1> QED BY <1>2, <1>5

LEMMA AcceptInv == ASSUME PipelineInv, Accept PROVE PipelineInv'
<1> USE DEF PipelineInv
<1>0. PICK p \in UsedProviders : \E r \in Requests(p) :
        /\ provider' = p /\ req' = r /\ phase' = IF p = "none" THEN "send" ELSE "scan"
        /\ out' = IF p = "none" THEN [i \in DOMAIN r |-> r[i].item] ELSE <<>>
  BY DEF Accept
<1>1. PICK r \in Requests(p) :
        /\ provider' = p /\ req' = r /\ phase' = IF p = "none" THEN "send" ELSE "scan"
        /\ out' = IF p = "none" THEN [i \in DOMAIN r |-> r[i].item] ELSE <<>>
  BY <1>0
<1>2. r \in Seq(Entries) /\ Len(r) \in Nat /\ DOMAIN r = 1..Len(r)
  BY RequestsAreEntries
<1>3. UNCHANGED <<v2p, p2v, counters, block, gaps, swept, held, wire, crashes>> /\ ~ block
  BY DEF Accept, vars, GoesOnClean
<1>4. UNCHANGED answer
  BY DEF Accept
<1>5. out' \in Seq(Text \cup {Nothing}) /\ Len(out') <= Len(req')
      /\ \A i \in DOMAIN out' : i \in DOMAIN r /\ out'[i] = r[i].item
  <2>1. CASE p = "none"
    <3>1. \A i \in 1..Len(r) : r[i] \in Entries
      BY <1>2
    <3>2. \A e \in Entries : e.item \in Text
      BY DEF Entries
    <3>3. out' = [i \in 1..Len(r) |-> r[i].item]
      BY <1>1, <1>2, <2>1
    <3>4. out' \in [1..Len(r) -> Text]
      BY <3>1, <3>2, <3>3
    <3>5. out' \in Seq(Text \cup {Nothing}) /\ Len(out') = Len(r)
      BY <1>2, <3>4
    <3> QED BY <1>1, <1>2, <3>3, <3>5
  <2>2. CASE p # "none"
    BY <1>1, <1>2, <2>2
  <2> QED BY <2>1, <2>2
<1>6. PipelineTypeOK'
  BY <1>1, <1>2, <1>3, <1>5 DEF PipelineTypeOK
<1>7. Scrubbed'
  BY <1>1, <1>5 DEF Scrubbed, Kept
<1>8. AllAccounted'
  BY <1>1 DEF AllAccounted
<1>9. GoesOnClean'
  BY <1>1, <1>3 DEF GoesOnClean
<1>10. IInv'
  BY <1>3 DEF IInv, TypeOK, Inverse, IndexOnce
<1> QED BY <1>3, <1>4, <1>6, <1>7, <1>8, <1>9, <1>10
        DEF HeldDecodes, WireDecodes, QuotesComeBack, HeldTokensComeBack

-----------------------------------------------------------------------------
(* One place of the scan.  What a step puts there is as written, decodes to  *)
(* what was written or drops it, and speaks against the request if it must.  *)
LEMMA CurrentIsEntry ==
    ASSUME PipelineTypeOK, Scanning
    PROVE  /\ Current \in Entries /\ Current.item \in Text
           /\ Len(out) \in Nat /\ Here \in DOMAIN req /\ DOMAIN out = 1..Len(out)
<1>1. Len(out) \in Nat /\ Len(req) \in Nat /\ DOMAIN req = 1..Len(req) /\ DOMAIN out = 1..Len(out)
  BY DEF PipelineTypeOK
<1>2. Here \in 1..Len(req)
  BY <1>1 DEF Scanning, Here
<1>3. req[Here] \in Entries
  BY <1>1, <1>2 DEF PipelineTypeOK
<1> QED BY <1>1, <1>2, <1>3 DEF Current, Entries

LEMMA PlaceInv ==
    ASSUME PipelineInv, Scanning, IInv', Grows,
           NEW x \in Text \cup {Nothing}, NEW b \in BOOLEAN, NEW gap \in BOOLEAN,
           NEW noted \in BOOLEAN, Place(x, b, gap, noted),
           \/ x = Current.item
           \/ Raw(Current.item) /\ x \in DOMAIN p2v' /\ p2v'[x] = Current.item
           \/ x = Nothing /\ b,
           How = "scan" => /\ Current.item \in BlockValues => b
                           /\ Raw(x) => x \in NerValues /\ gap,
           PolicyBlocks(How) => b
    PROVE  PipelineInv'
<1> USE DEF PipelineInv
<1>1. /\ Len(out) \in Nat /\ Here = Len(out) + 1 /\ DOMAIN out = 1..Len(out)
      /\ Here <= Len(req) /\ Len(req) \in Nat /\ Current = req[Here]
  BY CurrentIsEntry DEF Here, Current, Scanning, PipelineTypeOK
<1>2. /\ out' = Append(out, x) /\ block' = (block \/ b)
      /\ gaps \subseteq gaps' /\ (gap => Here \in gaps')
      /\ UNCHANGED <<phase, provider, req, swept, answer, held, wire, served, crashes>>
  BY DEF Place
<1>3. /\ out' \in Seq(Text \cup {Nothing}) /\ Len(out') = Len(out) + 1
      /\ DOMAIN out' = DOMAIN out \cup {Here} /\ out'[Here] = x
      /\ \A i \in DOMAIN out : out'[i] = out[i]
  <2>1. out \in Seq(Text \cup {Nothing})
    BY DEF PipelineTypeOK
  <2>2. out' \in Seq(Text \cup {Nothing}) /\ Len(out') = Len(out) + 1 /\ DOMAIN out' = 1..Len(out')
        /\ out'[Len(out) + 1] = x /\ \A i \in 1..Len(out) : out'[i] = out[i]
    BY <1>2, <2>1
  <2> QED BY <1>1, <2>2
<1>4. PipelineTypeOK'
  <2>1. block' \in BOOLEAN
    BY <1>2 DEF PipelineTypeOK
  <2>2. Len(out') <= Len(req')
    BY <1>1, <1>2, <1>3
  <2> QED BY <1>2, <1>3, <2>1, <2>2 DEF PipelineTypeOK
<1>5. Scrubbed'
  <2>1. ASSUME NEW i \in DOMAIN out PROVE Kept(i)' \/ Masked(i)' \/ Dropped(i)'
    <3>1. Kept(i) \/ Masked(i) \/ Dropped(i)
      BY DEF Scrubbed
    <3>2. out'[i] = out[i] /\ req' = req /\ (block => block')
      BY <1>2, <1>3
    <3> QED BY <3>1, <3>2 DEF Kept, Masked, Dropped, Grows
  <2>2. ASSUME NEW i, i = Here PROVE Kept(i)' \/ Masked(i)' \/ Dropped(i)'
    <3>1. out'[i] = x /\ req'[i] = Current /\ (b => block')
      BY <1>1, <1>2, <1>3, <2>2
    <3> QED BY <3>1 DEF Kept, Masked, Dropped
  <2> QED BY <1>3, <2>1, <2>2 DEF Scrubbed
<1>6. AllAccounted'
  <2>. SUFFICES ASSUME provider # "none" PROVE \A i \in DOMAIN out' : Accounted(i)'
    BY <1>2 DEF AllAccounted
  <2>1. \A i : TreatmentAt(i)' = TreatmentAt(i)
    BY <1>2 DEF TreatmentAt
  <2>2. ASSUME NEW i \in DOMAIN out PROVE Accounted(i)'
    <3>1. Accounted(i)
      BY DEF AllAccounted
    <3>2. out'[i] = out[i] /\ req' = req /\ (block => block')
      BY <1>2, <1>3
    <3> QED BY <1>2, <2>1, <3>1, <3>2 DEF Accounted, PolicyBlocks
  <2>3. ASSUME NEW i, i = Here PROVE Accounted(i)'
    <3>1. TreatmentAt(i) = How
      BY <1>1, <2>3 DEF TreatmentAt, How
    <3>2. out'[i] = x /\ req'[i] = Current /\ (b => block')
      BY <1>1, <1>2, <1>3, <2>3
    <3> QED BY <1>2, <2>1, <2>3, <3>1, <3>2 DEF Accounted, PolicyBlocks
  <2> QED BY <1>3, <2>2, <2>3
<1>7. GoesOnClean'
  BY <1>2 DEF GoesOnClean, Scanning
<1>8. HeldDecodes' /\ WireDecodes' /\ QuotesComeBack' /\ HeldTokensComeBack'
  BY <1>2 DEF HeldDecodes, WireDecodes, QuotesComeBack, HeldTokensComeBack, Grows
<1> QED BY <1>4, <1>5, <1>6, <1>7, <1>8

LEMMA ScanFindsInv == ASSUME PipelineInv, ScanFinds PROVE PipelineInv'
<1>0. PICK v, c, b : v = Current.item /\ c = CategoryOf(v) /\ b = (v \in BlockValues)
  OBVIOUS
<1>1. v \in Values /\ Scanning /\ How = "scan" /\ IInv /\ c \in Categories /\ b \in BOOLEAN
  BY <1>0, CategoryIsOne DEF ScanFinds, Raw, PipelineInv
<1>2. Encode(v, c, b) /\ Place(v2p'[v], b, FALSE, FALSE)
  BY <1>0 DEF ScanFinds, ScanValue
<1>3. IInv' /\ Grows /\ v2p'[v] \in Tokens /\ v2p'[v] \in DOMAIN p2v' /\ p2v'[v2p'[v]] = v
  BY <1>1, <1>2, EncodeFacts
<1>4. v2p'[v] \notin Values /\ v2p'[v] \in Text \cup {Nothing}
  BY <1>1, <1>3, TokensAreNotRaw DEF Text
<1>5. ~ PolicyBlocks(How)
  BY <1>1 DEF PolicyBlocks
<1> QED BY <1>0, <1>1, <1>2, <1>3, <1>4, <1>5, PlaceInv DEF Raw

LEMMA SessionUntouched == ASSUME IInv, UNCHANGED vars PROVE IInv' /\ Grows
BY DEF IInv, TypeOK, Inverse, IndexOnce, vars, Grows

LEMMA ScanFindsNothingInv == ASSUME PipelineInv, ScanFindsNothing PROVE PipelineInv'
<1>1. Scanning /\ How = "scan" /\ ~ Raw(Current.item) /\ Place(Current.item, FALSE, FALSE, FALSE)
  BY DEF ScanFindsNothing
<1>2. IInv' /\ Grows
  BY SessionUntouched DEF ScanFindsNothing, PipelineInv
<1>3. Current.item \in Text /\ Current.item \notin BlockValues
  BY <1>1, CurrentIsEntry, TokensAreNotRaw DEF PipelineInv, Raw
<1> QED BY <1>1, <1>2, <1>3, PlaceInv DEF PolicyBlocks

LEMMA StageTwoFailsInv == ASSUME PipelineInv, StageTwoFails PROVE PipelineInv'
<1>0. PICK v, c, b : v = Current.item /\ c = CategoryOf(v) /\ b = (v \in BlockValues)
  OBVIOUS
<1>1. Scanning /\ How = "scan" /\ IInv /\ v \in Text /\ ~ PolicyBlocks(How)
      /\ c \in Categories /\ b \in BOOLEAN
  BY <1>0, CurrentIsEntry, CategoryIsOne DEF StageTwoFails, PipelineInv, PolicyBlocks
<1>2. CASE Raw(v) /\ v \notin NerValues
  <2>1. Encode(v, c, b) /\ Place(v2p'[v], b, TRUE, FALSE) /\ v \in Values
    BY <1>0, <1>2 DEF StageTwoFails, Raw
  <2>2. IInv' /\ Grows /\ v2p'[v] \in Tokens /\ v2p'[v] \in DOMAIN p2v' /\ p2v'[v2p'[v]] = v
    BY <1>1, <2>1, EncodeFacts
  <2>3. v2p'[v] \notin Values /\ v2p'[v] \in Text \cup {Nothing}
    BY <1>1, <2>2, TokensAreNotRaw DEF Text
  <2> QED BY <1>0, <1>1, <2>1, <2>2, <2>3, PlaceInv DEF Raw
<1>3. CASE ~ (Raw(v) /\ v \notin NerValues)
  <2>1. UNCHANGED vars /\ Place(v, FALSE, TRUE, FALSE)
    BY <1>0, <1>3 DEF StageTwoFails
  <2>2. IInv' /\ Grows
    BY <1>1, <2>1, SessionUntouched
  <2>3. v \notin BlockValues /\ (Raw(v) => v \in NerValues)
    BY <1>1, <1>3, TokensAreNotRaw DEF Raw
  <2> QED BY <1>0, <1>1, <2>1, <2>2, <2>3, PlaceInv
<1> QED BY <1>2, <1>3

LEMMA ScanFailsInv == ASSUME PipelineInv, ScanFails PROVE PipelineInv'
<1>1. Scanning /\ Place(Nothing, TRUE, FALSE, TRUE) /\ Nothing \notin Values
  BY TokensAreNotRaw DEF ScanFails, PipelineInv, Text
<1>2. IInv' /\ Grows
  BY SessionUntouched DEF ScanFails, PipelineInv
<1> QED BY <1>1, <1>2, PlaceInv DEF Raw

LEMMA PassOnInv == ASSUME PipelineInv, PassOn PROVE PipelineInv'
<1> DEFINE b == PolicyBlocks(How)
           noted == \/ How = "unscannable"
                    \/ Current.place \in ReportedUnknown /\ UnknownAction = "block"
<1>1. Scanning /\ How # "scan" /\ Place(Current.item, b, FALSE, noted)
  BY DEF PassOn
<1>2. b \in BOOLEAN /\ noted \in BOOLEAN
  BY DEF PolicyBlocks
<1>3. IInv' /\ Grows /\ Current.item \in Text
  BY <1>1, SessionUntouched, CurrentIsEntry DEF PassOn, PipelineInv
<1> HIDE DEF noted
<1> QED BY <1>1, <1>2, <1>3, PlaceInv

-----------------------------------------------------------------------------
(* The end of a request, and the steps of the thread that wait for others.   *)
LEMMA LocalsGoneClean ==
    ASSUME LocalsGone, phase' \in {"idle", "receive", "silent", "write"}, crashes' \in Nat,
           held' \subseteq Tokens \X Values \X Nat, wire' \subseteq Values \X Tokens
    PROVE  PipelineTypeOK' /\ Scrubbed' /\ AllAccounted' /\ GoesOnClean'
<1>1. provider' = "none" /\ req' = <<>> /\ out' = <<>> /\ block' = FALSE
  BY DEF LocalsGone
<1>2. req' \in Seq(Entries) /\ out' \in Seq(Text \cup {Nothing}) /\ Len(out') <= Len(req')
  BY <1>1
<1>3. block' \in BOOLEAN /\ ~ block'
  BY <1>1, Zenon
<1>4. PipelineTypeOK'
  BY <1>1, <1>2, <1>3 DEF PipelineTypeOK
<1> QED BY <1>1, <1>3, <1>4 DEF Scrubbed, AllAccounted, GoesOnClean

(* A step that ends the handling of a request, or lets it wait, and answers  *)
(* nothing but a status.                                                     *)
LEMMA NoReplyInv ==
    ASSUME PipelineInv, LocalsGone, phase' \in {"idle", "receive", "silent", "write"},
           UNCHANGED <<vars, held, wire, crashes>>, answer' = answer \/ answer'.kind # "ok"
    PROVE  PipelineInv'
<1>1. IInv' /\ UNCHANGED <<v2p, p2v, counters>>
  BY SessionUntouched DEF PipelineInv, vars
<1>2. PipelineTypeOK' /\ Scrubbed' /\ AllAccounted' /\ GoesOnClean'
  BY LocalsGoneClean DEF PipelineInv, PipelineTypeOK
<1>3. HeldDecodes' /\ WireDecodes' /\ QuotesComeBack' /\ HeldTokensComeBack'
  BY <1>1 DEF PipelineInv, HeldDecodes, WireDecodes, QuotesComeBack, HeldTokensComeBack
<1> QED BY <1>1, <1>2, <1>3 DEF PipelineInv

LEMMA StatusIsNoReply == \A k \in {"none", "400", "502", "reset", "blocked"} : Status(k).kind # "ok"
BY DEF Status, Answer

LEMMA ClientInv == ASSUME PipelineInv, Connect \/ Reject \/ ClientReads \/ ClientLeaves PROVE PipelineInv'
<1>1. CASE Connect
  <2>1. UNCHANGED <<v2p, p2v, counters, provider, req, out, block, gaps, swept, held, wire, crashes>>
    BY <1>1 DEF Connect, request, vars
  <2>2. phase = "idle" /\ phase' = "receive" /\ answer'.kind # "ok"
    BY <1>1, StatusIsNoReply DEF Connect
  <2>3. IInv'
    BY <1>1, SessionUntouched DEF Connect, PipelineInv
  <2>4. PipelineTypeOK' /\ GoesOnClean'
    BY <2>1, <2>2 DEF PipelineInv, PipelineTypeOK, GoesOnClean
  <2>5. Scrubbed' /\ AllAccounted'
    BY <2>1 DEF PipelineInv, Scrubbed, Kept, Masked, Dropped, AllAccounted, Accounted, TreatmentAt,
                PolicyBlocks
  <2>6. HeldDecodes' /\ WireDecodes' /\ QuotesComeBack' /\ HeldTokensComeBack'
    BY <2>1, <2>2 DEF PipelineInv, HeldDecodes, WireDecodes, QuotesComeBack, HeldTokensComeBack
  <2> QED BY <2>3, <2>4, <2>5, <2>6 DEF PipelineInv
<1>2. CASE Reject
  BY <1>2, NoReplyInv, StatusIsNoReply DEF Reject, HandlerReturns
<1>3. CASE ClientReads
  BY <1>3, NoReplyInv DEF ClientReads, HandlerReturns
<1>4. CASE ClientLeaves
  BY <1>4, NoReplyInv, StatusIsNoReply DEF ClientLeaves, HandlerReturns
<1> QED BY <1>1, <1>2, <1>3, <1>4

LEMMA UpstreamLostInv ==
    ASSUME PipelineInv, UpstreamFails \/ UpstreamSilent \/ UpstreamTimesOut PROVE PipelineInv'
<1>1. CASE UpstreamFails \/ UpstreamTimesOut
  BY <1>1, NoReplyInv, StatusIsNoReply DEF UpstreamFails, UpstreamTimesOut, CallEnds, HandlerReturns
<1>2. CASE UpstreamSilent
  BY <1>2, NoReplyInv DEF UpstreamSilent
<1> QED BY <1>1, <1>2

LEMMA FinishInv ==
    ASSUME PipelineInv, NEW refused \in BOOLEAN, NEW ok \in BOOLEAN, Finish(refused, ok),
           block => refused, ok /\ Hits # {} => refused
    PROVE  PipelineInv'
<1>1. UNCHANGED <<held, wire, crashes>> /\ IInv' /\ Grows
  BY SessionUntouched DEF Finish, PipelineInv
<1>2. HeldDecodes' /\ WireDecodes'
  BY <1>1 DEF PipelineInv, HeldDecodes, WireDecodes, Grows
<1>3. CASE refused
  <2>1. HandlerReturns /\ answer' = Status("blocked")
    BY <1>3 DEF Finish, Refuse
  <2>2. PipelineTypeOK' /\ Scrubbed' /\ AllAccounted' /\ GoesOnClean'
    BY <1>1, <2>1, LocalsGoneClean DEF PipelineInv, PipelineTypeOK, HandlerReturns
  <2>3. answer'.kind = "blocked"
    BY <2>1 DEF Status, Answer
  <2> QED BY <1>1, <1>2, <2>2, <2>3 DEF PipelineInv, QuotesComeBack, HeldTokensComeBack
<1>4. CASE ~ refused
  <2>1. /\ phase' = "send" /\ swept' = ok
        /\ UNCHANGED <<provider, req, out, block, gaps, answer>>
    BY <1>4 DEF Finish, Clear
  <2>2. ~ block /\ (swept' => \A i \in DOMAIN out : out[i] \notin BlockValues)
    BY <1>4, <2>1 DEF Hits
  <2>3. PipelineTypeOK' /\ GoesOnClean'
    BY <1>1, <2>1, <2>2 DEF PipelineInv, PipelineTypeOK, GoesOnClean
  <2>4. Scrubbed'
    BY <1>1, <2>1 DEF PipelineInv, Scrubbed, Kept, Masked, Dropped, Grows
  <2>5. AllAccounted'
    BY <2>1 DEF PipelineInv, AllAccounted, Accounted, TreatmentAt, PolicyBlocks
  <2>6. QuotesComeBack' /\ HeldTokensComeBack'
    BY <1>1, <2>1 DEF PipelineInv, QuotesComeBack, HeldTokensComeBack
  <2> QED BY <1>1, <1>2, <2>3, <2>4, <2>5, <2>6 DEF PipelineInv
<1> QED BY <1>3, <1>4

LEMMA SweepInv == ASSUME PipelineInv, Sweep \/ SweepFails PROVE PipelineInv'
<1>1. block \in BOOLEAN
  BY DEF PipelineInv, PipelineTypeOK
<1>2. CASE Sweep
  <2>1. PICK found \in BOOLEAN : found = (block \/ Hits # {})
    OBVIOUS
  <2>2. Finish(found, TRUE)
    BY <1>2, <2>1 DEF Sweep
  <2>3. (block => found) /\ (TRUE /\ Hits # {} => found)
    BY <1>1, <2>1
  <2> QED BY <2>2, <2>3, FinishInv
<1>3. CASE SweepFails
  BY <1>1, <1>3, FinishInv DEF SweepFails
<1> QED BY <1>2, <1>3

(* Of a payload on its way nothing was dropped. *)
LEMMA GoingOn ==
    ASSUME PipelineInv, phase \in {"send", "await"}
    PROVE  \A i \in DOMAIN out : /\ Kept(i) \/ Masked(i)
                                 /\ i \in DOMAIN req /\ req[i].item \in Text
<1>1. ~ block
  BY DEF PipelineInv, GoesOnClean
<1>2. \A i \in DOMAIN out : i \in DOMAIN req
  BY DEF PipelineInv, PipelineTypeOK
<1>3. \A i \in DOMAIN req : req[i] \in Entries
  BY DEF PipelineInv, PipelineTypeOK
<1>4. \A e \in Entries : e.item \in Text
  BY DEF Entries
<1> QED BY <1>1, <1>2, <1>3, <1>4 DEF PipelineInv, Scrubbed, Dropped

LEMMA ForwardInv == ASSUME PipelineInv, Forward PROVE PipelineInv'
<1>1. /\ phase = "send" /\ phase' = "await" /\ wire' = wire \cup Sent
      /\ UNCHANGED <<provider, req, out, block, gaps, reported, swept, answer, held, crashes>>
      /\ UNCHANGED vars
  BY DEF Forward, request
<1>2. IInv' /\ UNCHANGED <<v2p, p2v, counters>>
  BY <1>1, SessionUntouched DEF PipelineInv, vars
<1>3. \A m \in Sent : m[1] \in Values /\ m[2] \in DOMAIN p2v /\ p2v[m[2]] = m[1] /\ m \in Values \X Tokens
  <2>1. ASSUME NEW i \in DOMAIN out, Raw(req[i].item), ~ Raw(out[i])
        PROVE  req[i].item \in Values /\ out[i] \in DOMAIN p2v /\ p2v[out[i]] = req[i].item
               /\ out[i] \in Tokens
    BY <1>1, <2>1, GoingOn, TokensAreNotRaw DEF PipelineInv, Kept, Masked, Raw
  <2> QED BY <2>1 DEF Sent
<1>4. PipelineTypeOK'
  BY <1>1, <1>3 DEF PipelineInv, PipelineTypeOK
<1>5. WireDecodes'
  BY <1>1, <1>2, <1>3 DEF PipelineInv, WireDecodes
<1>6. Scrubbed'
  BY <1>1, <1>2 DEF PipelineInv, Scrubbed, Kept, Masked, Dropped
<1>7. AllAccounted'
  BY <1>1 DEF PipelineInv, AllAccounted, Accounted, TreatmentAt, PolicyBlocks
<1>8. GoesOnClean'
  BY <1>1 DEF PipelineInv, GoesOnClean
<1>9. HeldDecodes' /\ QuotesComeBack' /\ HeldTokensComeBack'
  BY <1>1, <1>2 DEF PipelineInv, HeldDecodes, QuotesComeBack, HeldTokensComeBack
<1> QED BY <1>2, <1>4, <1>5, <1>6, <1>7, <1>8, <1>9 DEF PipelineInv

-----------------------------------------------------------------------------
(* The answer.  One that is restored holds no token of this session. *)
LEMMA RespondInv ==
    ASSUME PipelineInv, NEW a, Respond(a),
           a.kind = "ok" /\ IsRestored(a.from, a.place) =>
               /\ a.item \notin DOMAIN p2v
               /\ Raw(a.written) => a.item = a.written
               /\ \A h \in held : a.written = h[1] /\ h[3] = crashes => a.item = h[2]
    PROVE  PipelineInv'
<1>1. /\ answer' = a /\ phase' = "write" /\ LocalsGone
      /\ held' = IF a.item \in DOMAIN p2v THEN held \cup {<<a.item, p2v[a.item], crashes>>} ELSE held
      /\ UNCHANGED <<wire, crashes>> /\ UNCHANGED vars
  BY DEF Respond
<1>2. IInv' /\ UNCHANGED <<v2p, p2v, counters>>
  BY <1>1, SessionUntouched DEF PipelineInv, vars
<1>3. DOMAIN p2v \subseteq Tokens /\ (\A t \in DOMAIN p2v : p2v[t] \in Values) /\ crashes \in Nat
      /\ held \subseteq Tokens \X Values \X Nat /\ wire \subseteq Values \X Tokens
  BY TokensAreNotRaw DEF PipelineInv, PipelineTypeOK
<1>4. held' \subseteq Tokens \X Values \X Nat
  BY <1>1, <1>3
<1>5. PipelineTypeOK' /\ Scrubbed' /\ AllAccounted' /\ GoesOnClean'
  BY <1>1, <1>3, <1>4, LocalsGoneClean
<1>6. HeldDecodes'
  BY <1>1, <1>2, <1>3 DEF PipelineInv, HeldDecodes
<1>7. WireDecodes'
  BY <1>1, <1>2 DEF PipelineInv, WireDecodes
<1>8. QuotesComeBack'
  BY <1>1 DEF QuotesComeBack
<1>9. HeldTokensComeBack'
  BY <1>1 DEF HeldTokensComeBack
<1> QED BY <1>2, <1>5, <1>6, <1>7, <1>8, <1>9 DEF PipelineInv

LEMMA ReplyInv == ASSUME PipelineInv, Reply PROVE PipelineInv'
<1>1. PICK place \in ReplyPlaces, i \in DOMAIN out :
        Respond(Answer("ok", provider, place, req[i].item,
                       IF IsRestored(provider, place) THEN Restore(out[i]) ELSE out[i]))
  BY DEF Reply
<1>2. PICK a : a = Answer("ok", provider, place, req[i].item,
                          IF IsRestored(provider, place) THEN Restore(out[i]) ELSE out[i])
  OBVIOUS
<1>3. a.from = provider /\ a.place = place /\ a.written = req[i].item
      /\ a.item = IF IsRestored(provider, place) THEN Restore(out[i]) ELSE out[i]
  BY <1>2 DEF Answer
<1>4. (Kept(i) \/ Masked(i)) /\ req[i].item \in Text
  BY GoingOn DEF Reply
<1>5. /\ DOMAIN p2v \subseteq Tokens /\ (\A t \in DOMAIN p2v : p2v[t] \in Values)
      /\ \A v \in Values : v \notin Tokens
  BY TokensAreNotRaw DEF PipelineInv
<1>6. Restore(out[i]) \notin DOMAIN p2v
  BY <1>5 DEF Restore
<1>7. Raw(req[i].item) => Restore(out[i]) = req[i].item
  BY <1>4, <1>5 DEF Restore, Raw, Kept, Masked
<1>8. ASSUME NEW h \in held, req[i].item = h[1], h[3] = crashes PROVE Restore(out[i]) = h[2]
  <2>1. h[1] \in DOMAIN p2v /\ p2v[h[1]] = h[2]
    BY <1>8 DEF PipelineInv, HeldDecodes
  <2>2. ~ Raw(req[i].item)
    BY <1>5, <1>8, <2>1 DEF Raw
  <2> QED BY <1>4, <1>8, <2>1, <2>2 DEF Kept, Masked, Restore
<1>9. Respond(a)
  BY <1>1, <1>2
<1> QED BY <1>3, <1>6, <1>7, <1>8, <1>9, RespondInv

LEMMA ErrorReplyInv == ASSUME PipelineInv, ErrorReply PROVE PipelineInv'
<1>1. PICK i \in DOMAIN out : Respond(Answer("error", provider, UnreadBody, req[i].item, out[i]))
  BY DEF ErrorReply
<1>2. Answer("error", provider, UnreadBody, req[i].item, out[i]).kind = "error"
  BY DEF Answer
<1> QED BY <1>1, <1>2, RespondInv

LEMMA CrashInv == ASSUME PipelineInv, Crash PROVE PipelineInv'
<1>1. /\ crashes' = crashes + 1 /\ wire' = {} /\ UNCHANGED held /\ HandlerReturns /\ Reset
      /\ answer' = IF phase = "idle" THEN answer ELSE Status("reset")
  BY DEF Crash
<1>2. IInv'
  BY <1>1, NextIInv DEF Next, PipelineInv
<1>3. crashes \in Nat /\ held \subseteq Tokens \X Values \X Nat
  BY DEF PipelineInv, PipelineTypeOK
<1>4. \A h \in held : h[3] \in Nat /\ h[3] <= crashes
  BY <1>3 DEF PipelineInv, HeldDecodes
<1>5. PipelineTypeOK' /\ Scrubbed' /\ AllAccounted' /\ GoesOnClean'
  BY <1>1, <1>3, LocalsGoneClean DEF HandlerReturns
<1>6. HeldDecodes' /\ WireDecodes' /\ HeldTokensComeBack'
  BY <1>1, <1>3, <1>4 DEF HeldDecodes, WireDecodes, HeldTokensComeBack
<1>7. QuotesComeBack'
  BY <1>1 DEF PipelineInv, QuotesComeBack, Status, Answer
<1> QED BY <1>2, <1>5, <1>6, <1>7 DEF PipelineInv

-----------------------------------------------------------------------------
LEMMA PipelineStutterInv == ASSUME PipelineInv, UNCHANGED pipelineVars PROVE PipelineInv'
<1>1. UNCHANGED <<vars, phase, provider, req, out, block, gaps, swept, answer, held, wire, crashes>>
  BY DEF pipelineVars, request
<1>2. IInv' /\ UNCHANGED <<v2p, p2v, counters>>
  BY <1>1, SessionUntouched DEF PipelineInv, vars
<1>3. PipelineTypeOK' /\ GoesOnClean'
  BY <1>1 DEF PipelineInv, PipelineTypeOK, GoesOnClean
<1>4. Scrubbed'
  BY <1>1, <1>2 DEF PipelineInv, Scrubbed, Kept, Masked, Dropped
<1>5. AllAccounted'
  BY <1>1 DEF PipelineInv, AllAccounted, Accounted, TreatmentAt, PolicyBlocks
<1>6. HeldDecodes' /\ WireDecodes' /\ QuotesComeBack' /\ HeldTokensComeBack'
  BY <1>1, <1>2 DEF PipelineInv, HeldDecodes, WireDecodes, QuotesComeBack, HeldTokensComeBack
<1> QED BY <1>2, <1>3, <1>4, <1>5, <1>6 DEF PipelineInv

LEMMA PipelineNextInv == PipelineInv /\ [PipelineNext]_pipelineVars => PipelineInv'
<1> SUFFICES ASSUME PipelineInv, [PipelineNext]_pipelineVars PROVE PipelineInv'
  OBVIOUS
<1>1. CASE Connect \/ Accept \/ Reject \/ ClientReads \/ ClientLeaves
  BY <1>1, AcceptInv, ClientInv
<1>2. CASE ScanFinds \/ ScanFindsNothing \/ StageTwoFails \/ ScanFails \/ PassOn
  BY <1>2, ScanFindsInv, ScanFindsNothingInv, StageTwoFailsInv, ScanFailsInv, PassOnInv
<1>3. CASE Sweep \/ SweepFails \/ Forward
  BY <1>3, SweepInv, ForwardInv
<1>4. CASE Reply \/ ErrorReply \/ UpstreamFails \/ UpstreamSilent \/ UpstreamTimesOut \/ Crash
  BY <1>4, ReplyInv, ErrorReplyInv, UpstreamLostInv, CrashInv
<1>5. CASE UNCHANGED pipelineVars
  BY <1>5, PipelineStutterInv
<1> QED BY <1>1, <1>2, <1>3, <1>4, <1>5 DEF PipelineNext

(* The invariant of the way of a request: what each place became, what the   *)
(* block flag has to hold, and that clients and upstream agree with the      *)
(* session map.                                                              *)
THEOREM PipelineInvariance == PipelineSpec => []PipelineInv
BY PipelineInitInv, PipelineNextInv, PTL DEF PipelineSpec

(* proxy._handle_post and the scrubbers: a raw value goes upstream only      *)
(* where Stage 2 failed on it or the policy or the walk leaves the place     *)
(* alone, and never a blocked one past a tripwire that ran.                  *)
THEOREM RawLeavesByPolicy == PipelineSpec => []RawOnlyByPolicy
<1>1. PipelineInv => RawOnlyByPolicy
  <2> SUFFICES ASSUME PipelineInv, Leaving, NEW i \in DOMAIN out, Raw(out[i])
               PROVE  /\ TreatmentAt(i) = "scan" => out[i] \in NerValues /\ i \in gaps
                      /\ ~ PolicyBlocks(TreatmentAt(i))
                      /\ swept => out[i] \notin BlockValues
    BY DEF RawOnlyByPolicy, TreatmentAt
  <2>1. Accounted(i) /\ ~ block
    BY DEF Leaving, PipelineInv, AllAccounted, GoesOnClean
  <2>2. swept => out[i] \notin BlockValues
    BY DEF Leaving, PipelineInv, GoesOnClean
  <2> QED BY <2>1, <2>2 DEF Accounted
<1> QED BY <1>1, PipelineInvariance, PTL

(* A request in which a secret was found, whose scan raised or to which the  *)
(* policy objects is never sent, although its payload has been masked.       *)
THEOREM RefusedIsNotSent == PipelineSpec => []RefusedStaysHere
<1>1. PipelineInv => RefusedStaysHere
  <2> SUFFICES ASSUME PipelineInv, Leaving, NEW i \in DOMAIN out
               PROVE  /\ TreatmentAt(i) = "scan" =>
                             req[i].item \notin BlockValues /\ out[i] # Nothing
                      /\ ~ PolicyBlocks(TreatmentAt(i))
    BY DEF RefusedStaysHere, TreatmentAt
  <2>1. Accounted(i) /\ ~ block
    BY DEF Leaving, PipelineInv, AllAccounted, GoesOnClean
  <2>2. out[i] \in Text /\ Nothing \notin Text
    BY GoingOn, TokensAreNotRaw DEF Leaving, PipelineInv, Kept, Masked, Text
  <2> QED BY <2>1, <2>2 DEF Accounted
<1> QED BY <1>1, PipelineInvariance, PTL

(* Whatever a restored place of a reply quotes of the request reads as the   *)
(* client wrote it, also where an earlier request masked the value.          *)
THEOREM QuotesAreRestored == PipelineSpec => []QuotesComeBack
<1>1. PipelineInv => QuotesComeBack
  BY DEF PipelineInv
<1> QED BY <1>1, PipelineInvariance, PTL

(* A token that slipped through to a client keeps its meaning as long as the *)
(* process lives.                                                            *)
THEOREM HeldTokensAreRestored == PipelineSpec => []HeldTokensComeBack
<1>1. PipelineInv => HeldTokensComeBack
  BY DEF PipelineInv
<1> QED BY <1>1, PipelineInvariance, PTL

(* Over all requests of a process the upstream sees one token per value and  *)
(* one value per token.                                                      *)
THEOREM UpstreamSeesPseudonyms == PipelineSpec => []WireOneToOne
<1>1. PipelineInv => WireOneToOne
  <2> SUFFICES ASSUME PipelineInv, NEW m \in wire, NEW n \in wire PROVE m[1] = n[1] <=> m[2] = n[2]
    BY DEF WireOneToOne
  <2>1. m[2] \in DOMAIN p2v /\ p2v[m[2]] = m[1] /\ n[2] \in DOMAIN p2v /\ p2v[n[2]] = n[1]
    BY DEF PipelineInv, WireDecodes
  <2>2. \A t \in DOMAIN p2v : v2p[p2v[t]] = t
    BY DEF PipelineInv, IInv, Inverse
  <2> QED BY <2>1, <2>2
<1> QED BY <1>1, PipelineInvariance, PTL

-----------------------------------------------------------------------------
(* Every step of the pipeline is a call of encode, a reset or none.          *)
LEMMA StepsOnSession == [PipelineNext]_pipelineVars => [Next]_vars
<1> SUFFICES ASSUME [PipelineNext]_pipelineVars PROVE [Next]_vars
  OBVIOUS
<1>1. ASSUME NEW v \in Values, Encode(v, CategoryOf(v), v \in BlockValues) PROVE Next
  <2>1. CategoryOf(v) \in Categories /\ (v \in BlockValues) \in BOOLEAN
    BY CategoryIsOne
  <2> QED BY <1>1, <2>1 DEF Next
<1>2. CASE ScanFinds
  BY <1>1, <1>2 DEF ScanFinds, ScanValue, Raw
<1>3. CASE StageTwoFails
  BY <1>1, <1>3 DEF StageTwoFails, Raw
<1>4. CASE Crash
  BY <1>4 DEF Crash, Next
<1>5. CASE \/ Connect \/ Accept \/ Reject \/ ScanFindsNothing \/ ScanFails \/ PassOn
           \/ Sweep \/ SweepFails \/ Forward \/ Reply \/ ErrorReply \/ UpstreamFails
           \/ UpstreamSilent \/ UpstreamTimesOut \/ ClientReads \/ ClientLeaves
  BY <1>5 DEF Connect, Accept, Reject, ScanFindsNothing, ScanFails, PassOn, Sweep, SweepFails,
              Finish, Forward, Reply, ErrorReply, UpstreamFails, UpstreamSilent, UpstreamTimesOut,
              CallEnds, ClientReads, ClientLeaves, Respond
<1>6. CASE UNCHANGED pipelineVars
  BY <1>6 DEF pipelineVars
<1> QED BY <1>2, <1>3, <1>4, <1>5, <1>6 DEF PipelineNext

(* So the pipeline is a user of the session map that keeps to its interface, *)
LEMMA UsesSessionMap == PipelineSpec => Spec
<1>1. PipelineInit => Init
  BY DEF PipelineInit
<1> QED BY <1>1, StepsOnSession, PTL DEF PipelineSpec, Spec

(* and what it keeps of its clients' values implements the abstract store    *)
(* of pseudonyms, crashes included.                                          *)
THEOREM PipelineImplementsPseudonyms == PipelineSpec => RefinesPseudonyms
BY UsesSessionMap, ImplementsPseudonyms, PTL

(* The dictionaries are inverse to each other through all requests.          *)
THEOREM PipelineMapsInverse == PipelineSpec => []Inverse
BY UsesSessionMap, MapsInverse, PTL

-----------------------------------------------------------------------------
(* The policy loader, for any pin-lists, settings, files and gates, and any  *)
(* number of writes.  Neither PinsGuarded nor KnownMeansLoaded is inductive: *)
(* what a load puts in force it has read some steps before, so the invariant *)
(* also speaks of what the threads hold between the read and the swap.       *)

\* c may have its pins put in force: the file has held them.
Backed(c) == (c.form = "valid" /\ Approved(c)) => c.pins \in offered

\* Nothing a thread or the file can put in force was never offered.
AllBacked == NoPins \in offered /\ Backed(file) /\ \A t \in Threads : Backed(raw[t])

\* A write makes an mtime the loader has not seen.
MtimesPast == mtime <= writes /\ lastMtime <= writes

UnloadedIsDefault == ~current.loaded => current = SecureDefaults

\* What a thread is about to swap in is the file, unless it has raced.
SwapsFile == \A t \in Threads : pc[t] = "swap" =>
               raw[t].form = "valid" /\ (~raced => mtime # 0 /\ raw[t] = file)

PInv == /\ PolicyTypeOK /\ MtimesPast /\ AllBacked /\ PinsGuarded
        /\ UnloadedIsDefault /\ SwapsFile /\ KnownMeansLoaded

-----------------------------------------------------------------------------
LEMMA EmptyIsContent == EmptyPolicy \in Contents /\ SecureDefaults \in Configs
BY PolicyAssumption DEF EmptyPolicy, Contents, SecureDefaults, Configs

\* The initial states satisfy the invariant: no thread has read anything yet.
LEMMA InitPInv == PolicyInit => PInv
<1> SUFFICES ASSUME PolicyInit PROVE PInv
  OBVIOUS
<1>1. file \in Contents
  BY EmptyIsContent, PolicyAssumption DEF PolicyInit
<1>2. PolicyTypeOK
  <2>1. offered \in SUBSET PinLists
    BY <1>1, PolicyAssumption DEF PolicyInit, Offers, Contents
  <2>2. gate \in [Gates -> [state : {"idle", "staged", "writing", "committed", "rejected"},
                            proposed : PinLists, read : Contents]]
    BY EmptyIsContent, PolicyAssumption DEF PolicyInit
  <2>3. /\ mtime \in Mtimes /\ writes \in Mtimes /\ lastMtime \in Mtimes
        /\ observed \in Mtimes /\ seen \in [Threads -> Mtimes]
    BY PolicyAssumption DEF PolicyInit, Mtimes
  <2>4. /\ pc \in [Threads -> {"off", "idle", "stat", "compare", "read", "revert", "swap", "detect"}]
        /\ pc["caller"] \notin {"off", "detect"}
    BY DEF PolicyInit, Threads
  <2>5. raw \in [Threads -> Contents] /\ current \in Configs /\ lastPins \in PinLists
    BY EmptyIsContent, PolicyAssumption DEF PolicyInit
  <2> QED
    BY <1>1, <2>1, <2>2, <2>3, <2>4, <2>5 DEF PolicyInit, PolicyTypeOK
<1>3. MtimesPast
  BY DEF PolicyInit, MtimesPast
<1>4. AllBacked
  BY DEF PolicyInit, AllBacked, Backed, Offers, EmptyPolicy, Threads
<1>5. PinsGuarded /\ UnloadedIsDefault
  BY DEF PolicyInit, PinsGuarded, UnloadedIsDefault, SecureDefaults
<1>6. SwapsFile
  BY DEF PolicyInit, SwapsFile, Threads
<1>7. KnownMeansLoaded
  BY DEF PolicyInit, KnownMeansLoaded
<1> QED
  BY <1>2, <1>3, <1>4, <1>5, <1>6, <1>7 DEF PInv

-----------------------------------------------------------------------------
(* The type invariant, by owner of the variables.                          *)

Steps == {"off", "idle", "stat", "compare", "read", "revert", "swap", "detect"}
GateStates == {"idle", "staged", "writing", "committed", "rejected"}

DiskTypes == /\ file \in Contents /\ mtime \in Mtimes /\ writes \in Mtimes
             /\ offered \in SUBSET PinLists /\ raced \in BOOLEAN
LoaderTypes == current \in Configs /\ lastMtime \in Mtimes /\ lastPins \in PinLists
ThreadTypes == /\ pc \in [Threads -> Steps] /\ pc["caller"] \notin {"off", "detect"}
               /\ seen \in [Threads -> Mtimes] /\ raw \in [Threads -> Contents]
               /\ pending \in BOOLEAN /\ observed \in Mtimes
GateTypes == gate \in [Gates -> [state : GateStates, proposed : PinLists, read : Contents]]

LEMMA TypeParts == PolicyTypeOK <=> DiskTypes /\ LoaderTypes /\ ThreadTypes /\ GateTypes
BY DEF PolicyTypeOK, DiskTypes, LoaderTypes, ThreadTypes, GateTypes, Steps, GateStates

LEMMA TypePartsNext ==
  PolicyTypeOK' <=> DiskTypes' /\ LoaderTypes' /\ ThreadTypes' /\ GateTypes'
BY DEF PolicyTypeOK, DiskTypes, LoaderTypes, ThreadTypes, GateTypes, Steps, GateStates

\* A step of a thread that puts nothing in force keeps the invariant if no
\* thread gets to "swap" by it and what it changes of raw is cleared.
Quiet == \A u \in Threads : /\ raw'[u] \in {raw[u], EmptyPolicy}
                            /\ pc'[u] = "swap" => pc[u] = "swap" /\ raw'[u] = raw[u]

LEMMA QuietStep ==
  ASSUME PInv, Quiet, ThreadTypes', UNCHANGED <<loader, disk, gate>>
  PROVE  PInv'
<1>1. PolicyTypeOK'
  BY TypeParts, TypePartsNext
  DEF PInv, DiskTypes, LoaderTypes, GateTypes, loader, disk
<1>2. MtimesPast' /\ PinsGuarded' /\ UnloadedIsDefault' /\ KnownMeansLoaded'
  BY DEF PInv, MtimesPast, PinsGuarded, UnloadedIsDefault, KnownMeansLoaded, InForce,
         SecureDefaults, loader, disk
<1>3. AllBacked'
  <2>1. Backed(EmptyPolicy)'
    BY DEF PInv, AllBacked, Backed, EmptyPolicy, disk
  <2>2. Backed(file)' /\ (NoPins \in offered)' /\ \A u \in Threads : offered' = offered /\ Backed(raw[u])
    BY DEF PInv, AllBacked, Backed, disk
  <2> QED
    BY <2>1, <2>2 DEF AllBacked, Backed, Quiet
<1>4. SwapsFile'
  BY DEF PInv, SwapsFile, Quiet, disk
<1> QED
  BY <1>1, <1>2, <1>3, <1>4 DEF PInv

\* What Goto and Return do to the threads.
LEMMA GotoTypes ==
  ASSUME PInv, NEW t \in Threads, NEW step \in Steps, Goto(t, step),
         t = "caller" => step \notin {"off", "detect"}
  PROVE  /\ pc' \in [Threads -> Steps] /\ pc'["caller"] \notin {"off", "detect"}
         /\ pc'[t] = step /\ \A u \in Threads \ {t} : pc'[u] = pc[u]
BY TypeParts DEF PInv, ThreadTypes, Goto, Threads

LEMMA ReturnQuiet ==
  ASSUME PInv, NEW t \in Threads, Return(t)
  PROVE  ThreadTypes' /\ Quiet
<1>1. /\ pc' \in [Threads -> Steps] /\ pc'["caller"] \notin {"off", "detect"}
      /\ pc'[t] = "idle" /\ \A u \in Threads \ {t} : pc'[u] = pc[u]
  BY GotoTypes DEF Return, Steps
<1>2. /\ seen' \in [Threads -> Mtimes] /\ raw' \in [Threads -> Contents]
      /\ raw'[t] = EmptyPolicy /\ \A u \in Threads \ {t} : raw'[u] = raw[u]
  BY TypeParts, EmptyIsContent, PolicyAssumption DEF PInv, ThreadTypes, Return, Mtimes
<1>3. pending' \in BOOLEAN /\ observed' \in Mtimes
  <2>1. pending \in BOOLEAN /\ observed \in Mtimes /\ 0 \in Mtimes
    BY TypeParts, PolicyAssumption DEF PInv, ThreadTypes, Mtimes
  <2>2. \/ pending' = FALSE /\ observed' = 0
        \/ pending' = pending /\ observed' = observed
    BY Zenon DEF Return
  <2> QED
    BY <2>1, <2>2, Zenon
<1> QED
  BY <1>1, <1>2, <1>3 DEF ThreadTypes, Quiet

-----------------------------------------------------------------------------
(* The file and the gate.                                                  *)

\* A write of any content: its mtime is new, so the loader does not know it,
\* and a thread about to swap has raced from here on.
LEMMA WriteStep ==
  ASSUME PInv, NEW c \in Contents, Write(c), UNCHANGED <<loader, threads>>, GateTypes'
  PROVE  PInv'
<1>1. DiskTypes'
  <2>1. writes' \in Mtimes /\ mtime' \in Mtimes
    BY TypeParts, PolicyAssumption DEF PInv, DiskTypes, Write, Mtimes
  <2>2. offered' \in SUBSET PinLists
    BY TypeParts DEF PInv, DiskTypes, Write, Offers, Contents
  <2>3. raced' \in BOOLEAN
    BY TypeParts, Zenon DEF PInv, DiskTypes, Write, Swapping
  <2> QED
    BY <2>1, <2>2, <2>3 DEF DiskTypes, Write
<1>2. PolicyTypeOK'
  BY <1>1, TypeParts, TypePartsNext DEF PInv, LoaderTypes, ThreadTypes, loader, threads
<1>3. MtimesPast' /\ mtime' # lastMtime'
  BY TypeParts, PolicyAssumption DEF PInv, MtimesPast, DiskTypes, LoaderTypes, Mtimes, Write, loader
<1>4. AllBacked'
  <2>1. offered \subseteq offered' /\ Backed(file)'
    BY DEF Write, Offers, Backed
  <2> QED
    BY <2>1 DEF PInv, AllBacked, Backed, threads
<1>5. PinsGuarded' /\ UnloadedIsDefault'
  BY DEF PInv, PinsGuarded, UnloadedIsDefault, SecureDefaults, Write, loader
<1>6. SwapsFile'
  BY DEF PInv, SwapsFile, Write, Swapping, threads
<1>7. KnownMeansLoaded'
  BY <1>3 DEF KnownMeansLoaded
<1> QED
  BY <1>2, <1>3, <1>4, <1>5, <1>6, <1>7 DEF PInv

LEMMA RemoveStep == ASSUME PInv, Remove PROVE PInv'
<1>1. DiskTypes'
  <2>1. raced' \in BOOLEAN
    BY TypeParts, Zenon DEF PInv, DiskTypes, Remove, Swapping
  <2> QED
    BY <2>1, TypeParts, EmptyIsContent, PolicyAssumption DEF PInv, DiskTypes, Remove, Mtimes
<1>2. PolicyTypeOK'
  BY <1>1, TypeParts, TypePartsNext DEF PInv, LoaderTypes, ThreadTypes, GateTypes, loader, threads, Remove
<1>3. MtimesPast'
  BY TypeParts, PolicyAssumption DEF PInv, MtimesPast, DiskTypes, LoaderTypes, Mtimes, Remove, loader
<1>4. AllBacked'
  BY DEF PInv, AllBacked, Backed, EmptyPolicy, Remove, threads
<1>5. PinsGuarded' /\ UnloadedIsDefault' /\ KnownMeansLoaded'
  BY DEF PInv, PinsGuarded, UnloadedIsDefault, SecureDefaults, KnownMeansLoaded, Remove, loader
<1>6. SwapsFile'
  BY DEF PInv, SwapsFile, Remove, Swapping, threads
<1> QED
  BY <1>2, <1>3, <1>4, <1>5, <1>6 DEF PInv

\* Until it commits, the gate touches nothing else.
LEMMA GateOnlyStep ==
  ASSUME PInv, GateTypes', UNCHANGED <<loader, threads, disk>>
  PROVE  PInv'
<1>1. PolicyTypeOK'
  BY TypeParts, TypePartsNext
  DEF PInv, DiskTypes, LoaderTypes, ThreadTypes, loader, threads, disk
<1>2. MtimesPast' /\ PinsGuarded' /\ UnloadedIsDefault' /\ KnownMeansLoaded'
  BY DEF PInv, MtimesPast, PinsGuarded, UnloadedIsDefault, KnownMeansLoaded, InForce,
         SecureDefaults, loader, disk
<1>3. AllBacked' /\ SwapsFile'
  BY DEF PInv, AllBacked, Backed, SwapsFile, threads, disk
<1> QED
  BY <1>1, <1>2, <1>3 DEF PInv

LEMMA RawIsContent == PInv => PolicyRaw \in Contents
BY TypeParts, EmptyIsContent DEF PInv, DiskTypes, PolicyRaw

LEMMA GatingStep == ASSUME PInv, NEW g \in Gates, Gating(g) PROVE PInv'
<1> USE TypeParts DEF PInv
<1>1. ASSUME NEW pins \in PinLists, Propose(g, pins) PROVE PInv'
  <2>1. GateTypes'
    BY <1>1 DEF GateTypes, GateStates, Propose
  <2> QED
    BY <1>1, <2>1, GateOnlyStep DEF Propose
<1>2. ASSUME RejectProposal(g) PROVE PInv'
  <2>1. GateTypes'
    BY <1>2, EmptyIsContent, PolicyAssumption DEF GateTypes, GateStates, RejectProposal
  <2> QED
    BY <1>2, <2>1, GateOnlyStep DEF RejectProposal
<1>3. ASSUME Approve(g) PROVE PInv'
  <2>1. GateTypes'
    BY <1>3, RawIsContent DEF GateTypes, GateStates, Approve
  <2> QED
    BY <1>3, <2>1, GateOnlyStep DEF Approve
<1>4. ASSUME Commit(g) PROVE PInv'
  <2>1. GateTypes'
    BY <1>4, EmptyIsContent, PolicyAssumption DEF GateTypes, GateStates, Commit
  <2>2. PICK form \in {gate[g].read.form, "valid"} :
           Write([gate[g].read EXCEPT !.form = form, !.pins = gate[g].proposed, !.approval = "yes"])
    BY <1>4 DEF Commit
  <2>3. [gate[g].read EXCEPT !.form = form, !.pins = gate[g].proposed, !.approval = "yes"] \in Contents
    <3>1. gate[g].read \in Contents /\ gate[g].proposed \in PinLists
      BY TypeParts DEF PInv, GateTypes
    <3>2. PICK c \in Contents, l \in PinLists : c = gate[g].read /\ l = gate[g].proposed
      BY <3>1
    <3>3. [c EXCEPT !.form = form, !.pins = l, !.approval = "yes"] \in Contents
      BY <2>2, <3>2 DEF Contents
    <3> QED
      BY <3>2, <3>3
  <2> QED
    BY <1>4, <2>1, <2>2, <2>3, WriteStep DEF Commit
<1>5. ASSUME CommitFails(g) PROVE PInv'
  <2>1. GateTypes'
    BY <1>5, EmptyIsContent DEF GateTypes, GateStates, CommitFails
  <2> QED
    BY <1>5, <2>1, GateOnlyStep DEF CommitFails
<1> QED
  BY <1>1, <1>2, <1>3, <1>4, <1>5 DEF Gating

LEMMA UserStep == ASSUME PInv, User PROVE PInv'
<1>1. ASSUME NEW c \in Saved, Save(c) PROVE PInv'
  BY <1>1, WriteStep, TypeParts, PolicyAssumption DEF PInv, Save, GateTypes
<1> QED
  BY <1>1, RemoveStep DEF User

-----------------------------------------------------------------------------
(* Loading and watching.                                                   *)

\* A thread goes on to any step but "swap" and keeps what it has read.
LEMMA GoOnStep ==
  ASSUME PInv, NEW t \in Threads, NEW step \in Steps \ {"swap"}, Goto(t, step),
         t = "caller" => step \notin {"off", "detect"},
         seen' \in [Threads -> Mtimes], pending' \in BOOLEAN, observed' \in Mtimes,
         UNCHANGED <<raw, loader, disk, gate>>
  PROVE  PInv'
<1>1. /\ pc' \in [Threads -> Steps] /\ pc'["caller"] \notin {"off", "detect"}
      /\ pc'[t] = step /\ \A u \in Threads \ {t} : pc'[u] = pc[u]
  BY GotoTypes
<1>2. ThreadTypes'
  BY <1>1, TypeParts DEF PInv, ThreadTypes
<1>3. Quiet
  BY <1>1 DEF Quiet
<1> QED
  BY <1>2, <1>3, QuietStep

\* The watcher's locals keep their types, changed or not.
LEMMA LocalTypes ==
  ASSUME PInv
  PROVE  /\ 0 \in Mtimes /\ mtime \in Mtimes
         /\ seen \in [Threads -> Mtimes] /\ pending \in BOOLEAN /\ observed \in Mtimes
         /\ Note => pending' \in BOOLEAN /\ observed' \in Mtimes
<1>1. /\ 0 \in Mtimes /\ mtime \in Mtimes /\ "watcher" \in Threads
      /\ seen \in [Threads -> Mtimes] /\ pending \in BOOLEAN /\ observed \in Mtimes
  BY TypeParts, PolicyAssumption DEF PInv, ThreadTypes, DiskTypes, Mtimes, Threads
<1>2. Note => pending' \in BOOLEAN
  BY <1>1, Zenon DEF Note, Changed
<1>3. Note => observed' \in Mtimes
  BY <1>1 DEF Note
<1> QED
  BY <1>1, <1>2, <1>3

LEMMA StatStep == ASSUME PInv, NEW t \in Threads, StatFile(t) PROVE PInv'
<1>1. seen' \in [Threads -> Mtimes] /\ pending' \in BOOLEAN /\ observed' \in Mtimes
  BY LocalTypes DEF StatFile
<1>2. \E step \in {"revert", "compare"} : Goto(t, step)
  BY DEF StatFile
<1> QED
  BY <1>1, <1>2, GoOnStep DEF StatFile, Steps

LEMMA CompareStep == ASSUME PInv, NEW t \in Threads, CompareMtime(t) PROVE PInv'
<1>1. CASE seen[t] = lastMtime
  BY <1>1, ReturnQuiet, QuietStep DEF CompareMtime
<1>2. CASE seen[t] # lastMtime
  BY <1>2, LocalTypes, GoOnStep DEF CompareMtime, Steps
<1> QED
  BY <1>1, <1>2

LEMMA ReadStep == ASSUME PInv, NEW t \in Threads, ReadText(t) PROVE PInv'
<1>1. CASE mtime = 0 /\ Goto(t, "revert") /\ UNCHANGED <<seen, raw, pending, observed>>
  BY <1>1, LocalTypes, GoOnStep DEF ReadText, Steps
<1>2. CASE Return(t)
  BY <1>2, ReturnQuiet, QuietStep DEF ReadText
<1>3. CASE /\ mtime # 0 /\ file.form = "valid" /\ Goto(t, "swap")
           /\ raw' = [raw EXCEPT ![t] = file]
           /\ UNCHANGED <<seen, pending, observed>>
  <2>1. /\ pc' \in [Threads -> Steps] /\ pc'["caller"] \notin {"off", "detect"}
        /\ pc'[t] = "swap" /\ \A u \in Threads \ {t} : pc'[u] = pc[u]
    BY <1>3, GotoTypes DEF Steps
  <2>2. raw' \in [Threads -> Contents] /\ raw'[t] = file /\ \A u \in Threads \ {t} : raw'[u] = raw[u]
    BY <1>3, TypeParts DEF PInv, ThreadTypes, DiskTypes
  <2>3. PolicyTypeOK'
    BY <1>3, <2>1, <2>2, TypeParts, TypePartsNext
    DEF PInv, DiskTypes, LoaderTypes, ThreadTypes, GateTypes, ReadText, loader, disk
  <2>4. MtimesPast' /\ PinsGuarded' /\ UnloadedIsDefault' /\ KnownMeansLoaded'
    BY DEF PInv, MtimesPast, PinsGuarded, UnloadedIsDefault, KnownMeansLoaded, InForce,
           SecureDefaults, ReadText, loader, disk
  <2>5. AllBacked'
    BY <2>2 DEF PInv, AllBacked, Backed, ReadText, disk
  <2>6. SwapsFile'
    BY <1>3, <2>1, <2>2 DEF PInv, SwapsFile, ReadText, disk
  <2> QED
    BY <2>3, <2>4, <2>5, <2>6 DEF PInv
<1> QED
  BY <1>1, <1>2, <1>3 DEF ReadText

\* Back to the defaults: what was loaded is no longer taken for known.
LEMMA RevertStep == ASSUME PInv, NEW t \in Threads, RevertToDefaults(t) PROVE PInv'
<1>1. ThreadTypes' /\ Quiet
  BY ReturnQuiet DEF RevertToDefaults
<1>2. PolicyTypeOK'
  BY <1>1, TypeParts, TypePartsNext, EmptyIsContent, LocalTypes
  DEF PInv, DiskTypes, LoaderTypes, GateTypes, RevertToDefaults, disk
<1>3. MtimesPast'
  BY TypeParts, PolicyAssumption DEF PInv, MtimesPast, DiskTypes, Mtimes, RevertToDefaults, disk
<1>4. AllBacked'
  <2>1. offered' = offered /\ file' = file /\ Backed(EmptyPolicy)
    BY DEF PInv, AllBacked, Backed, EmptyPolicy, RevertToDefaults, disk
  <2> QED
    BY <1>1, <2>1 DEF PInv, AllBacked, Backed, Quiet
<1>5. PinsGuarded' /\ UnloadedIsDefault'
  BY DEF PInv, AllBacked, PinsGuarded, UnloadedIsDefault, SecureDefaults, RevertToDefaults, disk
<1>6. SwapsFile'
  BY <1>1 DEF PInv, SwapsFile, Quiet, RevertToDefaults, disk
<1>7. KnownMeansLoaded'
  BY DEF PInv, KnownMeansLoaded, InForce, UnloadedIsDefault, RevertToDefaults, disk
<1> QED
  BY <1>2, <1>3, <1>4, <1>5, <1>6, <1>7 DEF PInv

\* The swap: pins that pass the guard are those of the last swap, or approved.
LEMMA SwapStep == ASSUME PInv, NEW t \in Threads, SwapConfig(t) PROVE PInv'
<1> DEFINE c == raw[t]
<1>1. ThreadTypes' /\ Quiet
  BY ReturnQuiet DEF SwapConfig
<1>2. c \in Contents /\ c.form = "valid" /\ Backed(c) /\ (~raced => mtime # 0 /\ c = file)
  BY TypeParts DEF PInv, ThreadTypes, AllBacked, SwapsFile, SwapConfig
<1>3. /\ current'.loaded /\ current'.settings = c.settings /\ lastMtime' = mtime
      /\ current' \in Configs /\ lastPins' \in PinLists
      /\ IF GuardAllows(c) THEN current'.pins = c.pins /\ lastPins' = c.pins
                           ELSE current'.pins = current.pins /\ lastPins' = lastPins
  BY <1>2, TypeParts DEF PInv, LoaderTypes, Configs, Contents, SwapConfig
<1>4. PolicyTypeOK'
  BY <1>1, <1>3, TypeParts, TypePartsNext
  DEF PInv, DiskTypes, LoaderTypes, GateTypes, SwapConfig, disk
<1>5. MtimesPast'
  BY <1>3 DEF PInv, MtimesPast, SwapConfig, disk
<1>6. AllBacked'
  <2>1. offered' = offered /\ file' = file /\ Backed(EmptyPolicy)
    BY DEF PInv, AllBacked, Backed, EmptyPolicy, SwapConfig, disk
  <2> QED
    BY <1>1, <2>1 DEF PInv, AllBacked, Backed, Quiet
<1>7. PinsGuarded'
  <2>1. GuardAllows(c) => c.pins \in offered
    BY <1>2 DEF PInv, GuardAllows, Backed, PinsGuarded
  <2> QED
    BY <1>3, <2>1 DEF PInv, PinsGuarded, SwapConfig, disk
<1>8. UnloadedIsDefault'
  BY <1>3 DEF UnloadedIsDefault
<1>9. SwapsFile'
  BY <1>1 DEF PInv, SwapsFile, Quiet, SwapConfig, disk
<1>10. KnownMeansLoaded'
  <2>1. file' = file /\ mtime' = mtime /\ raced' = raced
    BY DEF SwapConfig, disk
  <2> QED
    BY <1>2, <1>3, <2>1 DEF KnownMeansLoaded, InForce, GuardAllows
<1> QED
  BY <1>4, <1>5, <1>6, <1>7, <1>8, <1>9, <1>10 DEF PInv

LEMMA WatchStep == ASSUME PInv, StartWatcher \/ StopWatcher \/ Watch PROVE PInv'
<1> USE LocalTypes, GoOnStep DEF Threads, Steps
<1>1. ASSUME StartWatcher PROVE PInv'
  BY <1>1 DEF StartWatcher
<1>2. ASSUME StopWatcher PROVE PInv'
  BY <1>2 DEF StopWatcher
<1>3. ASSUME Poll PROVE PInv'
  BY <1>3 DEF Poll
<1>4. ASSUME KeepWaiting PROVE PInv'
  BY <1>4 DEF KeepWaiting
<1>5. ASSUME Settle PROVE PInv'
  BY <1>5 DEF Settle
<1> QED
  BY <1>1, <1>2, <1>3, <1>4, <1>5 DEF Watch

LEMMA NextPInv == PInv /\ [PolicyNext]_policyVars => PInv'
<1> SUFFICES ASSUME PInv, [PolicyNext]_policyVars PROVE PInv'
  OBVIOUS
<1>1. CASE User
  BY <1>1, UserStep
<1>2. CASE \E g \in Gates : Gating(g)
  BY <1>2, GatingStep
<1>3. CASE \E t \in Threads : Load(t)
  BY <1>3, StatStep, CompareStep, ReadStep, RevertStep, SwapStep DEF Load
<1>4. CASE ReloadIfChanged
  BY <1>4, LocalTypes, GoOnStep DEF ReloadIfChanged, Threads, Steps
<1>5. CASE StartWatcher \/ StopWatcher \/ Watch
  BY <1>5, WatchStep
<1>6. CASE UNCHANGED policyVars
  BY <1>6, GateOnlyStep, TypeParts DEF PInv, policyVars, GateTypes
<1> QED
  BY <1>1, <1>2, <1>3, <1>4, <1>5, <1>6 DEF PolicyNext

-----------------------------------------------------------------------------
(* The theorems.                                                           *)

\* The invariant the three results below are read off.
THEOREM PolicyInvariant == PolicySpec => []PInv
BY InitPInv, NextPInv, PTL DEF PolicySpec

\* Every state the loader, its threads and the gates can reach is well-typed.
THEOREM PolicyTypeCorrect == PolicySpec => []PolicyTypeOK
<1>1. PInv => PolicyTypeOK
  BY DEF PInv
<1> QED
  BY <1>1, PolicyInvariant, PTL

\* No pin-list comes into force that the file has not held without a refusal.
THEOREM PinListsGuarded == PolicySpec => []PinsGuarded
<1>1. PInv => PinsGuarded
  BY DEF PInv
<1> QED
  BY <1>1, PolicyInvariant, PTL

\* As long as no write fell between a read and its stat, a file with the mtime
\* the loader knows is the one in force.
THEOREM KnownFileInForce == PolicySpec => []KnownMeansLoaded
<1>1. PInv => KnownMeansLoaded
  BY DEF PInv
<1> QED
  BY <1>1, PolicyInvariant, PTL
================================================================================
