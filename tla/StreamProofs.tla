---------------------------- MODULE StreamProofs ----------------------------
(***************************************************************************)
(* The look-ahead buffer and the relay of a streamed reply, for any        *)
(* lengths, deltas and streams: HeldBack, OnlyForceSplits of               *)
(* LookAheadBuffer and EventsKeepTheirPlace, NoTokenDelivered and          *)
(* ClientTextRestored of StreamRelay hold of every behaviour.              *)
(*                                                                         *)
(* OnlyForceSplits speaks of placeholders that later deltas complete, so   *)
(* its invariant (Uncrossed) rules out the beginnings of placeholders too, *)
(* and has to know that a forced emission leaves MaxLen characters behind, *)
(* past the end of any placeholder that began before it.                   *)
(*                                                                         *)
(* The text theorems rest on RestoredJoin: where no token reaches over a   *)
(* place, the two sides can be restored one by one.  A cut is such a       *)
(* place, an unforced one by Uncrossed, whatever is fed later, a forced    *)
(* one unless it severs a token, and that is known as soon as it is made,  *)
(* by ForcedLeaves.  So what the client has is the restored text of what   *)
(* the buffer has returned (Delivered).                                    *)
(***************************************************************************)
EXTENDS StreamRelay, DataLemmas

\* What a text may be made of, once reads have cut characters.
Alphabet == Chars \cup {"?"}

-----------------------------------------------------------------------------
(* The buffer.                                                             *)

\* What has not been returned is what the buffer holds.
Accounted == /\ fed \in Seq(Alphabet) /\ out \in Seq(Alphabet) /\ buf \in Seq(Alphabet)
             /\ fed = out \o buf

\* Cuts lie in what has been returned, the last of them at its end.
CutsMade == cuts \subseteq 0..Len(out) /\ Len(out) \in cuts /\ forced \subseteq cuts

\* From an unforced cut no placeholder reaches over it, nor can one any more.
Crosses(i, k) == \/ \E j \in k + 1..Len(fed) : PlaceholderAt(fed, i, j)
                 \/ open /\ CouldBePlaceholderPrefix(Suffix(fed, i))
Uncrossed == \A k \in cuts \ forced : \A i \in 1..k : ~ Crosses(i, k)

ForcedLeaves == open /\ Len(out) \in forced => Len(buf) = MaxLen

BufferInv == Accounted /\ open \in BOOLEAN /\ CutsMade /\ Uncrossed /\ ForcedLeaves /\ HeldBack

-----------------------------------------------------------------------------
\* The beginning of a text and the rest.
LEMMA Parts ==
  ASSUME NEW s \in Seq(Alphabet), NEW n \in 0..Len(s)
  PROVE  /\ Prefix(s, n) \in Seq(Alphabet) /\ Len(Prefix(s, n)) = n
         /\ Suffix(s, n + 1) \in Seq(Alphabet) /\ Len(Suffix(s, n + 1)) = Len(s) - n
         /\ \A i \in 1..n : Prefix(s, n)[i] = s[i]
         /\ \A i \in 1..Len(s) - n : Suffix(s, n + 1)[i] = s[n + i]
<1>1. Len(s) \in Nat /\ n \in Int /\ n + 1 \in Int /\ 1 \in Int /\ \A i \in 1..Len(s) : s[i] \in Alphabet
  BY LenProperties, ElementOfSeq
<1>2. \A i \in 1..n : s[i] \in Alphabet
  BY <1>1
<1>3. /\ Prefix(s, n) \in Seq(Alphabet) /\ Len(Prefix(s, n)) = (IF 1 <= n THEN n - 1 + 1 ELSE 0)
      /\ \A i \in 1..n - 1 + 1 : Prefix(s, n)[i] = s[1 + i - 1]
  BY <1>1, <1>2, SubSeqProperties DEF Prefix
<1>4. \A i \in n + 1..Len(s) : s[i] \in Alphabet
  BY <1>1
<1>5. /\ Suffix(s, n + 1) \in Seq(Alphabet)
      /\ Len(Suffix(s, n + 1)) = (IF n + 1 <= Len(s) THEN Len(s) - (n + 1) + 1 ELSE 0)
      /\ \A i \in 1..Len(s) - (n + 1) + 1 : Suffix(s, n + 1)[i] = s[n + 1 + i - 1]
  BY <1>1, <1>4, SubSeqProperties DEF Suffix
<1>6. \A i \in Int : n + 1 + i - 1 = n + i /\ 1 + i - 1 = i
  BY <1>1
<1> QED
  BY <1>1, <1>3, <1>5, <1>6

LEMMA Glued ==
  ASSUME NEW s \in Seq(Alphabet), NEW t \in Seq(Alphabet)
  PROVE  /\ s \o t \in Seq(Alphabet) /\ Len(s \o t) = Len(s) + Len(t)
         /\ \A i \in 1..Len(s) : (s \o t)[i] = s[i]
         /\ \A i \in 1..Len(t) : (s \o t)[Len(s) + i] = t[i]
<1>1. Len(s) \in Nat /\ Len(t) \in Nat
  BY LenProperties
<1> QED
  BY <1>1, ConcatProperties

\* Two parts of a text make it whole.
LEMMA Whole ==
  ASSUME NEW b \in Seq(Alphabet), NEW p \in Seq(Alphabet), NEW q \in Seq(Alphabet),
         Len(p) + Len(q) = Len(b),
         \A i \in 1..Len(p) : p[i] = b[i],
         \A i \in 1..Len(q) : q[i] = b[Len(p) + i]
  PROVE  p \o q = b
<1>1. Len(p) \in Nat /\ Len(q) \in Nat
  BY LenProperties
<1>2. p \o q \in Seq(Alphabet) /\ Len(p \o q) = Len(b)
  BY Glued
<1>3. ASSUME NEW i \in 1..Len(b) PROVE (p \o q)[i] = b[i]
  <2>1. CASE i <= Len(p)
    BY <1>1, <2>1, Glued
  <2>2. CASE i > Len(p)
    <3>1. PICK j \in 1..Len(q) : i = Len(p) + j
      <4>1. i - Len(p) \in 1..Len(q) /\ i = Len(p) + (i - Len(p))
        BY <1>1, <2>2
      <4> QED
        BY <4>1
    <3> QED
      BY <3>1, Glued
  <2> QED
    BY <1>1, <2>1, <2>2
<1> QED
  BY <1>2, <1>3, SeqEqual

\* Emitting takes the beginning of a text to what was returned before.
LEMMA Emitted ==
  ASSUME NEW o \in Seq(Alphabet), NEW b \in Seq(Alphabet), NEW n \in 0..Len(b)
  PROVE  /\ o \o Prefix(b, n) \in Seq(Alphabet) /\ Len(o \o Prefix(b, n)) = Len(o) + n
         /\ Suffix(b, n + 1) \in Seq(Alphabet) /\ Len(Suffix(b, n + 1)) = Len(b) - n
         /\ (o \o Prefix(b, n)) \o Suffix(b, n + 1) = o \o b
<1>1. PICK p \in Seq(Alphabet) : p = Prefix(b, n)
  BY Parts
<1>2. PICK q \in Seq(Alphabet) : q = Suffix(b, n + 1)
  BY Parts
<1>3. /\ Len(p) = n /\ Len(q) = Len(b) - n /\ Len(b) \in Nat
      /\ \A i \in 1..n : p[i] = b[i]
      /\ \A i \in 1..Len(b) - n : q[i] = b[n + i]
  BY <1>1, <1>2, Parts, LenProperties
<1>4. p \o q = b
  <2>1. Len(p) + Len(q) = Len(b)
    BY <1>3
  <2>2. \A i \in 1..Len(p) : p[i] = b[i]
    BY <1>3
  <2>3. \A i \in 1..Len(q) : q[i] = b[Len(p) + i]
    BY <1>3
  <2> QED
    BY <2>1, <2>2, <2>3, Whole
<1>5. (o \o p) \o q = o \o (p \o q)
  BY ConcatAssociative
<1>6. o \o p \in Seq(Alphabet) /\ Len(o \o p) = Len(o) + n
  BY <1>3, Glued
<1> QED
  BY <1>1, <1>2, <1>3, <1>4, <1>5, <1>6

\* What may become a placeholder, seen in the text it ends.
LEMMA PrefixAt ==
  ASSUME NEW s \in Seq(Alphabet), NEW i \in 1..Len(s)
  PROVE  CouldBePlaceholderPrefix(Suffix(s, i)) <=>
           /\ s[i] = "[" /\ Len(s) - i < MaxLen
           /\ i < Len(s) => s[i + 1] = Upper
           /\ \A k \in i + 2..Len(s) : s[k] \in {Upper, Digit}
<1>1. PICK n \in 0..Len(s) : i = n + 1 /\ Len(s) \in Nat /\ n < Len(s)
  <2>1. i - 1 \in 0..Len(s) /\ i = i - 1 + 1 /\ i - 1 < Len(s) /\ Len(s) \in Nat
    BY LenProperties
  <2> QED
    BY <2>1
<1>2. PICK t \in Seq(Alphabet) : t = Suffix(s, i)
  BY <1>1, Parts
<1>3. /\ Len(t) = Len(s) - n /\ Len(t) \in Nat \ {0} /\ t # <<>>
      /\ \A k \in 1..Len(s) - n : t[k] = s[n + k]
  <2>1. Len(t) = Len(s) - n /\ \A k \in 1..Len(s) - n : t[k] = s[n + k]
    BY <1>1, <1>2, Parts
  <2>2. Len(t) \in Nat \ {0}
    BY <1>1, <2>1
  <2> QED
    BY <2>1, <2>2, EmptySeq
<1>4. t[1] = s[i] /\ (Len(t) > 1 => t[2] = s[i + 1]) /\ (Len(t) > 1 <=> i < Len(s))
  BY <1>1, <1>3
<1>5. (Len(t) <= MaxLen) <=> (Len(s) - i < MaxLen)
  BY <1>1, <1>3, BufferAssumption
<1>6. (\A k \in 3..Len(t) : t[k] \in {Upper, Digit}) <=> (\A k \in i + 2..Len(s) : s[k] \in {Upper, Digit})
  <2>1. \A k \in 3..Len(t) : n + k \in i + 2..Len(s) /\ t[k] = s[n + k]
    BY <1>1, <1>3
  <2>2. \A k \in i + 2..Len(s) : k - n \in 3..Len(t) /\ s[k] = t[k - n]
    <3>1. \A k \in i + 2..Len(s) : k - n \in 3..Len(t) /\ k - n \in 1..Len(s) - n /\ n + (k - n) = k
      BY <1>1, <1>3
    <3> QED
      BY <1>3, <3>1
  <2> QED
    BY <2>1, <2>2
<1> QED
  BY <1>2, <1>3, <1>4, <1>5, <1>6 DEF CouldBePlaceholderPrefix

\* What is held back begins with a bracket, and nothing before or after it
\* may become a placeholder.
LEMMA Boundary ==
  ASSUME NEW b \in Seq(Alphabet), NEW n, n = FindSafeBoundary(b)
  PROVE  /\ n \in 0..Len(b) /\ Len(b) - n <= MaxLen
         /\ n < Len(b) => b[n + 1] = "["
         /\ \A i \in 1..n : ~ CouldBePlaceholderPrefix(Suffix(b, i))
<1> DEFINE held == {i \in 1..Len(b) : CouldBePlaceholderPrefix(Suffix(b, i))}
<1>0. Len(b) \in Nat
  BY LenProperties
<1>1. CASE held = {}
  <2>1. n = Len(b)
    BY <1>1 DEF FindSafeBoundary
  <2> QED
    BY <1>0, <1>1, <2>1, BufferAssumption
<1>2. CASE held # {}
  <2>1. \A i, j \in held : i = j
    <3>1. ASSUME NEW i \in held, NEW j \in held, i < j PROVE FALSE
      <4>1. i \in 1..Len(b) /\ j \in 1..Len(b) /\ b[j] = "["
        BY PrefixAt
      <4>2. CASE j = i + 1
        BY <1>0, <3>1, <4>1, <4>2, PrefixAt DEF Upper
      <4>3. CASE j # i + 1
        <5>1. j \in i + 2..Len(b)
          BY <1>0, <3>1, <4>1, <4>3
        <5> QED
          BY <4>1, <5>1, PrefixAt DEF Upper, Digit
      <4> QED
        BY <4>2, <4>3
    <3> QED
      BY <1>0, <3>1
  <2>2. PICK h \in held : h = (CHOOSE i \in held : \A j \in held : i >= j)
    <3>1. \E i \in held : \A j \in held : i >= j
      BY <1>0, <1>2, <2>1
    <3> QED
      BY <3>1
  <2>3. n = h - 1 /\ h \in 1..Len(b) /\ b[h] = "[" /\ Len(b) - h < MaxLen
    BY <1>2, <2>2, PrefixAt DEF FindSafeBoundary
  <2>4. \A i \in 1..n : ~ CouldBePlaceholderPrefix(Suffix(b, i))
    BY <1>0, <2>1, <2>3
  <2> QED
    BY <1>0, <2>3, <2>4, BufferAssumption
<1> QED
  BY <1>1, <1>2

-----------------------------------------------------------------------------
\* What a feed does, with names for the text it works on.
LEMMA Fed ==
  ASSUME BufferInv, NEW chunk \in Seq(Alphabet), Feed(chunk)
  PROVE  \E b \in Seq(Alphabet) : \E n \in 0..Len(b) :
           /\ b = buf \o chunk /\ n = SafeLength(b) /\ Len(b) = Len(buf) + Len(chunk)
           /\ fed' = out \o b /\ fed' = fed \o chunk /\ Accounted'
           /\ Len(out') = Len(out) + n /\ Len(buf') = Len(b) - n
           /\ cuts' = cuts \cup {Len(out) + n}
           /\ forced' = IF Oversized(b) THEN forced \cup {Len(out) + n} ELSE forced
           /\ open /\ open'
<1>1. PICK b \in Seq(Alphabet) : b = buf \o chunk /\ Len(b) = Len(buf) + Len(chunk)
  BY Glued DEF BufferInv, Accounted
<1>2. Len(b) \in Nat /\ Len(out) \in Nat
  BY LenProperties DEF BufferInv, Accounted
<1>3. PICK n \in 0..Len(b) : n = SafeLength(b)
  <2>1. CASE Oversized(b)
    <3>1. Len(b) - MaxLen \in 0..Len(b)
      BY <1>2, <2>1, BufferAssumption DEF Oversized
    <3> QED
      BY <2>1, <3>1 DEF SafeLength
  <2>2. CASE ~ Oversized(b)
    <3>1. FindSafeBoundary(b) \in 0..Len(b)
      BY Boundary
    <3> QED
      BY <2>2, <3>1 DEF SafeLength
  <2> QED
    BY <2>1, <2>2
<1>4. /\ fed' = fed \o chunk /\ out' = out \o Prefix(b, n) /\ buf' = Suffix(b, n + 1)
      /\ cuts' = cuts \cup {Len(out) + n} /\ open /\ open'
      /\ forced' = IF Oversized(b) THEN forced \cup {Len(out) + n} ELSE forced
  BY <1>1, <1>3 DEF Feed, Emit
<1>5. out \in Seq(Alphabet) /\ buf \in Seq(Alphabet) /\ fed = out \o buf
  BY DEF BufferInv, Accounted
<1>6. (out \o buf) \o chunk = out \o (buf \o chunk)
  BY <1>5, ConcatAssociative
<1>7. /\ out' \in Seq(Alphabet) /\ Len(out') = Len(out) + n
      /\ buf' \in Seq(Alphabet) /\ Len(buf') = Len(b) - n
      /\ out' \o buf' = out \o b
  BY <1>4, <1>5, Emitted
<1>8. fed' = out \o b /\ fed' \in Seq(Alphabet)
  BY <1>1, <1>4, <1>5, <1>6, Glued
<1> QED
  BY <1>1, <1>3, <1>4, <1>7, <1>8 DEF Accounted

\* Text that is added makes no placeholder reach over an old cut.
LEMMA Extended ==
  ASSUME BufferInv, NEW chunk \in Seq(Alphabet), fed' = fed \o chunk, open,
         NEW k \in cuts \ forced, NEW i \in 1..k
  PROVE  ~ Crosses(i, k)'
<1>1. /\ fed \in Seq(Alphabet) /\ fed' \in Seq(Alphabet) /\ Len(fed) \in Nat /\ Len(fed') \in Nat
      /\ Len(fed) <= Len(fed') /\ \A x \in 1..Len(fed) : fed'[x] = fed[x]
  BY Glued, LenProperties DEF BufferInv, Accounted
<1>2. k \in Nat /\ i \in Nat /\ k <= Len(fed) /\ i \in 1..Len(fed) /\ i \in 1..Len(fed')
  <2>1. Len(fed) = Len(out) + Len(buf) /\ Len(out) \in Nat /\ Len(buf) \in Nat
    BY Glued, LenProperties DEF BufferInv, Accounted
  <2> QED
    BY <1>1, <2>1 DEF BufferInv, CutsMade
<1>3. ~ CouldBePlaceholderPrefix(Suffix(fed, i)) /\ \A j \in k + 1..Len(fed) : ~ PlaceholderAt(fed, i, j)
  BY DEF BufferInv, Uncrossed, Crosses
<1>4. MaxLen \in Nat
  BY BufferAssumption
<1>5. ~ CouldBePlaceholderPrefix(Suffix(fed', i))
  <2> SUFFICES ASSUME CouldBePlaceholderPrefix(Suffix(fed', i)) PROVE FALSE
    OBVIOUS
  <2>1. /\ fed'[i] = "[" /\ Len(fed') - i < MaxLen
        /\ i < Len(fed') => fed'[i + 1] = Upper
        /\ \A x \in i + 2..Len(fed') : fed'[x] \in {Upper, Digit}
    BY <1>1, <1>2, PrefixAt
  <2>2. /\ fed[i] = "[" /\ Len(fed) - i < MaxLen
        /\ i < Len(fed) => fed[i + 1] = Upper
        /\ \A x \in i + 2..Len(fed) : fed[x] \in {Upper, Digit}
    BY <1>1, <1>2, <1>4, <2>1
  <2> QED
    BY <1>1, <1>2, <1>3, <2>2, PrefixAt
<1>6. ASSUME NEW j \in k + 1..Len(fed'), PlaceholderAt(fed', i, j) PROVE FALSE
  <2>1. /\ i < j - 1 /\ j - i < MaxLen /\ j \in Nat
        /\ fed'[i] = "[" /\ fed'[i + 1] = Upper /\ fed'[j] = "]"
        /\ \A x \in (i + 2)..(j - 1) : fed'[x] \in {Upper, Digit}
    BY <1>2, <1>6 DEF PlaceholderAt
  <2>2. CASE j <= Len(fed)
    <3>1. j \in k + 1..Len(fed)
      BY <1>1, <1>2, <2>1, <2>2
    <3>2. PlaceholderAt(fed, i, j)
      BY <1>1, <1>2, <2>1, <2>2 DEF PlaceholderAt
    <3> QED
      BY <1>3, <3>1, <3>2
  <2>3. CASE j > Len(fed)
    <3>1. /\ fed[i] = "[" /\ Len(fed) - i < MaxLen
          /\ i < Len(fed) => fed[i + 1] = Upper
          /\ \A x \in i + 2..Len(fed) : fed[x] \in {Upper, Digit}
      BY <1>1, <1>2, <1>4, <2>1, <2>3
    <3> QED
      BY <1>1, <1>2, <1>3, <3>1, PrefixAt
  <2> QED
    BY <1>1, <2>1, <2>2, <2>3
<1> QED
  BY <1>5, <1>6 DEF Crosses

\* Nor does a placeholder reach over a cut the boundary makes.
LEMMA NewCut ==
  ASSUME BufferInv, NEW chunk \in Seq(Alphabet), Feed(chunk),
         ~ Oversized(buf \o chunk), NEW k, k = Len(out'), NEW i \in 1..k
  PROVE  ~ Crosses(i, k)'
<1>0. PICK b \in Seq(Alphabet) : \E n \in 0..Len(b) :
        /\ b = buf \o chunk /\ n = SafeLength(b) /\ Len(b) = Len(buf) + Len(chunk)
        /\ fed' = out \o b /\ fed' = fed \o chunk /\ Len(out') = Len(out) + n /\ open
  BY Fed
<1>1. PICK m \in 0..Len(b) :
        /\ b = buf \o chunk /\ m = FindSafeBoundary(b) /\ Len(b) = Len(buf) + Len(chunk)
        /\ fed' = out \o b /\ fed' = fed \o chunk /\ Len(out') = Len(out) + m /\ open
  BY <1>0 DEF SafeLength
<1>2. /\ out \in Seq(Alphabet) /\ Len(out) \in Nat /\ Len(buf) \in Nat /\ Len(b) \in Nat
      /\ Len(chunk) \in Nat /\ fed' \in Seq(Alphabet) /\ Len(fed') = Len(out) + Len(b)
      /\ \A x \in 1..Len(b) : fed'[Len(out) + x] = b[x]
  <2>1. out \in Seq(Alphabet) /\ buf \in Seq(Alphabet)
    BY DEF BufferInv, Accounted
  <2>2. Len(out) \in Nat /\ Len(buf) \in Nat /\ Len(b) \in Nat /\ Len(chunk) \in Nat
    BY <2>1, LenProperties
  <2>3. PICK o \in Seq(Alphabet) : o = out
    BY <2>1
  <2>4. /\ o \o b \in Seq(Alphabet) /\ Len(o \o b) = Len(o) + Len(b)
        /\ \A x \in 1..Len(b) : (o \o b)[Len(o) + x] = b[x]
    BY Glued
  <2> QED
    BY <1>1, <2>1, <2>2, <2>3, <2>4
<1>3. m \in Nat /\ m <= Len(b) /\ k = Len(out) + m /\ k \in Nat /\ i \in Nat /\ i <= k /\ MaxLen \in Nat
  BY <1>1, <1>2, BufferAssumption
<1>4. /\ m < Len(b) => b[m + 1] = "["
      /\ \A x \in 1..m : ~ CouldBePlaceholderPrefix(Suffix(b, x))
  BY <1>1, Boundary
<1>5. ASSUME NEW j \in k + 1..Len(fed'), PlaceholderAt(fed', i, j) PROVE FALSE
  <2>0. j \in Nat /\ k + 1 <= j /\ j <= Len(fed')
    BY <1>2, <1>3
  <2>1. m < Len(b) /\ fed'[k + 1] = "["
    <3>1. m < Len(b) /\ m + 1 \in 1..Len(b) /\ Len(out) + (m + 1) = k + 1
      BY <1>2, <1>3, <2>0
    <3> QED
      BY <1>2, <1>4, <3>1
  <2>2. /\ i < j - 1 /\ j \in Nat
        /\ fed'[i + 1] = Upper /\ fed'[j] = "]"
        /\ \A x \in (i + 2)..(j - 1) : fed'[x] \in {Upper, Digit}
    BY <1>2, <1>3, <1>5 DEF PlaceholderAt
  <2>3. k + 1 = i + 1 \/ k + 1 = j \/ k + 1 \in (i + 2)..(j - 1)
    BY <1>3, <2>0, <2>2
  <2> QED
    BY <2>1, <2>2, <2>3 DEF Upper, Digit
<1>6. ~ CouldBePlaceholderPrefix(Suffix(fed', i))
  <2>1. CASE i > Len(out) /\ i <= Len(fed')
    <3>1. PICK x \in 1..m : i = Len(out) + x
      <4>1. i - Len(out) \in 1..m /\ i = Len(out) + (i - Len(out))
        BY <1>2, <1>3, <2>1
      <4> QED
        BY <4>1
    <3>2. x \in 1..Len(b) /\ i \in 1..Len(fed') /\ ~ CouldBePlaceholderPrefix(Suffix(b, x))
      BY <1>1, <1>2, <1>3, <1>4, <2>1
    <3> SUFFICES ASSUME CouldBePlaceholderPrefix(Suffix(fed', i)) PROVE FALSE
      OBVIOUS
    <3>3. /\ fed'[i] = "[" /\ Len(fed') - i < MaxLen
          /\ i < Len(fed') => fed'[i + 1] = Upper
          /\ \A y \in i + 2..Len(fed') : fed'[y] \in {Upper, Digit}
      BY <1>2, <3>2, PrefixAt
    <3>4. /\ b[x] = "[" /\ Len(b) - x < MaxLen
          /\ x < Len(b) => b[x + 1] = Upper
      <4>0. x \in Nat
        BY <3>2, <1>2
      <4>1. x < Len(b) => x + 1 \in 1..Len(b) /\ Len(out) + (x + 1) = i + 1 /\ i < Len(fed')
        BY <1>2, <3>1, <4>0
      <4>2. Len(b) - x = Len(fed') - i
        BY <1>2, <3>1
      <4>3. x < Len(b) => fed'[i + 1] = b[x + 1]
        BY <1>2, <4>1
      <4>4. b[x] = "["
        BY <1>2, <3>1, <3>2, <3>3
      <4> QED
        BY <3>3, <4>1, <4>2, <4>3, <4>4
    <3>5. \A y \in x + 2..Len(b) : b[y] \in {Upper, Digit}
      <4>1. \A y \in x + 2..Len(b) : y \in 1..Len(b) /\ Len(out) + y \in i + 2..Len(fed')
        BY <1>2, <3>1
      <4> QED
        BY <1>2, <3>3, <4>1
    <3> QED
      BY <3>2, <3>4, <3>5, PrefixAt
  <2>2. CASE i <= Len(out) /\ Len(out) \notin forced
    <3>1. Len(out) \in cuts \ forced /\ i \in 1..Len(out)
      BY <1>2, <1>3, <2>2 DEF BufferInv, CutsMade
    <3>2. PICK k0 : k0 = Len(out) /\ k0 \in cuts \ forced /\ i \in 1..k0
      BY <3>1
    <3>3. ~ Crosses(i, k0)' /\ open'
      BY <1>1, <3>2, Extended DEF Feed
    <3> QED
      BY <3>3 DEF Crosses
  <2>3. CASE i <= Len(out) /\ Len(out) \in forced
    <3>1. Len(buf) = MaxLen
      BY <1>1, <2>3 DEF BufferInv, ForcedLeaves
    <3>2. Len(fed') = Len(out) + MaxLen + Len(chunk)
      BY <1>1, <1>2, <1>3, <3>1
    <3>3. i \in 1..Len(fed') /\ ~ (Len(fed') - i < MaxLen)
      BY <1>2, <1>3, <2>3, <3>2
    <3> QED
      BY <1>2, <3>3, PrefixAt
  <2> QED
    BY <1>1, <1>2, <1>3, <2>1, <2>2, <2>3
<1> QED
  BY <1>5, <1>6 DEF Crosses

LEMMA FeedKept ==
  ASSUME BufferInv, NEW chunk \in Seq(Alphabet), Feed(chunk)
  PROVE  BufferInv'
<1>1. PICK b \in Seq(Alphabet) : \E n \in 0..Len(b) :
        /\ b = buf \o chunk /\ n = SafeLength(b) /\ Len(b) = Len(buf) + Len(chunk)
        /\ fed' = out \o b /\ fed' = fed \o chunk /\ Accounted'
        /\ Len(out') = Len(out) + n /\ Len(buf') = Len(b) - n
        /\ cuts' = cuts \cup {Len(out) + n}
        /\ forced' = IF Oversized(b) THEN forced \cup {Len(out) + n} ELSE forced
        /\ open /\ open'
  BY Fed
<1>2. PICK m \in 0..Len(b) :
        /\ b = buf \o chunk /\ m = SafeLength(b) /\ Len(b) = Len(buf) + Len(chunk)
        /\ fed' = out \o b /\ fed' = fed \o chunk /\ Accounted'
        /\ Len(out') = Len(out) + m /\ Len(buf') = Len(b) - m
        /\ cuts' = cuts \cup {Len(out) + m}
        /\ forced' = IF Oversized(b) THEN forced \cup {Len(out) + m} ELSE forced
        /\ open /\ open'
  BY <1>1
<1>3. /\ Len(out) \in Nat /\ Len(buf) \in Nat /\ Len(b) \in Nat /\ Len(chunk) \in Nat
      /\ m \in Nat /\ m <= Len(b) /\ MaxLen \in Nat \ {0} /\ MaxBuffer \in Nat
  BY LenProperties, EmptySeq, BufferAssumption DEF BufferInv, Accounted
<1>4. CutsMade'
  <2>1. cuts \subseteq 0..Len(out) /\ forced \subseteq cuts
    BY DEF BufferInv, CutsMade
  <2>2. 0..Len(out) \subseteq 0..Len(out') /\ Len(out) + m \in 0..Len(out')
    BY <1>2, <1>3
  <2> QED
    BY <1>2, <2>1, <2>2 DEF CutsMade
<1>5. CASE Oversized(b)
  <2>1. Len(b) > MaxBuffer /\ m = Len(b) - MaxLen
    BY <1>2, <1>5 DEF Oversized, SafeLength
  <2>2. Len(buf') = MaxLen
    BY <1>2, <1>3, <2>1
  <2>3. HeldBack' /\ ForcedLeaves'
    BY <1>3, <2>2 DEF HeldBack, ForcedLeaves
  <2>4. Uncrossed'
    <3> SUFFICES ASSUME NEW k \in cuts' \ forced', NEW i \in 1..k PROVE ~ Crosses(i, k)'
      BY DEF Uncrossed
    <3>1. k \in cuts \ forced
      BY <1>2, <1>5
    <3> QED
      BY <1>2, <3>1, Extended
  <2> QED
    BY <1>2, <1>4, <2>3, <2>4 DEF BufferInv
<1>6. CASE ~ Oversized(b)
  <2>1. m = FindSafeBoundary(b) /\ Len(b) - m <= MaxLen
    BY <1>2, <1>6, Boundary DEF SafeLength
  <2>2. HeldBack'
    BY <1>2, <2>1 DEF HeldBack
  <2>3. ForcedLeaves'
    <3> SUFFICES ASSUME Len(out') \in forced' PROVE Len(buf') = MaxLen
      BY DEF ForcedLeaves
    <3>1. Len(out) + m \in forced /\ forced \subseteq 0..Len(out)
      BY <1>2, <1>6 DEF BufferInv, CutsMade
    <3>2. m = 0 /\ Len(out) \in forced
      BY <1>3, <3>1
    <3>3. Len(buf) = MaxLen
      BY <1>2, <3>2 DEF BufferInv, ForcedLeaves
    <3> QED
      BY <1>2, <1>3, <2>1, <3>2, <3>3
  <2>4. Uncrossed'
    <3> SUFFICES ASSUME NEW k \in cuts' \ forced', NEW i \in 1..k PROVE ~ Crosses(i, k)'
      BY DEF Uncrossed
    <3>1. k \in cuts \ forced \/ k = Len(out')
      BY <1>2, <1>6
    <3>2. CASE k \in cuts \ forced
      BY <1>2, <3>2, Extended
    <3>3. CASE k = Len(out')
      BY <1>2, <1>6, <3>3, NewCut
    <3> QED
      BY <3>1, <3>2, <3>3
  <2> QED
    BY <1>2, <1>4, <2>2, <2>3, <2>4 DEF BufferInv
<1> QED
  BY <1>5, <1>6

LEMMA FlushKept ==
  ASSUME BufferInv, Flush
  PROVE  BufferInv'
<1>1. /\ open' = FALSE /\ fed' = fed /\ forced' = forced /\ open
      /\ out' = out \o Prefix(buf, Len(buf)) /\ buf' = Suffix(buf, Len(buf) + 1)
      /\ cuts' = cuts \cup {Len(out) + Len(buf)}
  BY DEF Flush, Emit
<1>2. /\ out \in Seq(Alphabet) /\ buf \in Seq(Alphabet) /\ fed = out \o buf /\ fed \in Seq(Alphabet)
      /\ Len(out) \in Nat /\ Len(buf) \in Nat /\ Len(buf) \in 0..Len(buf)
      /\ Len(fed) = Len(out) + Len(buf)
  BY LenProperties, Glued DEF BufferInv, Accounted
<1>3. /\ out' \in Seq(Alphabet) /\ Len(out') = Len(out) + Len(buf)
      /\ buf' \in Seq(Alphabet) /\ Len(buf') = 0 /\ out' \o buf' = out \o buf
  <2>1. PICK n \in 0..Len(buf) : n = Len(buf)
    BY <1>2
  <2>2. out' = out \o Prefix(buf, n) /\ buf' = Suffix(buf, n + 1)
    BY <1>1, <2>1
  <2>3. /\ out' \in Seq(Alphabet) /\ Len(out') = Len(out) + n
        /\ buf' \in Seq(Alphabet) /\ Len(buf') = Len(buf) - n /\ out' \o buf' = out \o buf
    BY <1>2, <2>2, Emitted
  <2> QED
    BY <1>2, <2>1, <2>3
<1>4. Accounted' /\ HeldBack' /\ ForcedLeaves'
  BY <1>1, <1>2, <1>3, BufferAssumption DEF Accounted, HeldBack, ForcedLeaves
<1>5. CutsMade'
  <2>1. cuts \subseteq 0..Len(out) /\ forced \subseteq cuts
    BY DEF BufferInv, CutsMade
  <2>2. 0..Len(out) \subseteq 0..Len(out') /\ Len(out) + Len(buf) \in 0..Len(out')
    BY <1>2, <1>3
  <2> QED
    BY <1>1, <1>3, <2>1, <2>2 DEF CutsMade
<1>6. Uncrossed'
  <2> SUFFICES ASSUME NEW k \in cuts' \ forced', NEW i \in 1..k,
                      NEW j \in k + 1..Len(fed), PlaceholderAt(fed, i, j)
               PROVE  FALSE
    BY <1>1 DEF Uncrossed, Crosses
  <2>1. CASE k \in cuts
    BY <1>1, <2>1 DEF BufferInv, Uncrossed, Crosses
  <2>2. CASE k = Len(fed)
    BY <1>2, <2>2
  <2> QED
    BY <1>1, <1>2, <2>1, <2>2
<1> QED
  BY <1>1, <1>4, <1>5, <1>6 DEF BufferInv

\* What a stream begins with.
LEMMA Fresh ==
  /\ Init => BufferInv
  /\ Reset => BufferInv'
<1>1. <<>> \in Seq(Alphabet) /\ Len(<<>>) = 0 /\ <<>> \o <<>> = <<>>
  BY EmptySeq, ConcatEmptySeq
<1>2. Init => BufferInv
  BY <1>1, BufferAssumption DEF Init, BufferInv, Accounted, CutsMade, Uncrossed, ForcedLeaves, HeldBack
<1>3. Reset => BufferInv'
  BY <1>1, BufferAssumption DEF Reset, BufferInv, Accounted, CutsMade, Uncrossed, ForcedLeaves, HeldBack
<1> QED
  BY <1>2, <1>3

LEMMA DeltasTyped ==
  ASSUME NEW chunk \in Chunks
  PROVE  chunk \in Seq(Chars) /\ chunk \in Seq(Alphabet)
<1>1. chunk \in Seq(Chars)
  BY BufferAssumption
<1>2. Chars \subseteq Alphabet
  BY DEF Alphabet
<1> QED
  BY <1>1, <1>2, SeqMonotonic

LEMMA BufferKept == BufferInv /\ [Next]_vars => BufferInv'
<1> SUFFICES ASSUME BufferInv, [Next]_vars PROVE BufferInv'
  OBVIOUS
<1>1. ASSUME NEW chunk \in Chunks, Feed(chunk) PROVE BufferInv'
  <2>1. chunk \in Seq(Alphabet)
    BY DeltasTyped
  <2> QED
    BY <1>1, <2>1, FeedKept
<1>2. CASE UNCHANGED vars
  <2>1. UNCHANGED <<buf, fed, out, cuts, forced, open>>
    BY <1>2 DEF vars
  <2>2. Uncrossed'
    BY <2>1 DEF BufferInv, Uncrossed, Crosses
  <2> QED
    BY <2>1, <2>2 DEF BufferInv, Accounted, CutsMade, ForcedLeaves, HeldBack
<1> QED
  BY <1>1, <1>2, FlushKept, Fresh DEF Next

\* The invariant of the buffer.
THEOREM BufferInvariance == Spec => []BufferInv
BY Fresh, BufferKept, PTL DEF Spec

\* No more than one placeholder's worth of text waits in the buffer.
THEOREM TextIsNotDelayed == Spec => []HeldBack
<1>1. BufferInv => HeldBack
  BY DEF BufferInv
<1> QED
  BY <1>1, BufferInvariance, PTL

\* Whatever the deltas, only a forced emission can split a placeholder, and a
\* placeholder that is complete in the end is one a cut never lay in.
THEOREM PlaceholdersStayWhole == Spec => []OnlyForceSplits
<1>1. BufferInv => OnlyForceSplits
  <2> SUFFICES ASSUME BufferInv, NEW k \in cuts \ forced, Split(k) PROVE FALSE
    BY DEF OnlyForceSplits
  <2> QED
    BY DEF Split, BufferInv, Uncrossed, Crosses
<1> QED
  BY <1>1, BufferInvariance, PTL

-----------------------------------------------------------------------------
(* The relay.                                                              *)

\* The events are records, in sequences of some set.
Lists == \E S : sent \in Seq(S) /\ got \in Seq(S)
Records == \A i \in 1..Len(sent) : sent[i] = Event(sent[i].kind, sent[i].block, sent[i].txt)

InPlace == \A i \in 1..read : got[i].kind = sent[i].kind /\ got[i].block = sent[i].block
RelayInv == /\ Lists /\ Records /\ InPlace
            /\ read \in Nat /\ read <= Len(sent) /\ read <= Len(got)
            /\ relay \in {"streaming", "blocked"} => Len(got) = read

-----------------------------------------------------------------------------
\* An element added to one of two sequences.
LEMMA Appended ==
  ASSUME NEW S, NEW s \in Seq(S), NEW t \in Seq(S), NEW e
  PROVE  /\ Append(s, e) \in Seq(S \cup {e}) /\ t \in Seq(S \cup {e})
         /\ Len(s) \in Nat /\ Len(Append(s, e)) = Len(s) + 1
         /\ \A i \in 1..Len(s) : Append(s, e)[i] = s[i]
         /\ Append(s, e)[Len(s) + 1] = e
<1>1. Seq(S) \subseteq Seq(S \cup {e})
  OBVIOUS
<1>2. s \in Seq(S \cup {e}) /\ t \in Seq(S \cup {e}) /\ e \in S \cup {e}
  BY <1>1
<1> QED
  BY <1>2, AppendProperties, LenProperties

LEMMA SendKept ==
  ASSUME RelayInv, UpstreamSend
  PROVE  RelayInv'
<1>1. PICK k, b, t : sent' = Append(sent, Event(k, b, t))
  BY DEF UpstreamSend
<1>2. UNCHANGED <<read, got, relay>>
  BY DEF UpstreamSend
<1>3. PICK e : e = Event(k, b, t)
  OBVIOUS
<1>4. PICK S : sent \in Seq(S) /\ got \in Seq(S)
  BY DEF RelayInv, Lists
<1>5. /\ sent' \in Seq(S \cup {e}) /\ got' \in Seq(S \cup {e})
      /\ Len(sent) \in Nat /\ Len(sent') = Len(sent) + 1
      /\ \A i \in 1..Len(sent) : sent'[i] = sent[i]
      /\ sent'[Len(sent) + 1] = e
  BY <1>1, <1>2, <1>3, <1>4, Appended
<1>6. e = Event(e.kind, e.block, e.txt)
  BY <1>3 DEF Event
<1>7. Records'
  <2> SUFFICES ASSUME NEW i \in 1..Len(sent') PROVE sent'[i] = Event(sent'[i].kind, sent'[i].block, sent'[i].txt)
    BY DEF Records
  <2>1. i \in 1..Len(sent) \/ i = Len(sent) + 1
    BY <1>5
  <2> QED
    BY <1>5, <1>6, <2>1 DEF RelayInv, Records
<1>8. InPlace'
  BY <1>2, <1>5 DEF RelayInv, InPlace
<1> QED
  BY <1>2, <1>5, <1>7, <1>8 DEF RelayInv, Lists

\* An event read and written, perhaps with another text.
LEMMA WriteKept ==
  ASSUME RelayInv, NEW e, Arrived(e), NEW f, f.kind = e.kind, f.block = e.block, Write(f)
  PROVE  RelayInv'
<1>1. /\ got' = Append(got, f) /\ read' = read + 1 /\ UNCHANGED <<sent, relay>>
      /\ relay = "streaming" /\ read < Len(sent) /\ e = sent[read + 1]
  BY DEF Write, Arrived
<1>2. PICK S : sent \in Seq(S) /\ got \in Seq(S)
  BY DEF RelayInv, Lists
<1>3. /\ got' \in Seq(S \cup {f}) /\ sent' \in Seq(S \cup {f})
      /\ Len(got) \in Nat /\ Len(got') = Len(got) + 1
      /\ \A i \in 1..Len(got) : got'[i] = got[i]
      /\ got'[Len(got) + 1] = f
  BY <1>1, <1>2, Appended
<1>4. Len(got) = read /\ read \in Nat /\ Len(sent) \in Nat
  BY <1>1, <1>2, LenProperties DEF RelayInv
<1>5. InPlace'
  <2> SUFFICES ASSUME NEW i \in 1..read + 1
               PROVE  got'[i].kind = sent[i].kind /\ got'[i].block = sent[i].block
    BY <1>1 DEF InPlace
  <2>1. i \in 1..read \/ i = read + 1
    BY <1>4
  <2> QED
    BY <1>1, <1>3, <1>4, <2>1 DEF RelayInv, InPlace
<1>6. Records'
  BY <1>1 DEF RelayInv, Records
<1> QED
  BY <1>1, <1>3, <1>4, <1>5, <1>6 DEF RelayInv, Lists

LEMMA RelayKept == RelayInv /\ [RelayNext]_relayVars => RelayInv'
<1> SUFFICES ASSUME RelayInv, [RelayNext]_relayVars PROVE RelayInv'
  OBVIOUS
<1>1. ASSUME NEW e \in {sent[i] : i \in 1..Len(sent)}, NEW t, Arrived(e), FeedAndWrite(e, t)
      PROVE  RelayInv'
  <2>1. PICK f : f = [e EXCEPT !.txt = Restored(Returned)]
    OBVIOUS
  <2>2. e = Event(e.kind, e.block, e.txt)
    BY DEF RelayInv, Records
  <2>3. f.kind = e.kind /\ f.block = e.block
    BY <2>1, <2>2 DEF Event
  <2> QED
    BY <1>1, <2>1, <2>3, WriteKept DEF FeedAndWrite
<1>2. ASSUME NEW e, Arrived(e), Write(e) PROVE RelayInv'
  BY <1>2, WriteKept
<1>3. ASSUME EndOfStream PROVE RelayInv'
  <2>1. /\ relay' = "closed" /\ UNCHANGED <<sent, read>>
        /\ got' = IF buf = <<>> THEN got ELSE Append(got, Event("text", 0, Restored(buf)))
    BY <1>3 DEF EndOfStream
  <2>2. PICK f : f = Event("text", 0, Restored(buf))
    OBVIOUS
  <2>3. PICK S : sent \in Seq(S) /\ got \in Seq(S)
    BY DEF RelayInv, Lists
  <2>4. /\ Lists' /\ Len(got) <= Len(got') /\ Len(got) \in Nat
        /\ \A i \in 1..Len(got) : got'[i] = got[i]
    <3>1. CASE buf = <<>>
      BY <2>1, <2>3, <3>1, LenProperties DEF Lists
    <3>2. CASE buf # <<>>
      <4>1. /\ got' \in Seq(S \cup {f}) /\ sent' \in Seq(S \cup {f})
            /\ Len(got) \in Nat /\ Len(got') = Len(got) + 1
            /\ \A i \in 1..Len(got) : got'[i] = got[i]
        BY <2>1, <2>2, <2>3, <3>2, Appended
      <4> QED
        BY <4>1 DEF Lists
    <3> QED
      BY <3>1, <3>2
  <2>5. InPlace' /\ Records'
    BY <2>1, <2>4 DEF RelayInv, InPlace, Records
  <2> QED
    BY <2>1, <2>4, <2>5 DEF RelayInv
<1>4. ASSUME UNCHANGED <<sent, read, got>>,
             relay' \in {"streaming", "blocked"} => relay \in {"streaming", "blocked"}
      PROVE RelayInv'
  BY <1>4 DEF RelayInv, Lists, Records, InPlace
<1>5. UpstreamSilent \/ UpstreamEnd \/ UpstreamReset \/ UpstreamFailed \/ Timeout
        \/ WriteBlocks \/ ClientReads \/ ClientLeft \/ UNCHANGED relayVars
        => /\ UNCHANGED <<sent, read, got>>
           /\ relay' \in {"streaming", "blocked"} => relay \in {"streaming", "blocked"}
  BY DEF UpstreamSilent, UpstreamEnd, UpstreamReset, UpstreamFailed, Timeout,
         WriteBlocks, ClientReads, ClientLeft, relayVars
<1>6. RelayText \/ RelayCutText => RelayInv'
  BY <1>1 DEF RelayText, RelayCutText
<1>7. RelayOther \/ RelayFramed => RelayInv'
  BY <1>2 DEF RelayOther, RelayFramed
<1> QED
  BY <1>3, <1>4, <1>5, <1>6, <1>7, SendKept DEF RelayNext

LEMMA RelayBegins == RelayInit => RelayInv
BY EmptySeq DEF RelayInit, RelayInv, Lists, Records, InPlace

\* The invariant of the relay.
THEOREM RelayInvariance == RelaySpec => []RelayInv
BY RelayBegins, RelayKept, PTL DEF RelaySpec

\* Whatever a reply is made of, however it is cut and whoever goes away, the
\* relay writes one event for each it reads, of its kind and block and in its
\* place.
THEOREM EventsInPlace == RelaySpec => []EventsKeepTheirPlace
<1>1. RelayInv => EventsKeepTheirPlace
  <2> SUFFICES ASSUME RelayInv PROVE EventsKeepTheirPlace
    OBVIOUS
  <2>1. Len(got) \in Nat
    BY LenProperties DEF RelayInv, Lists
  <2> QED
    BY <2>1 DEF RelayInv, InPlace, EventsKeepTheirPlace
<1> QED
  BY <1>1, RelayInvariance, PTL

-----------------------------------------------------------------------------
(* Restored text.  A token is three characters in a row, and what becomes of *)
(* each character depends on itself and its two neighbours to either side.   *)

\* A token, character by character.
LEMMA TokenChars ==
  ASSUME NEW S, NEW s \in Seq(S), NEW i \in Int
  PROVE  TokenAt(s, i) <=> /\ i \in 1..Len(s) - 2
                           /\ s[i] = "[" /\ s[i + 1] = Upper /\ s[i + 2] = "]"
<1>0. Len(s) \in Nat
  BY LenProperties
<1>1. CASE i \notin 1..Len(s) - 2
  BY <1>1 DEF TokenAt
<1>2. CASE i \in 1..Len(s) - 2
  <2> DEFINE t == SubSeq(s, i, i + 2)
  <2>1. i \in 1..Len(s) /\ i + 1 \in 1..Len(s) /\ i + 2 \in 1..Len(s)
    BY <1>0, <1>2
  <2>2. \A j \in i..i + 2 : j \in 1..Len(s)
    BY <1>0, <1>2
  <2>3. Len(t) = 3 /\ t \in Seq(S) /\ t[1] = s[i] /\ t[2] = s[i + 1] /\ t[3] = s[i + 2]
    <3>1. s[i] \in S /\ s[i + 1] \in S /\ s[i + 2] \in S /\ \A j \in i..i + 2 : s[j] \in S
      BY <2>1, <2>2, ElementOfSeq
    <3>2. /\ t \in Seq(S) /\ Len(t) = (IF i <= i + 2 THEN i + 2 - i + 1 ELSE 0)
          /\ \A j \in 1..i + 2 - i + 1 : t[j] = s[i + j - 1]
      BY <3>1, SubSeqProperties
    <3>3. i + 2 - i + 1 = 3 /\ i + 1 - 1 = i /\ i + 2 - 1 = i + 1 /\ i + 3 - 1 = i + 2
      OBVIOUS
    <3>4. 1 \in 1..i + 2 - i + 1 /\ 2 \in 1..i + 2 - i + 1 /\ 3 \in 1..i + 2 - i + 1 /\ i <= i + 2
      OBVIOUS
    <3>5. t[1] = s[i + 1 - 1] /\ t[2] = s[i + 2 - 1] /\ t[3] = s[i + 3 - 1]
      BY <3>2, <3>4
    <3> QED
      BY <3>2, <3>3, <3>4, <3>5
  <2>4. Token[1] = "[" /\ Token[2] = Upper /\ Token[3] = "]"
    BY DEF Token
  <2>5. t[1] = "[" /\ t[2] = Upper /\ t[3] = "]" => t = Token
    <3> HAVE t[1] = "[" /\ t[2] = Upper /\ t[3] = "]"
    <3> DEFINE A == S \cup {"[", Upper, "]"}
    <3>1. t \in Seq(A)
      BY <2>3, SeqMonotonic
    <3>2. Token \in Seq(A) /\ Len(Token) = 3
      BY DEF Token
    <3> HIDE DEF t, A
    <3>3. \A j \in 1..3 : j = 1 \/ j = 2 \/ j = 3
      OBVIOUS
    <3>4. \A j \in 1..Len(t) : t[j] = Token[j]
      BY <2>3, <2>4, <3>3
    <3> QED
      BY <2>3, <3>1, <3>2, <3>4, SeqEqual
  <2> HIDE DEF t
  <2>6. t = Token <=> s[i] = "[" /\ s[i + 1] = Upper /\ s[i + 2] = "]"
    BY <2>3, <2>4, <2>5
  <2> QED
    BY <1>2, <2>6 DEF TokenAt, t
<1> QED
  BY <1>1, <1>2

\* In two texts one after the other a token lies in one of them, or over
\* their meeting.
LEMMA TokenJoin ==
  ASSUME NEW S, NEW s \in Seq(S), NEW t \in Seq(S), NEW i \in Int,
         ~ TokenAt(s \o t, Len(s) - 1), ~ TokenAt(s \o t, Len(s))
  PROVE  TokenAt(s \o t, i) <=> TokenAt(s, i) \/ TokenAt(t, i - Len(s))
<1> DEFINE r == s \o t
<1>0. /\ Len(s) \in Nat /\ Len(t) \in Nat /\ r \in Seq(S) /\ Len(r) = Len(s) + Len(t)
      /\ \A j \in 1..Len(s) : r[j] = s[j]
      /\ \A j \in 1..Len(r) : j > Len(s) => r[j] = t[j - Len(s)]
  BY LenProperties, ConcatProperties
<1>1. ~ TokenAt(r, Len(s) - 1) /\ ~ TokenAt(r, Len(s))
  OBVIOUS
<1> HIDE DEF r
<1>2. /\ TokenAt(r, i) <=> i \in 1..Len(r) - 2 /\ r[i] = "[" /\ r[i + 1] = Upper /\ r[i + 2] = "]"
      /\ TokenAt(s, i) <=> i \in 1..Len(s) - 2 /\ s[i] = "[" /\ s[i + 1] = Upper /\ s[i + 2] = "]"
  BY <1>0, TokenChars
<1>3. CASE i <= Len(s) - 2
  <2>1. ~ TokenAt(t, i - Len(s))
    BY <1>0, <1>3 DEF TokenAt
  <2>2. i >= 1 => i \in 1..Len(s) /\ i + 1 \in 1..Len(s) /\ i + 2 \in 1..Len(s)
    BY <1>0, <1>3
  <2>3. i \in 1..Len(r) - 2 <=> i \in 1..Len(s) - 2
    BY <1>0, <1>3
  <2>4. i >= 1 => r[i] = s[i] /\ r[i + 1] = s[i + 1] /\ r[i + 2] = s[i + 2]
    BY <1>0, <2>2
  <2> QED
    BY <1>2, <2>1, <2>3, <2>4 DEF r
<1>4. CASE i = Len(s) - 1 \/ i = Len(s)
  <2>1. ~ TokenAt(t, i - Len(s)) /\ ~ TokenAt(s, i)
    BY <1>0, <1>4 DEF TokenAt
  <2> QED
    BY <1>1, <1>4, <2>1 DEF r
<1>5. CASE i > Len(s)
  <2>0. PICK j \in Int : j = i - Len(s)
    <3>1. i - Len(s) \in Int
      BY <1>0
    <3> QED BY <3>1
  <2>1. j >= 1 /\ i = Len(s) + j
    BY <1>0, <1>5, <2>0
  <2>2. TokenAt(t, j) <=> j \in 1..Len(t) - 2 /\ t[j] = "[" /\ t[j + 1] = Upper /\ t[j + 2] = "]"
    BY TokenChars
  <2>3. i \in 1..Len(r) - 2 <=> j \in 1..Len(t) - 2
    BY <1>0, <2>1
  <2>4. j \in 1..Len(t) - 2 => r[i] = t[j] /\ r[i + 1] = t[j + 1] /\ r[i + 2] = t[j + 2]
    <3> HAVE j \in 1..Len(t) - 2
    <3>1. /\ i \in 1..Len(r) /\ i + 1 \in 1..Len(r) /\ i + 2 \in 1..Len(r)
          /\ i > Len(s) /\ i + 1 > Len(s) /\ i + 2 > Len(s)
          /\ i - Len(s) = j /\ i + 1 - Len(s) = j + 1 /\ i + 2 - Len(s) = j + 2
      BY <1>0, <2>1
    <3>2. r[i] = t[i - Len(s)] /\ r[i + 1] = t[i + 1 - Len(s)] /\ r[i + 2] = t[i + 2 - Len(s)]
      BY <1>0, <3>1
    <3> QED
      BY <3>1, <3>2
  <2>5. ~ TokenAt(s, i)
    BY <1>0, <1>5 DEF TokenAt
  <2> QED
    BY <1>2, <2>0, <2>2, <2>3, <2>4, <2>5 DEF r
<1>6. i <= Len(s) - 2 \/ i = Len(s) - 1 \/ i = Len(s) \/ i > Len(s)
  BY <1>0
<1> QED
  BY <1>3, <1>4, <1>5, <1>6

\* What Restored makes of the character at a place.
Letters == Alphabet \cup {Value}
PieceAt(s, i) ==
    IF TokenAt(s, i) THEN <<Value>>
    ELSE IF TokenAt(s, i - 1) \/ TokenAt(s, i - 2) THEN <<>>
    ELSE <<s[i]>>
PiecesOf(s) == [i \in 1..Len(s) |-> PieceAt(s, i)]

LEMMA PiecesTyped ==
  ASSUME NEW s \in Seq(Alphabet)
  PROVE  PiecesOf(s) \in [1..Len(s) -> Seq(Letters)] /\ Len(s) \in Nat
<1>1. <<Value>> \in Seq(Letters) /\ <<>> \in Seq(Letters)
  <2>1. Value \in Letters
    BY DEF Letters
  <2> QED BY <2>1
<1>2. ASSUME NEW i \in 1..Len(s) PROVE <<s[i]>> \in Seq(Letters)
  <2>1. s[i] \in Letters
    BY ElementOfSeq DEF Letters
  <2> QED BY <2>1
<1>3. \A i \in 1..Len(s) : PieceAt(s, i) \in Seq(Letters)
  BY <1>1, <1>2 DEF PieceAt
<1>4. Len(s) \in Nat
  BY LenProperties
<1> QED
  BY <1>3, <1>4 DEF PiecesOf

LEMMA RestoredIs ==
  ASSUME NEW s \in Seq(Alphabet)
  PROVE  /\ Restored(s) = FlattenSeq(PiecesOf(s)) /\ Restored(s) \in Seq(Letters)
         /\ (s = <<>> => Restored(s) = <<>>)
<1>1. Restored(s) = FlattenSeq(PiecesOf(s))
  BY DEF Restored, PiecesOf, PieceAt
<1>2. s = <<>> => Len(s) = 0
  BY EmptySeq
<1>3. PICK n \in Nat : n = Len(s) /\ PiecesOf(s) \in [1..n -> Seq(Letters)]
  BY PiecesTyped
<1>5. PICK p : p = PiecesOf(s) /\ p \in [1..n -> Seq(Letters)]
  BY <1>3
<1>4. FlattenSeq(p) \in Seq(Letters) /\ (n = 0 => FlattenSeq(p) = <<>>)
  BY <1>5, FlattenTyped
<1> QED
  BY <1>1, <1>2, <1>3, <1>4, <1>5

\* Two texts may be restored apart when no token lies over their meeting.
LEMMA RestoredJoin ==
  ASSUME NEW s \in Seq(Alphabet), NEW t \in Seq(Alphabet),
         ~ TokenAt(s \o t, Len(s) - 1), ~ TokenAt(s \o t, Len(s))
  PROVE  Restored(s \o t) = Restored(s) \o Restored(t)
<1>1. PICK r \in Seq(Alphabet) : r = s \o t
  BY ConcatProperties
<1>2. PICK m \in Nat, n \in Nat : m = Len(s) /\ n = Len(t) /\ Len(r) = m + n
  BY <1>1, LenProperties, ConcatProperties
<1>3. /\ \A i \in 1..m : r[i] = s[i]
      /\ \A i \in 1..n : r[m + i] = t[i]
  BY <1>1, <1>2, Glued
<1>4. \A i \in Int : TokenAt(r, i) <=> TokenAt(s, i) \/ TokenAt(t, i - m)
  BY <1>1, <1>2, TokenJoin
<1>5. ASSUME NEW i \in 1..m PROVE PieceAt(r, i) = PieceAt(s, i)
  <2>1. ~ TokenAt(t, i - m) /\ ~ TokenAt(t, i - 1 - m) /\ ~ TokenAt(t, i - 2 - m)
    BY <1>2 DEF TokenAt
  <2>2. i \in Int /\ i - 1 \in Int /\ i - 2 \in Int
    OBVIOUS
  <2>3. /\ TokenAt(r, i) <=> TokenAt(s, i)
        /\ TokenAt(r, i - 1) <=> TokenAt(s, i - 1)
        /\ TokenAt(r, i - 2) <=> TokenAt(s, i - 2)
    BY <1>4, <2>1, <2>2
  <2> QED
    BY <1>3, <2>3 DEF PieceAt
<1>6. ASSUME NEW i \in 1..n PROVE PieceAt(r, m + i) = PieceAt(t, i)
  <2>1. ~ TokenAt(s, m + i) /\ ~ TokenAt(s, m + i - 1) /\ ~ TokenAt(s, m + i - 2)
    BY <1>2 DEF TokenAt
  <2>2. /\ m + i \in Int /\ m + i - 1 \in Int /\ m + i - 2 \in Int
        /\ m + i - m = i /\ m + i - 1 - m = i - 1 /\ m + i - 2 - m = i - 2
    OBVIOUS
  <2>3. /\ TokenAt(r, m + i) <=> TokenAt(t, i)
        /\ TokenAt(r, m + i - 1) <=> TokenAt(t, i - 1)
        /\ TokenAt(r, m + i - 2) <=> TokenAt(t, i - 2)
    <3>1. /\ TokenAt(r, m + i) <=> TokenAt(t, m + i - m)
          /\ TokenAt(r, m + i - 1) <=> TokenAt(t, m + i - 1 - m)
          /\ TokenAt(r, m + i - 2) <=> TokenAt(t, m + i - 2 - m)
      BY <1>4, <2>1, <2>2
    <3> QED BY <2>2, <3>1
  <2> QED
    BY <1>3, <2>3 DEF PieceAt
<1>7. PICK p, q, u : p = PiecesOf(s) /\ q = PiecesOf(t) /\ u = PiecesOf(r)
  OBVIOUS
<1>8. /\ p \in [1..m -> Seq(Letters)] /\ q \in [1..n -> Seq(Letters)]
      /\ u \in [1..m + n -> Seq(Letters)]
  BY <1>2, <1>7, PiecesTyped
<1>9. (\A i \in 1..m : u[i] = p[i]) /\ (\A i \in 1..n : u[m + i] = q[i])
  <2>1. \A i \in 1..m : i \in 1..Len(r) /\ i \in 1..Len(s)
    BY <1>2
  <2>2. \A i \in 1..n : m + i \in 1..Len(r) /\ i \in 1..Len(t)
    BY <1>2
  <2> QED BY <1>5, <1>6, <1>7, <2>1, <2>2 DEF PiecesOf
<1>11. Adjoin(p, m, q, n, u, Letters)
  BY <1>8, <1>9 DEF Adjoin
<1>10. FlattenSeq(u) = FlattenSeq(p) \o FlattenSeq(q)
  BY <1>11, FlattenJoin
<1> QED
  BY <1>1, <1>7, <1>10, RestoredIs

-----------------------------------------------------------------------------
(* No token is left in restored text.                                        *)

\* Nothing that is restored has a token in it.
TokenFreeText(x) == \A i \in Int : ~ TokenAt(x, i)

\* A letter added completes a token, or there is none.
LEMMA TokenAppended ==
  ASSUME NEW S, NEW x \in Seq(S), NEW c \in S, NEW i \in Int, TokenFreeText(x),
         TokenAt(x \o <<c>>, i)
  PROVE  i = Len(x) - 1 /\ i \in 1..Len(x) /\ c = "]" /\ x[i] = "[" /\ x[i + 1] = Upper
<1>1. <<c>> \in Seq(S) /\ Len(<<c>>) = 1 /\ <<c>>[1] = c
  OBVIOUS
<1>2. PICK y \in Seq(S) : y = x \o <<c>>
  BY <1>1, ConcatProperties
<1>3. /\ Len(x) \in Nat /\ Len(y) = Len(x) + 1
      /\ \A j \in 1..Len(x) : y[j] = x[j]
      /\ y[Len(x) + 1] = c
  <2>1. /\ \A j \in 1..Len(y) : y[j] = IF j <= Len(x) THEN x[j] ELSE <<c>>[j - Len(x)]
        /\ Len(x) \in Nat /\ Len(y) = Len(x) + 1
    BY <1>1, <1>2, LenProperties, ConcatProperties
  <2>2. Len(x) + 1 \in 1..Len(y) /\ ~ (Len(x) + 1 <= Len(x)) /\ Len(x) + 1 - Len(x) = 1
    BY <2>1
  <2> QED
    BY <1>1, <2>1, <2>2
<1>4. i \in 1..Len(y) - 2 /\ y[i] = "[" /\ y[i + 1] = Upper /\ y[i + 2] = "]"
  BY <1>2, TokenChars
<1>5. ~ TokenAt(x, i)
  BY DEF TokenFreeText
<1>6. CASE i <= Len(x) - 2
  <2>1. i \in 1..Len(x) - 2 /\ i \in 1..Len(x) /\ i + 1 \in 1..Len(x) /\ i + 2 \in 1..Len(x)
    BY <1>3, <1>4, <1>6
  <2>2. x[i] = "[" /\ x[i + 1] = Upper /\ x[i + 2] = "]"
    BY <1>3, <1>4, <2>1
  <2> QED
    BY <1>5, <2>1, <2>2, TokenChars
<1>7. CASE i > Len(x) - 2
  <2>1. i = Len(x) - 1 /\ i \in 1..Len(x) /\ i + 1 \in 1..Len(x) /\ i + 2 = Len(x) + 1
    BY <1>3, <1>4, <1>7
  <2> QED
    BY <1>3, <1>4, <2>1
<1> QED
  BY <1>3, <1>6, <1>7

\* How a text x ends that was restored from the first i characters of s.
Ends(x, s, i) ==
    /\ x \in Seq(Letters) /\ Len(x) \in Nat /\ TokenFreeText(x)
    /\ TokenAt(s, i) \/ TokenAt(s, i - 1) \/ TokenAt(s, i - 2)
           => Len(x) > 0 /\ x[Len(x)] = Value
    /\ Len(x) > 0 /\ x[Len(x)] = "[" => i > 0 /\ s[i] = "["
    /\ Len(x) > 1 /\ x[Len(x) - 1] = "[" /\ x[Len(x)] = Upper
           => i > 1 /\ s[i - 1] = "[" /\ s[i] = Upper

LEMMA EndsNext ==
  ASSUME NEW s \in Seq(Alphabet), NEW i \in 1..Len(s), NEW x, Ends(x, s, i - 1)
  PROVE  Ends(x \o PieceAt(s, i), s, i)
<1>0. /\ Len(s) \in Nat /\ x \in Seq(Letters) /\ Len(x) \in Nat /\ TokenFreeText(x)
      /\ i \in Int /\ i >= 1 /\ s[i] \in Letters /\ Value \in Letters
  BY LenProperties, ElementOfSeq DEF Ends, Letters
<1>1. Value # "[" /\ Value # Upper /\ Value # "]" /\ Upper # "[" /\ Upper # "]"
  BY DEF Value, Upper
<1>2. ASSUME NEW c \in Letters
      PROVE  /\ x \o <<c>> \in Seq(Letters) /\ Len(x \o <<c>>) = Len(x) + 1
             /\ (x \o <<c>>)[Len(x) + 1] = c
             /\ Len(x) > 0 => (x \o <<c>>)[Len(x)] = x[Len(x)]
  <2>1. <<c>> \in Seq(Letters) /\ Len(<<c>>) = 1 /\ <<c>>[1] = c
    OBVIOUS
  <2>2. /\ x \o <<c>> \in Seq(Letters) /\ Len(x \o <<c>>) = Len(x) + 1
        /\ \A j \in 1..Len(x) + 1 : (x \o <<c>>)[j] = IF j <= Len(x) THEN x[j] ELSE <<c>>[j - Len(x)]
    BY <1>0, <2>1, ConcatProperties
  <2>3. /\ Len(x) + 1 \in 1..Len(x) + 1 /\ ~ (Len(x) + 1 <= Len(x)) /\ Len(x) + 1 - Len(x) = 1
        /\ (Len(x) > 0 => Len(x) \in 1..Len(x) + 1) /\ Len(x) <= Len(x)
    BY <1>0
  <2> QED
    BY <2>1, <2>2, <2>3
<1>3. CASE TokenAt(s, i)
  <2>1. PICK y : y = x \o <<Value>>
    OBVIOUS
  <2>2. /\ PieceAt(s, i) = <<Value>> /\ y \in Seq(Letters) /\ Len(y) = Len(x) + 1
        /\ y[Len(y)] = Value
    BY <1>0, <1>2, <1>3, <2>1 DEF PieceAt
  <2>3. TokenFreeText(y)
    <3> SUFFICES ASSUME NEW j \in Int, TokenAt(y, j) PROVE FALSE
      BY DEF TokenFreeText
    <3> QED
      BY <1>0, <1>1, <2>1, TokenAppended
  <2>4. Ends(y, s, i)
    BY <1>0, <1>1, <2>2, <2>3 DEF Ends
  <2> QED
    BY <2>1, <2>2, <2>4
<1>4. CASE ~ TokenAt(s, i) /\ (TokenAt(s, i - 1) \/ TokenAt(s, i - 2))
  <2>1. PieceAt(s, i) = <<>> /\ x \o <<>> = x
    BY <1>0, <1>4, ConcatEmptySeq DEF PieceAt
  <2>2. i - 1 - 1 = i - 2
    BY <1>0
  <2>3. Len(x) > 0 /\ x[Len(x)] = Value
    BY <1>4, <2>2 DEF Ends
  <2>4. Ends(x, s, i)
    BY <1>0, <1>1, <2>3 DEF Ends
  <2> QED
    BY <2>1, <2>4
<1>5. CASE ~ TokenAt(s, i) /\ ~ TokenAt(s, i - 1) /\ ~ TokenAt(s, i - 2)
  <2>1. PICK c \in Letters : c = s[i]
    BY <1>0
  <2>2. PICK y : y = x \o <<c>>
    OBVIOUS
  <2>3. /\ PieceAt(s, i) = <<c>> /\ y \in Seq(Letters) /\ Len(y) = Len(x) + 1
        /\ y[Len(x) + 1] = c /\ (Len(x) > 0 => y[Len(x)] = x[Len(x)])
    BY <1>2, <1>5, <2>1, <2>2 DEF PieceAt
  <2>4. TokenFreeText(y)
    <3> SUFFICES ASSUME NEW j \in Int, TokenAt(y, j) PROVE FALSE
      BY DEF TokenFreeText
    <3>1. j = Len(x) - 1 /\ j \in 1..Len(x) /\ c = "]" /\ x[j] = "[" /\ x[j + 1] = Upper
      BY <1>0, <2>2, TokenAppended
    <3>2. Len(x) > 1 /\ x[Len(x) - 1] = "[" /\ x[Len(x)] = Upper
      BY <1>0, <3>1
    <3>3. i - 1 > 1 /\ s[i - 1 - 1] = "[" /\ s[i - 1] = Upper
      BY <3>2 DEF Ends
    <3>4. PICK h \in Int : h = i - 2 /\ h + 1 = i - 1 /\ h + 2 = i /\ h = i - 1 - 1
      <4>1. i - 2 \in Int /\ i - 2 + 1 = i - 1 /\ i - 2 + 2 = i /\ i - 2 = i - 1 - 1
        BY <1>0
      <4> QED
        BY <4>1
    <3>5. h \in 1..Len(s) - 2 /\ s[h] = "[" /\ s[h + 1] = Upper /\ s[h + 2] = "]"
      <4>1. s[h + 2] = "]"
        BY <2>1, <3>1, <3>4
      <4>2. s[h] = "[" /\ s[h + 1] = Upper
        BY <3>3, <3>4
      <4>3. h \in 1..Len(s) - 2
        BY <1>0, <3>3, <3>4
      <4> QED
        BY <4>1, <4>2, <4>3
    <3>6. TokenAt(s, h)
      BY <3>5, TokenChars
    <3> QED
      BY <1>5, <3>4, <3>6
  <2>5. Len(y) > 1 /\ y[Len(y) - 1] = "[" /\ y[Len(y)] = Upper
           => i > 1 /\ s[i - 1] = "[" /\ s[i] = Upper
    <3> SUFFICES ASSUME Len(y) > 1, y[Len(y) - 1] = "[", y[Len(y)] = Upper
                 PROVE  i > 1 /\ s[i - 1] = "[" /\ s[i] = Upper
      OBVIOUS
    <3>1. Len(y) - 1 = Len(x) /\ Len(x) > 0
      BY <1>0, <2>3
    <3>2. x[Len(x)] = "["
      BY <2>3, <3>1
    <3>3. i - 1 > 0 /\ s[i - 1] = "["
      BY <3>1, <3>2 DEF Ends
    <3> QED
      BY <1>0, <2>1, <2>3, <3>3
  <2>6. Ends(y, s, i)
    BY <1>0, <1>5, <2>1, <2>3, <2>4, <2>5 DEF Ends
  <2> QED
    BY <2>2, <2>3, <2>6
<1> QED
  BY <1>3, <1>4, <1>5

LEMMA RestoredFree ==
  ASSUME NEW s \in Seq(Alphabet)
  PROVE  TokenFreeText(Restored(s))
<1>1. PICK n \in Nat : n = Len(s) /\ PiecesOf(s) \in [1..n -> Seq(Letters)]
  BY PiecesTyped
<1>2. PICK p : p = PiecesOf(s) /\ p \in [1..n -> Seq(Letters)]
  BY <1>1
<1>3. PICK g : Joins(g, p, n, Letters)
  BY <1>2, JoinExists
<1>4. g \in [0..n -> Seq(Letters)] /\ g[0] = <<>> /\ \A i \in 1..n : g[i] = g[i - 1] \o p[i]
  BY <1>3 DEF Joins
<1>5. Restored(s) = g[n]
  BY <1>1, <1>2, <1>3, FlattenIs, RestoredIs
<1> DEFINE T == {i \in 0..n : Ends(g[i], s, i)}
<1>6. 0 \in T
  <2>1. <<>> \in Seq(Letters) /\ Len(<<>>) = 0
    BY EmptySeq
  <2>2. \A i \in Int : ~ TokenAt(<<>>, i)
    BY <2>1 DEF TokenAt
  <2>3. ~ TokenAt(s, 0) /\ ~ TokenAt(s, 0 - 1) /\ ~ TokenAt(s, 0 - 2)
    BY DEF TokenAt
  <2>4. Ends(<<>>, s, 0)
    BY <2>1, <2>2, <2>3 DEF Ends, TokenFreeText
  <2> QED
    BY <1>4, <2>4
<1>7. ASSUME NEW i \in 1..n, i - 1 \in T PROVE i \in T
  <2>1. g[i] = g[i - 1] \o PieceAt(s, i)
    BY <1>1, <1>2, <1>4 DEF PiecesOf
  <2>2. PICK x : x = g[i - 1] /\ Ends(x, s, i - 1)
    BY <1>7
  <2>3. Ends(x \o PieceAt(s, i), s, i)
    BY <1>1, <2>2, EndsNext
  <2>4. i \in 0..n
    OBVIOUS
  <2> QED
    BY <2>1, <2>2, <2>3, <2>4
<1> HIDE DEF T
<1>8. \A i \in 0..n : i \in T
  BY <1>6, <1>7, StepByStep
<1>9. n \in T
  BY <1>8
<1> QED
  BY <1>5, <1>9 DEF T, Ends

-----------------------------------------------------------------------------
(* Text restored in two parts, and the text of a list of events.             *)

\* No token reaches over position k of text s, whatever follows s, if no
\* placeholder does and none can any more.
Clear(s, t, k) ==
    /\ k \in 0..Len(s)
    /\ \A i \in 1..k : /\ \A j \in k + 1..Len(s) : ~ PlaceholderAt(s, i, j)
                       /\ t # <<>> => ~ CouldBePlaceholderPrefix(Suffix(s, i))

LEMMA Straddle ==
  ASSUME NEW s \in Seq(Alphabet), NEW t \in Seq(Alphabet), NEW k, Clear(s, t, k),
         NEW i \in 1..k, i + 2 > k
  PROVE  ~ TokenAt(s \o t, i)
<1> SUFFICES ASSUME TokenAt(s \o t, i) PROVE FALSE
  OBVIOUS
<1>1. /\ Len(s) \in Nat /\ k \in Nat /\ k <= Len(s) /\ i \in Nat /\ i >= 1 /\ i <= k
      /\ MaxLen \in Nat /\ MaxLen >= 3
  BY LenProperties, BufferAssumption, RelayAssumption DEF Clear
<1>2. PICK r \in Seq(Alphabet) : r = s \o t /\ \A j \in 1..Len(s) : r[j] = s[j]
  BY Glued
<1>3. i \in 1..Len(r) - 2 /\ r[i] = "[" /\ r[i + 1] = Upper /\ r[i + 2] = "]"
  <2>1. TokenAt(r, i) /\ i \in Int
    BY <1>1, <1>2
  <2> QED
    BY <2>1, TokenChars
<1>4. CASE i + 2 <= Len(s)
  <2>1. s[i] = "[" /\ s[i + 1] = Upper /\ s[i + 2] = "]"
    <3>1. i \in 1..Len(s) /\ i + 1 \in 1..Len(s) /\ i + 2 \in 1..Len(s)
      BY <1>1, <1>4
    <3> QED
      BY <1>2, <1>3, <3>1
  <2>2. PICK j \in k + 1..Len(s) : j = i + 2
    <3>1. i + 2 \in k + 1..Len(s)
      BY <1>1, <1>4
    <3> QED BY <3>1
  <2>3. i < j - 1 /\ j - i < MaxLen /\ i + 2..j - 1 = {}
    BY <1>1, <2>2
  <2>4. PlaceholderAt(s, i, j)
    BY <2>1, <2>2, <2>3 DEF PlaceholderAt
  <2> QED
    BY <2>4 DEF Clear
<1>5. CASE i + 2 > Len(s)
  <2>1. t # <<>>
    <3> SUFFICES ASSUME t = <<>> PROVE FALSE
      OBVIOUS
    <3>1. r = s
      BY <1>2, ConcatEmptySeq
    <3> QED
      BY <1>1, <1>3, <1>5, <3>1
  <2>2. i \in 1..Len(s) /\ s[i] = "[" /\ Len(s) - i < MaxLen
    BY <1>1, <1>2, <1>3, <1>5
  <2>3. i < Len(s) => s[i + 1] = Upper
    <3>1. i < Len(s) => i + 1 \in 1..Len(s)
      BY <1>1
    <3> QED
      BY <1>2, <1>3, <3>1
  <2>4. \A x \in i + 2..Len(s) : s[x] \in {Upper, Digit}
    BY <1>1, <1>5
  <2>5. CouldBePlaceholderPrefix(Suffix(s, i))
    BY <2>2, <2>3, <2>4, PrefixAt
  <2> QED
    BY <2>1, <2>5 DEF Clear
<1> QED
  BY <1>1, <1>4, <1>5

\* So no token reaches over a place that no placeholder reaches over.
LEMMA NoneAcross ==
  ASSUME NEW s \in Seq(Alphabet), NEW t \in Seq(Alphabet), NEW k, Clear(s, t, k)
  PROVE  ~ TokenAt(s \o t, k - 1) /\ ~ TokenAt(s \o t, k)
<1>1. k \in Nat
  BY LenProperties DEF Clear
<1>2. ASSUME NEW i \in Int, i = k - 1 \/ i = k PROVE ~ TokenAt(s \o t, i)
  <2>1. CASE i < 1
    BY <2>1 DEF TokenAt
  <2>2. CASE i >= 1
    <3>1. i \in 1..k /\ i + 2 > k
      BY <1>1, <1>2, <2>2
    <3> QED
      BY <3>1, Straddle
  <2> QED
    BY <2>1, <2>2
<1>3. k - 1 \in Int /\ k \in Int
  BY <1>1
<1> QED
  BY <1>2, <1>3

\* A token that begins and ends in the first part of a text is there in the
\* whole.
LEMMA TokenStays ==
  ASSUME NEW s \in Seq(Alphabet), NEW t \in Seq(Alphabet), NEW i \in Int
  PROVE  /\ TokenAt(s, i) => TokenAt(s \o t, i)
         /\ i + 2 <= Len(s) /\ TokenAt(s \o t, i) => TokenAt(s, i)
<1>1. PICK r \in Seq(Alphabet) : r = s \o t /\ \A j \in 1..Len(s) : r[j] = s[j]
  BY Glued
<1>2. Len(r) = Len(s) + Len(t) /\ Len(r) \in Nat /\ Len(t) \in Nat /\ Len(s) \in Nat
  BY <1>1, LenProperties, ConcatProperties
<1>3. ASSUME TokenAt(s, i) PROVE TokenAt(r, i)
  <2>1. i \in 1..Len(s) - 2 /\ s[i] = "[" /\ s[i + 1] = Upper /\ s[i + 2] = "]"
    BY <1>3, TokenChars
  <2>2. i \in 1..Len(r) - 2 /\ i \in 1..Len(s) /\ i + 1 \in 1..Len(s) /\ i + 2 \in 1..Len(s)
    BY <1>2, <2>1
  <2>3. r[i] = "[" /\ r[i + 1] = Upper /\ r[i + 2] = "]"
    BY <1>1, <2>1, <2>2
  <2> QED
    BY <2>2, <2>3, TokenChars
<1>4. ASSUME TokenAt(r, i), i + 2 <= Len(s) PROVE TokenAt(s, i)
  <2>1. i \in 1..Len(r) - 2 /\ r[i] = "[" /\ r[i + 1] = Upper /\ r[i + 2] = "]"
    BY <1>4, TokenChars
  <2>2. i \in 1..Len(s) - 2 /\ i \in 1..Len(s) /\ i + 1 \in 1..Len(s) /\ i + 2 \in 1..Len(s)
    BY <1>2, <1>4, <2>1
  <2>3. s[i] = "[" /\ s[i + 1] = Upper /\ s[i + 2] = "]"
    BY <1>1, <2>1, <2>2
  <2> QED
    BY <2>2, <2>3, TokenChars
<1> QED
  BY <1>1, <1>3, <1>4

\* Two parts of a text may be restored one by one when no token of the text
\* reaches over the place where they meet.
LEMMA RestoredWithin ==
  ASSUME NEW u \in Seq(Alphabet), NEW v \in Seq(Alphabet), NEW w \in Seq(Alphabet),
         NEW s \in Seq(Alphabet), s = (u \o v) \o w,
         ~ TokenAt(s, Len(u) - 1), ~ TokenAt(s, Len(u))
  PROVE  Restored(u \o v) = Restored(u) \o Restored(v)
<1>1. PICK r \in Seq(Alphabet) : r = u \o v
  BY ConcatProperties
<1>2. Len(u) - 1 \in Int /\ Len(u) \in Int
  BY LenProperties
<1>3. ~ TokenAt(u \o v, Len(u) - 1) /\ ~ TokenAt(u \o v, Len(u))
  BY <1>1, <1>2, TokenStays
<1> QED
  BY <1>3, RestoredJoin

\* No token of a text fed reaches over a cut: over an unforced one because no
\* placeholder does.
LEMMA CutIsClear ==
  ASSUME NEW s \in Seq(Alphabet), NEW k \in 0..Len(s),
         \/ ~ TokenAt(s, k - 1) /\ ~ TokenAt(s, k)
         \/ \A i \in 1..k : \A j \in k + 1..Len(s) : ~ PlaceholderAt(s, i, j)
  PROVE  ~ TokenAt(s, k - 1) /\ ~ TokenAt(s, k)
<1>1. CASE \A i \in 1..k : \A j \in k + 1..Len(s) : ~ PlaceholderAt(s, i, j)
  <2>1. <<>> \in Seq(Alphabet) /\ s \o <<>> = s
    BY ConcatEmptySeq, EmptySeq
  <2>2. Clear(s, <<>>, k)
    BY <1>1 DEF Clear
  <2> QED
    BY <2>1, <2>2, NoneAcross
<1> QED
  BY <1>1

-----------------------------------------------------------------------------
\* A cut character leaves two others.
LEMMA GarbledTyped ==
  ASSUME NEW s \in Seq(Alphabet)
  PROVE  Garbled(s) \in Seq(Alphabet)
<1> DEFINE pieces == [i \in 1..Len(s) |-> IF s[i] = Other THEN <<"?", "?">> ELSE <<s[i]>>]
<1>1. PICK n \in Nat : n = Len(s)
  BY LenProperties
<1>2. ASSUME NEW i \in 1..Len(s) PROVE pieces[i] \in Seq(Alphabet)
  <2>1. "?" \in Alphabet /\ s[i] \in Alphabet
    BY ElementOfSeq DEF Alphabet
  <2>2. <<"?", "?">> \in Seq(Alphabet) /\ <<s[i]>> \in Seq(Alphabet)
    BY <2>1
  <2> QED
    BY <2>2
<1>3. PICK p : p = pieces /\ p \in [1..n -> Seq(Alphabet)]
  <2>1. pieces \in [1..n -> Seq(Alphabet)]
    BY <1>1, <1>2
  <2> QED BY <2>1
<1>4. Garbled(s) = FlattenSeq(p)
  BY <1>3 DEF Garbled
<1> QED
  BY <1>3, <1>4, FlattenTyped

-----------------------------------------------------------------------------
\* The text of the first n of some events.
Spoken(e) == IF e.kind = "text" THEN e.txt ELSE <<>>
Said(events, n) == FlattenSeq([i \in 1..n |-> Spoken(events[i])])

Texts(events, n, A) == n \in Nat /\ \A i \in 1..n : Spoken(events[i]) \in Seq(A)

LEMMA SaidIs ==
  ASSUME NEW events
  PROVE  TextIn(events) = Said(events, Len(events))
BY DEF TextIn, Said, Spoken

LEMMA SaidTyped ==
  ASSUME NEW A, NEW events, NEW n, Texts(events, n, A)
  PROVE  Said(events, n) \in Seq(A) /\ (n = 0 => Said(events, n) = <<>>)
<1>1. PICK m \in Nat : m = n
  BY DEF Texts
<1>2. PICK p : p = [i \in 1..m |-> Spoken(events[i])] /\ p \in [1..m -> Seq(A)]
  <2>1. [i \in 1..m |-> Spoken(events[i])] \in [1..m -> Seq(A)]
    BY <1>1 DEF Texts
  <2> QED BY <2>1
<1>3. FlattenSeq(p) \in Seq(A) /\ (m = 0 => FlattenSeq(p) = <<>>)
  BY <1>2, FlattenTyped
<1> QED
  BY <1>1, <1>2, <1>3 DEF Said

\* It depends on these events alone.
LEMMA SaidSame ==
  ASSUME NEW e, NEW f, NEW n, \A i \in 1..n : e[i] = f[i]
  PROVE  Said(e, n) = Said(f, n)
BY DEF Said

\* And grows from its end.
Prolongs(x, y, A) == \E rest \in Seq(A) : x = y \o rest

LEMMA SaidFurther ==
  ASSUME NEW A, NEW events, NEW m \in Nat, NEW n \in Nat, m <= n, Texts(events, n, A)
  PROVE  Prolongs(Said(events, n), Said(events, m), A)
<1>1. PICK k \in Nat : n = m + k
  <2>1. n - m \in Nat /\ n = m + (n - m)
    OBVIOUS
  <2> QED BY <2>1
<1> DEFINE p == [i \in 1..m |-> Spoken(events[i])]
           q == [i \in 1..k |-> Spoken(events[m + i])]
           r == [i \in 1..n |-> Spoken(events[i])]
<1>2. p \in [1..m -> Seq(A)] /\ q \in [1..k -> Seq(A)] /\ r \in [1..m + k -> Seq(A)]
  <2>1. (\A i \in 1..m : i \in 1..n) /\ (\A i \in 1..k : m + i \in 1..n)
    BY <1>1
  <2>2. \A i \in 1..n : Spoken(events[i]) \in Seq(A)
    BY DEF Texts
  <2> QED
    BY <1>1, <2>1, <2>2
<1>3. (\A i \in 1..m : r[i] = p[i]) /\ (\A i \in 1..k : r[m + i] = q[i])
  BY <1>1
<1> HIDE DEF p, q, r
<1>4. Adjoin(p, m, q, k, r, A)
  BY <1>2, <1>3 DEF Adjoin
<1>5. FlattenSeq(r) = FlattenSeq(p) \o FlattenSeq(q)
  BY <1>4, FlattenJoin
<1>6. FlattenSeq(q) \in Seq(A)
  BY <1>2, FlattenTyped
<1> QED
  BY <1>5, <1>6 DEF Prolongs, Said, p, r

LEMMA SaidNext ==
  ASSUME NEW A, NEW events, NEW n \in Nat, NEW m, m = n + 1, Texts(events, m, A)
  PROVE  Said(events, m) = Said(events, n) \o Spoken(events[m])
<1> DEFINE p == [i \in 1..n |-> Spoken(events[i])]
           q == [i \in 1..1 |-> Spoken(events[m])]
           r == [i \in 1..m |-> Spoken(events[i])]
<1>1. p \in [1..n -> Seq(A)] /\ q \in [1..1 -> Seq(A)] /\ r \in [1..n + 1 -> Seq(A)]
  <2>1. (\A i \in 1..n : i \in 1..m) /\ m \in 1..m
    OBVIOUS
  <2>2. \A i \in 1..m : Spoken(events[i]) \in Seq(A)
    BY DEF Texts
  <2> QED
    BY <2>1, <2>2
<1>2. (\A i \in 1..n : r[i] = p[i]) /\ (\A i \in 1..1 : r[n + i] = q[i])
  OBVIOUS
<1>3. q[1] = Spoken(events[m]) /\ q[1] \in Seq(A)
  BY <1>1
<1> HIDE DEF p, q, r
<1>4. Adjoin(p, n, q, 1, r, A)
  BY <1>1, <1>2 DEF Adjoin
<1>5. FlattenSeq(r) = FlattenSeq(p) \o FlattenSeq(q)
  BY <1>4, FlattenJoin
<1>6. FlattenSeq(q) = q[1]
  <2>1. PICK g : Joins(g, q, 1, A)
    BY <1>1, JoinExists
  <2>2. g[0] = <<>> /\ g[1] = g[0] \o q[1]
    <3>1. 1 \in 1..1 /\ 1 - 1 = 0
      OBVIOUS
    <3>2. g[1] = g[1 - 1] \o q[1]
      BY <2>1, <3>1, Zenon DEF Joins
    <3> QED
      BY <2>1, <3>1, <3>2 DEF Joins
  <2>3. g[1] = q[1]
    BY <1>3, <2>2, ConcatEmptySeq
  <2> QED
    BY <1>1, <2>1, <2>3, FlattenIs
<1> QED
  BY <1>3, <1>5, <1>6 DEF Said, p, r

-----------------------------------------------------------------------------
(* The text on its way through the relay.                                    *)

\* A stream ends with nothing unread and nothing held.
Ended == /\ open <=> relay # "closed"
         /\ relay = "closed" => read = Len(sent) /\ buf = <<>> /\ upstream # "open"

\* What an event of the upstream carries.
Sendable == \A i \in 1..Len(sent) :
    /\ sent[i].kind = "text" => sent[i].txt \in Chunks
    /\ sent[i].kind # "text" => sent[i].txt = <<>> \/ "tool" \in features

\* What an event of the relay carries.
Readable == \A i \in 1..Len(got) :
    /\ got[i].kind = "text" => \E x \in Seq(Alphabet) : got[i].txt = Restored(x)
    /\ got[i].kind # "text" => got[i].txt = <<>> \/ "tool" \in features

\* Unless a token was severed, the client has what the buffer returned,
\* restored, and the buffer was fed what has been read.
Delivered ==
    ~ Severed /\ "chunked" \notin features =>
        /\ Readable /\ TextIn(got) = Restored(out)
        /\ "cut" \notin features => fed = Said(sent, read)

TextInv == RelayInv /\ BufferInv /\ Ended /\ Sendable /\ Delivered

-----------------------------------------------------------------------------
\* An event written adds its text.
LEMMA WrittenText ==
  ASSUME Readable, NEW S, got \in Seq(S), NEW f, got' = Append(got, f),
         f.kind = "text" => \E x \in Seq(Alphabet) : f.txt = Restored(x),
         f.kind # "text" => f.txt = <<>> \/ "tool" \in features,
         features' = features
  PROVE  Readable' /\ TextIn(got') = TextIn(got) \o Spoken(f)
<1>1. /\ Len(got) \in Nat /\ Len(got') = Len(got) + 1
      /\ \A i \in 1..Len(got) : got'[i] = got[i]
      /\ got'[Len(got) + 1] = f
  BY Appended
<1>2. \A i \in 1..Len(got') : i \in 1..Len(got) \/ i = Len(got) + 1
  BY <1>1
<1>3. Readable'
  <2> SUFFICES ASSUME NEW i \in 1..Len(got')
               PROVE  /\ got'[i].kind = "text" => \E x \in Seq(Alphabet) : got'[i].txt = Restored(x)
                      /\ got'[i].kind # "text" => got'[i].txt = <<>> \/ "tool" \in features
    BY DEF Readable
  <2> QED
    BY <1>1, <1>2 DEF Readable
<1>4. \A x \in Seq(Alphabet) : Restored(x) \in Seq(Letters)
  BY RestoredIs
<1>9. PICK n \in Nat : n = Len(got) /\ n + 1 = Len(got')
  BY <1>1
<1>5. PICK g, m : g = got' /\ n = Len(got) /\ m = n + 1 /\ m = Len(got')
  BY <1>9
<1>6. Texts(g, m, Letters)
  <2>1. \A i \in 1..m : Spoken(g[i]) \in Seq(Letters)
    <3>1. <<>> \in Seq(Letters)
      BY EmptySeq
    <3> QED
      BY <1>3, <1>4, <1>5, <3>1 DEF Readable, Spoken
  <2> QED
    BY <1>5, <2>1 DEF Texts
<1>7. Said(g, m) = Said(g, n) \o Spoken(g[m])
  <2>1. m = n + 1
    BY <1>5
  <2> QED
    BY <1>6, <2>1, SaidNext
<1>8. Said(got, n) = Said(g, n)
  BY <1>1, <1>5, SaidSame
<1> QED
  BY <1>1, <1>3, <1>5, <1>7, <1>8, SaidIs

\* What a feed returned comes behind what was returned before.
LEMMA ReturnedNext ==
  ASSUME NEW o \in Seq(Alphabet), NEW n \in Seq(Alphabet), NEW x, n = o \o x, x \in Seq(Alphabet)
  PROVE  Suffix(n, Len(o) + 1) = x
<1>1. PICK k \in 0..Len(n) : k = Len(o) /\ Len(n) = Len(o) + Len(x) /\ Len(x) \in Nat /\ Len(o) \in Nat
  <2>1. Len(o) \in Nat /\ Len(x) \in Nat /\ Len(n) = Len(o) + Len(x)
    BY LenProperties, ConcatProperties
  <2>2. Len(o) \in 0..Len(n)
    BY <2>1
  <2> QED
    BY <2>1, <2>2
<1>2. PICK y \in Seq(Alphabet) : /\ y = Suffix(n, k + 1) /\ Len(y) = Len(n) - k
                                 /\ \A i \in 1..Len(n) - k : y[i] = n[k + i]
  BY Parts
<1>3. \A i \in 1..Len(x) : n[Len(o) + i] = x[i]
  BY Glued
<1>4. Len(y) = Len(x) /\ \A i \in 1..Len(y) : y[i] = x[i]
  BY <1>1, <1>2, <1>3
<1>5. y = x
  BY <1>4, SeqEqual
<1> QED
  BY <1>1, <1>2, <1>5

LEMMA FedReturned ==
  ASSUME BufferInv, NEW chunk \in Seq(Alphabet), Feed(chunk)
  PROVE  Returned \in Seq(Alphabet) /\ out' = out \o Returned
<1>1. PICK b \in Seq(Alphabet) : \E n \in 0..Len(b) : b = buf \o chunk /\ n = SafeLength(b)
  BY Fed
<1>2. PICK n \in 0..Len(b) : b = buf \o chunk /\ n = SafeLength(b)
  BY <1>1
<1>3. PICK x \in Seq(Alphabet) : x = Prefix(b, n)
  BY Parts
<1>4. out' = out \o x
  BY <1>2, <1>3 DEF Feed, Emit
<1>5. out \in Seq(Alphabet)
  BY DEF BufferInv, Accounted
<1>6. PICK o \in Seq(Alphabet) : o = out
  BY <1>5
<1>7. PICK z \in Seq(Alphabet) : z = out' /\ z = o \o x
  BY <1>4, <1>6, ConcatProperties
<1>8. Suffix(z, Len(o) + 1) = x
  BY <1>7, ReturnedNext
<1> QED
  BY <1>4, <1>6, <1>7, <1>8 DEF Returned

\* What has been severed stays so, whatever is fed next.
LEMMA FedSevers ==
  ASSUME BufferInv, NEW t \in Seq(Alphabet), Feed(t), ~ Severed'
  PROVE  ~ Severed
<1>1. /\ fed \in Seq(Alphabet) /\ fed' = fed \o t /\ forced \subseteq forced'
      /\ Len(out) \in Nat /\ forced \subseteq 0..Len(out)
  BY LenProperties DEF Feed, BufferInv, Accounted, CutsMade
<1>2. ASSUME NEW k \in forced PROVE ~ TokenAt(fed, k - 1) /\ ~ TokenAt(fed, k)
  <2>1. k \in Int /\ k - 1 \in Int /\ k \in forced'
    BY <1>1
  <2>2. ~ TokenAt(fed', k - 1) /\ ~ TokenAt(fed', k)
    BY <2>1 DEF Severed
  <2>3. PICK s \in Seq(Alphabet) : s = fed /\ fed' = s \o t
    BY <1>1
  <2> QED
    BY <2>1, <2>2, <2>3, TokenStays
<1> QED
  BY <1>2 DEF Severed

\* Text that is fed and written, as it came or with cut characters.
LEMMA FedText ==
  ASSUME TextInv, NEW e, NEW t \in Seq(Alphabet), Arrived(e), e.kind = "text",
         FeedAndWrite(e, t), t = e.txt \/ "cut" \in features, RelayInv'
  PROVE  TextInv'
<1>1. /\ Feed(t) /\ got' = Append(got, [e EXCEPT !.txt = Restored(Returned)])
      /\ read' = read + 1 /\ UNCHANGED <<sent, upstream, relay, features>>
      /\ relay = "streaming" /\ read < Len(sent) /\ e = sent[read + 1]
  BY DEF FeedAndWrite, Write, Arrived
<1>2. BufferInv'
  BY <1>1, FeedKept DEF TextInv
<1>3. Ended' /\ Sendable'
  BY <1>1 DEF TextInv, Ended, Sendable, Feed
<1>4. ASSUME ~ Severed', "chunked" \notin features
      PROVE  /\ Readable' /\ TextIn(got') = Restored(out')
             /\ "cut" \notin features => fed' = Said(sent', read')
  <2>1. ~ Severed
    BY <1>1, <1>4, FedSevers DEF TextInv
  <2>2. /\ Readable /\ TextIn(got) = Restored(out)
        /\ "cut" \notin features => fed = Said(sent, read)
    BY <1>4, <2>1 DEF TextInv, Delivered
  <2>3. PICK v \in Seq(Alphabet) : v = Returned /\ out' = out \o v
    BY <1>1, FedReturned DEF TextInv
  <2>4. PICK f : f = [e EXCEPT !.txt = Restored(v)]
    OBVIOUS
  <2>5. e = Event(e.kind, e.block, e.txt)
    <3>1. read + 1 \in 1..Len(sent)
      BY <1>1, LenProperties DEF TextInv, RelayInv, Lists
    <3> QED
      BY <1>1, <3>1 DEF TextInv, RelayInv, Records
  <2>6. f.kind = "text" /\ f.txt = Restored(v)
    BY <2>4, <2>5 DEF Event
  <2>7. got' = Append(got, f)
    BY <1>1, <2>3, <2>4
  <2>8. Readable' /\ TextIn(got') = TextIn(got) \o Restored(v)
    <3>1. PICK S : got \in Seq(S)
      BY DEF TextInv, RelayInv, Lists
    <3>2. Readable' /\ TextIn(got') = TextIn(got) \o Spoken(f)
      BY <1>1, <2>2, <2>6, <2>7, <3>1, WrittenText
    <3> QED
      BY <2>6, <3>2 DEF Spoken
  <2>9. Restored(out') = Restored(out) \o Restored(v)
    <3>1. /\ out \in Seq(Alphabet) /\ fed' \in Seq(Alphabet) /\ buf' \in Seq(Alphabet)
          /\ fed' = out' \o buf' /\ Len(out) \in Nat
      BY <1>2, LenProperties DEF TextInv, BufferInv, Accounted
    <3>2. PICK u \in Seq(Alphabet), w \in Seq(Alphabet), s \in Seq(Alphabet) :
            u = out /\ w = buf' /\ s = fed' /\ s = (u \o v) \o w
      BY <2>3, <3>1
    <3>3. Len(u) \in cuts'
      BY <1>1, <3>2 DEF TextInv, BufferInv, CutsMade, Feed, Emit
    <3>4. Len(u) \in 0..Len(s)
      <4>1. /\ Len(u) \in Nat /\ Len(v) \in Nat /\ Len(w) \in Nat
            /\ u \o v \in Seq(Alphabet) /\ Len(u \o v) = Len(u) + Len(v)
            /\ Len(s) = Len(u \o v) + Len(w)
        BY <3>2, LenProperties, ConcatProperties
      <4> QED
        BY <4>1
    <3>5. PICK k \in 0..Len(s) : k = Len(u) /\ k \in cuts'
      BY <3>3, <3>4
    <3>6. ~ TokenAt(s, k - 1) /\ ~ TokenAt(s, k)
      <4>1. CASE k \in forced'
        BY <1>4, <3>2, <4>1 DEF Severed
      <4>2. CASE k \notin forced'
        <5>1. \A i \in 1..k : ~ Crosses(i, k)'
          BY <1>2, <3>5, <4>2 DEF BufferInv, Uncrossed
        <5>2. \A i \in 1..k : \A j \in k + 1..Len(s) : ~ PlaceholderAt(s, i, j)
          BY <3>2, <5>1 DEF Crosses
        <5> QED
          BY <5>2, CutIsClear
      <4> QED
        BY <4>1, <4>2
    <3>7. Restored(u \o v) = Restored(u) \o Restored(v)
      BY <3>2, <3>5, <3>6, RestoredWithin
    <3> QED
      BY <2>3, <3>2, <3>7
  <2>10. ASSUME "cut" \notin features PROVE fed' = Said(sent', read')
    <3>1. fed' = fed \o t /\ t = e.txt
      BY <1>1, <2>10 DEF Feed
    <3>2. PICK n \in Nat : n = read /\ n + 1 <= Len(sent) /\ Len(sent) \in Nat
      BY <1>1, LenProperties DEF TextInv, RelayInv, Lists
    <3>3. PICK m, l : m = n + 1 /\ l = sent
      OBVIOUS
    <3>4. Texts(l, m, Alphabet)
      <4>1. \A i \in 1..m : Spoken(l[i]) \in Seq(Alphabet)
        <5>1. \A i \in 1..m : i \in 1..Len(sent)
          BY <3>2, <3>3
        <5>2. <<>> \in Seq(Alphabet)
          BY EmptySeq
        <5> QED
          BY <3>3, <5>1, <5>2, DeltasTyped DEF TextInv, Sendable, Spoken
      <4> QED
        BY <3>3, <4>1 DEF Texts
    <3>5. Said(l, m) = Said(l, n) \o Spoken(l[m])
      BY <3>3, <3>4, SaidNext
    <3>6. Spoken(l[m]) = t
      BY <1>1, <3>1, <3>2, <3>3 DEF Spoken
    <3> QED
      BY <1>1, <2>2, <2>10, <3>1, <3>2, <3>3, <3>5, <3>6
  <2> QED
    BY <2>2, <2>8, <2>9, <2>10
<1>5. Delivered'
  BY <1>1, <1>4 DEF Delivered
<1> QED
  BY <1>2, <1>3, <1>5 DEF TextInv

-----------------------------------------------------------------------------
(* One step of the relay, and the theorems.                                  *)

\* The upstream's next event changes nothing of what has been read.
LEMMA SentText ==
  ASSUME TextInv, UpstreamSend, RelayInv'
  PROVE  TextInv'
<1>1. /\ UNCHANGED <<vars, read, got, upstream, relay, features>> /\ upstream = "open"
      /\ \E b : \/ \E d \in Chunks : sent' = Append(sent, Event("text", b, d))
                \/ \E p \in Payloads : sent' = Append(sent, Event("other", b, p))
                \/ sent' = Append(sent, Event("stop", b, <<>>))
  BY DEF UpstreamSend
<1>2. PICK e : /\ sent' = Append(sent, e)
               /\ e.kind = "text" => e.txt \in Chunks
               /\ e.kind # "text" => e.txt = <<>> \/ "tool" \in features
  <2>1. ASSUME NEW b, NEW d \in Chunks
        PROVE  LET e == Event("text", b, d) IN e.kind = "text" /\ e.txt \in Chunks
    BY DEF Event
  <2>2. ASSUME NEW b, NEW p \in Payloads
        PROVE  LET e == Event("other", b, p) IN e.kind # "text" /\ (e.txt = <<>> \/ "tool" \in features)
    BY DEF Event, Payloads
  <2>3. ASSUME NEW b
        PROVE  LET e == Event("stop", b, <<>>) IN e.kind # "text" /\ e.txt = <<>>
    BY DEF Event
  <2> QED
    BY <1>1, <2>1, <2>2, <2>3
<1>3. PICK S : sent \in Seq(S)
  BY DEF TextInv, RelayInv, Lists
<1>4. /\ Len(sent) \in Nat /\ Len(sent') = Len(sent) + 1
      /\ \A i \in 1..Len(sent) : sent'[i] = sent[i]
      /\ sent'[Len(sent) + 1] = e
  BY <1>2, <1>3, Appended
<1>5. Sendable'
  <2> SUFFICES ASSUME NEW i \in 1..Len(sent')
               PROVE  /\ sent'[i].kind = "text" => sent'[i].txt \in Chunks
                      /\ sent'[i].kind # "text" => sent'[i].txt = <<>> \/ "tool" \in features
    BY <1>1 DEF Sendable
  <2>1. i \in 1..Len(sent) \/ i = Len(sent) + 1
    BY <1>4
  <2> QED
    BY <1>2, <1>4, <2>1 DEF TextInv, Sendable
<1>6. UNCHANGED <<buf, fed, out, cuts, forced, open>>
  BY <1>1 DEF vars
<1>7. BufferInv'
  BY <1>1, BufferKept DEF TextInv
<1>8. Ended'
  BY <1>1, <1>6 DEF TextInv, Ended
<1>9. Said(sent', read) = Said(sent, read)
  <2>1. \A i \in 1..read : sent'[i] = sent[i]
    BY <1>4 DEF TextInv, RelayInv
  <2> QED
    BY <2>1, SaidSame
<1>10. Delivered'
  BY <1>1, <1>6, <1>9 DEF TextInv, Delivered, Readable, Severed
<1> QED
  BY <1>5, <1>7, <1>8, <1>10 DEF TextInv

\* An event that is forwarded as it is.
LEMMA ForwardedText ==
  ASSUME TextInv, NEW e, Arrived(e), e.kind # "text" \/ "chunked" \in features,
         Write(e), UNCHANGED vars, RelayInv'
  PROVE  TextInv'
<1>1. /\ got' = Append(got, e) /\ read' = read + 1 /\ UNCHANGED <<sent, upstream, relay, features>>
      /\ relay = "streaming" /\ read < Len(sent) /\ e = sent[read + 1]
  BY DEF Write, Arrived
<1>2. UNCHANGED <<buf, fed, out, cuts, forced, open>>
  BY DEF vars
<1>3. BufferInv'
  BY BufferKept DEF TextInv
<1>4. Ended' /\ Sendable'
  BY <1>1, <1>2 DEF TextInv, Ended, Sendable
<1>5. ASSUME ~ Severed, "chunked" \notin features
      PROVE  /\ Readable' /\ TextIn(got') = Restored(out)
             /\ "cut" \notin features => fed = Said(sent', read')
  <2>1. /\ Readable /\ TextIn(got) = Restored(out)
        /\ "cut" \notin features => fed = Said(sent, read)
    BY <1>5 DEF TextInv, Delivered
  <2>2. PICK n \in Nat : n = read /\ n + 1 <= Len(sent) /\ Len(sent) \in Nat /\ n + 1 \in 1..Len(sent)
    BY <1>1, LenProperties DEF TextInv, RelayInv, Lists
  <2>3. e.kind # "text" /\ (e.txt = <<>> \/ "tool" \in features)
    BY <1>1, <1>5, <2>2 DEF TextInv, Sendable
  <2>4. PICK S : got \in Seq(S)
    BY DEF TextInv, RelayInv, Lists
  <2>5. Readable' /\ TextIn(got') = TextIn(got) \o <<>>
    <3>1. Readable' /\ TextIn(got') = TextIn(got) \o Spoken(e)
      BY <1>1, <2>1, <2>3, <2>4, WrittenText
    <3> QED
      BY <2>3, <3>1 DEF Spoken
  <2>6. Restored(out) \o <<>> = Restored(out)
    BY RestoredIs, ConcatEmptySeq DEF TextInv, BufferInv, Accounted
  <2>7. ASSUME "cut" \notin features PROVE fed = Said(sent', read')
    <3>1. PICK m, l : m = n + 1 /\ l = sent
      OBVIOUS
    <3>2. Texts(l, m, Alphabet)
      <4>1. \A i \in 1..m : i \in 1..Len(sent)
        BY <2>2, <3>1
      <4>2. <<>> \in Seq(Alphabet)
        BY EmptySeq
      <4>3. \A i \in 1..m : Spoken(l[i]) \in Seq(Alphabet)
        BY <3>1, <4>1, <4>2, DeltasTyped DEF TextInv, Sendable, Spoken
      <4> QED
        BY <3>1, <4>3 DEF Texts
    <3>3. Said(l, m) = Said(l, n) \o Spoken(l[m])
      BY <3>1, <3>2, SaidNext
    <3>4. Spoken(l[m]) = <<>>
      BY <1>1, <2>2, <2>3, <3>1 DEF Spoken
    <3>5. Said(l, n) = fed
      BY <2>1, <2>2, <2>7, <3>1
    <3>6. fed \o <<>> = fed
      BY ConcatEmptySeq DEF TextInv, BufferInv, Accounted
    <3> QED
      BY <1>1, <2>2, <3>1, <3>3, <3>4, <3>5, <3>6
  <2> QED
    BY <2>1, <2>5, <2>6, <2>7
<1>6. Delivered'
  BY <1>1, <1>2, <1>5 DEF Delivered, Severed
<1> QED
  BY <1>3, <1>4, <1>6 DEF TextInv

\* The tail, restored by itself.
LEMMA FlushedText ==
  ASSUME TextInv, EndOfStream, RelayInv'
  PROVE  TextInv'
<1>1. /\ relay = "streaming" /\ upstream = "ended" /\ read = Len(sent) /\ Flush
      /\ relay' = "closed" /\ UNCHANGED <<sent, read, upstream, features>>
      /\ got' = IF buf = <<>> THEN got ELSE Append(got, Event("text", 0, Restored(buf)))
  BY DEF EndOfStream
<1>2. BufferInv'
  BY <1>1, FlushKept DEF TextInv
<1>3. /\ out \in Seq(Alphabet) /\ buf \in Seq(Alphabet) /\ fed \in Seq(Alphabet) /\ fed = out \o buf
      /\ Len(out) \in Nat /\ Len(buf) \in Nat /\ Len(fed) = Len(out) + Len(buf)
  BY LenProperties, ConcatProperties DEF TextInv, BufferInv, Accounted
<1>4. /\ out' = out \o Prefix(buf, Len(buf)) /\ buf' = Suffix(buf, Len(buf) + 1)
      /\ UNCHANGED <<fed, forced>> /\ open' = FALSE
  BY <1>1 DEF Flush, Emit
<1>5. buf' = <<>> /\ out' = fed
  <2>1. PICK n \in 0..Len(buf) : n = Len(buf)
    BY <1>3
  <2>2. Suffix(buf, n + 1) \in Seq(Alphabet) /\ Len(Suffix(buf, n + 1)) = Len(buf) - n
    BY <1>3, Parts
  <2>3. buf' = <<>>
    BY <1>3, <1>4, <2>1, <2>2, EmptySeq
  <2>4. out' \in Seq(Alphabet) /\ fed' = out' \o buf'
    BY <1>2 DEF BufferInv, Accounted
  <2> QED
    BY <1>4, <2>3, <2>4, ConcatEmptySeq
<1>6. Ended' /\ Sendable'
  BY <1>1, <1>4, <1>5 DEF TextInv, Ended, Sendable
<1>7. ASSUME ~ Severed, "chunked" \notin features
      PROVE  /\ Readable' /\ TextIn(got') = Restored(fed)
             /\ "cut" \notin features => fed = Said(sent, read)
  <2>1. /\ Readable /\ TextIn(got) = Restored(out)
        /\ "cut" \notin features => fed = Said(sent, read)
    BY <1>7 DEF TextInv, Delivered
  <2>2. Restored(fed) = Restored(out) \o Restored(buf)
    <3>1. PICK u \in Seq(Alphabet), v \in Seq(Alphabet), s \in Seq(Alphabet) :
            u = out /\ v = buf /\ s = fed
      BY <1>3
    <3>2. s = u \o v
      BY <1>3, <3>1
    <3>3. PICK k \in 0..Len(s) : k = Len(u) /\ k \in cuts
      <4>1. Len(u) \in cuts /\ Len(u) \in 0..Len(s)
        BY <1>3, <3>1 DEF TextInv, BufferInv, CutsMade
      <4> QED
        BY <4>1
    <3>4. ~ TokenAt(s, k - 1) /\ ~ TokenAt(s, k)
      <4>1. CASE k \in forced
        BY <1>7, <3>1, <4>1 DEF Severed
      <4>2. CASE k \notin forced
        <5>1. \A i \in 1..k : ~ Crosses(i, k)
          BY <3>3, <4>2 DEF TextInv, BufferInv, Uncrossed
        <5>2. \A i \in 1..k : \A j \in k + 1..Len(s) : ~ PlaceholderAt(s, i, j)
          BY <3>1, <5>1 DEF Crosses
        <5> QED
          BY <5>2, CutIsClear
      <4> QED
        BY <4>1, <4>2
    <3>5. Restored(u \o v) = Restored(u) \o Restored(v)
      BY <3>2, <3>3, <3>4, RestoredJoin
    <3> QED
      BY <3>1, <3>2, <3>5
  <2>3. CASE buf = <<>>
    <3>1. got' = got /\ fed = out
      BY <1>1, <1>3, <2>3, ConcatEmptySeq
    <3>2. Readable'
      BY <1>1, <2>1, <3>1 DEF Readable
    <3> QED
      BY <2>1, <3>1, <3>2
  <2>4. CASE buf # <<>>
    <3>1. PICK f : f = Event("text", 0, Restored(buf))
      OBVIOUS
    <3>2. f.kind = "text" /\ f.txt = Restored(buf)
      BY <3>1 DEF Event
    <3>3. got' = Append(got, f)
      BY <1>1, <2>4, <3>1
    <3>4. PICK S : got \in Seq(S)
      BY DEF TextInv, RelayInv, Lists
    <3>5. Readable' /\ TextIn(got') = TextIn(got) \o Spoken(f)
      BY <1>1, <1>3, <2>1, <3>2, <3>3, <3>4, WrittenText
    <3> QED
      BY <2>1, <2>2, <3>2, <3>5 DEF Spoken
  <2> QED
    BY <2>3, <2>4
<1>8. Delivered'
  BY <1>1, <1>4, <1>5, <1>7 DEF Delivered, Severed
<1> QED
  BY <1>2, <1>6, <1>8 DEF TextInv

\* Somebody goes away.
Untouched ==
    /\ UNCHANGED <<buf, fed, out, cuts, forced, open>>
    /\ UNCHANGED <<sent, read, got, features>>
    /\ relay' = relay \/ (relay # "closed" /\ relay' # "closed")
    /\ upstream' = upstream \/ upstream' # "open"

LEMMA UntouchedText ==
  ASSUME TextInv, Untouched, RelayInv'
  PROVE  TextInv'
<1>1. UNCHANGED <<buf, fed, out, cuts, forced, open>>
  BY DEF Untouched
<1>2. BufferInv'
  <2>1. UNCHANGED vars
    BY <1>1 DEF vars
  <2> QED
    BY <2>1, BufferKept DEF TextInv
<1>3. Ended' /\ Sendable'
  BY <1>1 DEF TextInv, Ended, Sendable, Untouched
<1>4. Delivered'
  BY <1>1 DEF TextInv, Delivered, Readable, Untouched, Severed
<1> QED
  BY <1>2, <1>3, <1>4 DEF TextInv

LEMMA TextKept == TextInv /\ [RelayNext]_relayVars => TextInv'
<1> SUFFICES ASSUME TextInv, [RelayNext]_relayVars PROVE TextInv'
  OBVIOUS
<1>0. RelayInv'
  BY RelayKept DEF TextInv
<1>1. ASSUME RelayText PROVE TextInv'
  <2>1. PICK e \in {sent[i] : i \in 1..Len(sent)} : Arrived(e) /\ e.kind = "text" /\ FeedAndWrite(e, e.txt)
    BY <1>1 DEF RelayText
  <2>2. PICK t \in Seq(Alphabet) : t = e.txt
    BY <2>1, DeltasTyped DEF TextInv, Sendable
  <2> QED
    BY <1>0, <2>1, <2>2, FedText
<1>2. ASSUME RelayCutText PROVE TextInv'
  <2>1. PICK e \in {sent[i] : i \in 1..Len(sent)} :
          "cut" \in features /\ Arrived(e) /\ e.kind = "text" /\ FeedAndWrite(e, Garbled(e.txt))
    BY <1>2 DEF RelayCutText
  <2>2. PICK s \in Seq(Alphabet) : s = e.txt
    BY <2>1, DeltasTyped DEF TextInv, Sendable
  <2>3. PICK t \in Seq(Alphabet) : t = Garbled(s)
    BY <2>2, GarbledTyped
  <2> QED
    BY <1>0, <2>1, <2>2, <2>3, FedText
<1>3. ASSUME RelayOther \/ RelayFramed PROVE TextInv'
  <2>1. PICK e : /\ Arrived(e) /\ (e.kind # "text" \/ "chunked" \in features)
                 /\ Write(e) /\ UNCHANGED vars
    BY <1>3 DEF RelayOther, RelayFramed
  <2> QED
    BY <1>0, <2>1, ForwardedText
<1>4. UpstreamSilent \/ UpstreamEnd \/ UpstreamReset \/ UpstreamFailed \/ Timeout
        \/ WriteBlocks \/ ClientReads \/ ClientLeft => Untouched
  <2>1. ASSUME UpstreamSilent \/ UpstreamEnd \/ UpstreamReset PROVE Untouched
    <3>1. /\ UNCHANGED <<vars, sent, read, got, relay, features>> /\ upstream' # "open"
      BY <2>1 DEF UpstreamSilent, UpstreamEnd, UpstreamReset
    <3> QED
      BY <3>1 DEF Untouched, vars
  <2>2. ASSUME UpstreamFailed \/ Timeout \/ WriteBlocks \/ ClientReads \/ ClientLeft
        PROVE  Untouched
    <3>1. /\ UNCHANGED <<vars, sent, read, got, upstream, features>>
          /\ relay \in {"streaming", "blocked"}
          /\ relay' \in {"streaming", "blocked", "cut", "left"}
      BY <2>2 DEF UpstreamFailed, Timeout, WriteBlocks, ClientReads, ClientLeft
    <3>2. UNCHANGED <<buf, fed, out, cuts, forced, open>>
      BY <3>1 DEF vars
    <3>3. relay # "closed" /\ relay' # "closed"
      BY <3>1
    <3> QED
      BY <3>1, <3>2, <3>3 DEF Untouched
  <2> QED
    BY <2>1, <2>2
<1>5. UNCHANGED relayVars => Untouched
  <2> SUFFICES ASSUME UNCHANGED relayVars PROVE Untouched
    OBVIOUS
  <2>1. UNCHANGED vars /\ UNCHANGED <<sent, read, got, upstream, relay, features>>
    BY DEF relayVars
  <2>2. UNCHANGED <<buf, fed, out, cuts, forced, open>>
    BY <2>1 DEF vars
  <2> QED
    BY <2>1, <2>2 DEF Untouched
<1> QED
  BY <1>0, <1>1, <1>2, <1>3, <1>4, <1>5, SentText, FlushedText, UntouchedText DEF RelayNext

LEMMA TextBegins == RelayInit => TextInv
<1> SUFFICES ASSUME RelayInit PROVE TextInv
  OBVIOUS
<1>1. RelayInv /\ BufferInv
  BY RelayBegins, Fresh DEF RelayInit
<1>2. <<>> \in Seq(Alphabet) /\ Len(<<>>) = 0
  BY EmptySeq
<1>3. Restored(<<>>) = <<>>
  BY <1>2, RestoredIs
<1>4. Said(<<>>, 0) = <<>> /\ TextIn(<<>>) = <<>>
  <2>1. PICK n, s : n = 0 /\ s = <<>>
    OBVIOUS
  <2>2. Texts(s, n, Alphabet)
    BY <2>1 DEF Texts
  <2>3. Said(s, n) = <<>>
    BY <2>1, <2>2, SaidTyped
  <2> QED
    BY <1>2, <2>1, <2>3, SaidIs
<1>5. Ended /\ Sendable
  BY DEF RelayInit, Init, Ended, Sendable
<1>6. Delivered
  BY <1>2, <1>3, <1>4 DEF RelayInit, Init, Delivered, Readable
<1> QED
  BY <1>1, <1>5, <1>6 DEF TextInv

\* The invariant of the text that is delivered.
THEOREM TextInvariance == RelaySpec => []TextInv
BY TextBegins, TextKept, PTL DEF RelaySpec

\* No token reaches the client, however it was cut into deltas and whenever
\* the client reads, in a stream of text in which no forced emission severs a
\* token.
THEOREM NoTokenLeavesTheRelay == RelaySpec => []NoTokenDelivered
<1>1. TextInv => NoTokenDelivered
  <2> SUFFICES ASSUME TextInv, ~ Severed, "tool" \notin features, "chunked" \notin features
               PROVE  TokenFree
    BY DEF NoTokenDelivered
  <2>1. Readable /\ TextIn(got) = Restored(out) /\ out \in Seq(Alphabet)
    BY DEF TextInv, Delivered, BufferInv, Accounted
  <2>2. \A s \in Seq(Alphabet) : TokenFreeText(Restored(s))
    BY RestoredFree
  <2>3. TokenFreeText(<<>>)
    BY EmptySeq DEF TokenFreeText, TokenAt
  <2>4. TokenFreeText(TextIn(got))
    BY <2>1, <2>2
  <2>5. \A i \in 1..Len(got) : TokenFreeText(got[i].txt)
    BY <2>1, <2>2, <2>3 DEF Readable
  <2>6. \A x : TokenFreeText(x) => \A i \in 1..Len(x) : ~ TokenAt(x, i)
    <3> SUFFICES ASSUME NEW x, TokenFreeText(x), NEW i \in 1..Len(x) PROVE ~ TokenAt(x, i)
      OBVIOUS
    <3>1. i \in Int
      OBVIOUS
    <3> QED
      BY <3>1 DEF TokenFreeText
  <2> QED
    BY <2>4, <2>5, <2>6 DEF TokenFree
<1> QED
  BY <1>1, TextInvariance, PTL

\* Such a stream, if no read cuts a character, reaches the client as a prefix
\* of the restored reply at every moment, and as a whole when it ends.
THEOREM ClientReadsTheReply == RelaySpec => []ClientTextRestored
<1>1. TextInv => ClientTextRestored
  <2> SUFFICES ASSUME TextInv, ~ Severed, "cut" \notin features, "chunked" \notin features
               PROVE  /\ IsPrefix(TextIn(got), Restored(TextIn(sent)))
                      /\ relay = "closed" => TextIn(got) = Restored(TextIn(sent))
    BY DEF ClientTextRestored
  <2>1. /\ TextIn(got) = Restored(out) /\ fed = Said(sent, read)
        /\ out \in Seq(Alphabet) /\ buf \in Seq(Alphabet) /\ fed \in Seq(Alphabet) /\ fed = out \o buf
    BY DEF TextInv, Delivered, BufferInv, Accounted
  <2>2. PICK n \in Nat : n = Len(sent) /\ read <= n /\ read \in Nat
    BY LenProperties DEF TextInv, RelayInv, Lists
  <2>3. Texts(sent, n, Alphabet)
    <3>1. <<>> \in Seq(Alphabet)
      BY EmptySeq
    <3>2. \A i \in 1..n : Spoken(sent[i]) \in Seq(Alphabet)
      BY <2>2, <3>1, DeltasTyped DEF TextInv, Sendable, Spoken
    <3> QED
      BY <2>2, <3>2 DEF Texts
  <2>4. PICK rest \in Seq(Alphabet) : Said(sent, n) = Said(sent, read) \o rest
    <3>1. PICK m \in Nat : m = read /\ m <= n
      BY <2>2
    <3>2. Prolongs(Said(sent, n), Said(sent, m), Alphabet)
      BY <2>3, <3>1, SaidFurther
    <3> QED
      BY <3>1, <3>2 DEF Prolongs
  <2>5. TextIn(sent) = fed \o rest
    BY <2>1, <2>2, <2>4, SaidIs
  <2>6. CASE ~ open
    <3>1. read = Len(sent) /\ buf = <<>>
      BY <2>6 DEF TextInv, Ended
    <3>2. TextIn(sent) = fed
      BY <2>1, <3>1, SaidIs
    <3>3. out = fed
      BY <2>1, <3>1, ConcatEmptySeq
    <3>4. TextIn(got) = Restored(TextIn(sent))
      BY <2>1, <3>2, <3>3
    <3>5. Restored(out) \in Seq(Letters)
      BY <2>1, RestoredIs
    <3>6. Len(Restored(out)) <= Len(Restored(out))
      BY <3>5, LenProperties
    <3> QED
      BY <2>1, <3>4, <3>6 DEF IsPrefix
  <2>7. CASE open
    <3>1. PICK u \in Seq(Alphabet), v \in Seq(Alphabet), s \in Seq(Alphabet) :
            u = out /\ s = fed /\ v = buf \o rest
      BY <2>1, ConcatProperties
    <3>2. u \o v = s \o rest
      BY <2>1, <3>1, ConcatAssociative
    <3>3. ~ TokenAt(s \o rest, Len(u) - 1) /\ ~ TokenAt(s \o rest, Len(u))
      <4>0. PICK k : k = Len(u) /\ k \in cuts
        BY <3>1 DEF TextInv, BufferInv, CutsMade
      <4>1. /\ k \in Nat /\ k - 1 \in Int /\ k \in Int /\ Len(buf) \in Nat /\ Len(s) \in Nat
            /\ Len(s) = k + Len(buf) /\ k \in 0..Len(s)
        BY <2>1, <3>1, <4>0, LenProperties, ConcatProperties
      <4>2. CASE k \in forced
        <5>1. Len(buf) = MaxLen
          BY <2>7, <3>1, <4>0, <4>2 DEF TextInv, BufferInv, ForcedLeaves
        <5>2. k - 1 + 2 <= Len(s) /\ k + 2 <= Len(s)
          BY <4>1, <5>1, BufferAssumption, RelayAssumption
        <5>3. ~ TokenAt(s, k - 1) /\ ~ TokenAt(s, k)
          BY <3>1, <4>2 DEF Severed
        <5> QED
          BY <4>0, <4>1, <5>2, <5>3, TokenStays
      <4>3. CASE k \notin forced
        <5>1. \A i \in 1..k : ~ Crosses(i, k)
          BY <4>0, <4>3 DEF TextInv, BufferInv, Uncrossed
        <5>2. Clear(s, rest, k)
          BY <2>7, <3>1, <4>1, <5>1 DEF Crosses, Clear
        <5> QED
          BY <4>0, <5>2, NoneAcross
      <4> QED
        BY <4>2, <4>3
    <3>4. Restored(s \o rest) = Restored(u) \o Restored(v)
      BY <3>2, <3>3, RestoredJoin
    <3>5. PICK x \in Seq(Letters), y \in Seq(Letters), z \in Seq(Letters) :
            x = Restored(u) /\ y = Restored(v) /\ z = Restored(s \o rest) /\ z = x \o y
      <4>1. Restored(u) \in Seq(Letters) /\ Restored(v) \in Seq(Letters)
        BY RestoredIs
      <4> QED
        BY <3>4, <4>1, ConcatProperties
    <3>6. Len(x) <= Len(z) /\ SubSeq(x, 1, Len(x)) = SubSeq(z, 1, Len(x))
      <4>1. Len(x) \in Nat /\ Len(y) \in Nat /\ Len(z) = Len(x) + Len(y)
        BY <3>5, LenProperties, ConcatProperties
      <4>2. SubSeq(x, 1, Len(x)) = x
        BY SubSeqFull
      <4>3. SubSeq(z, 1, Len(x)) = x
        BY <3>5, ConcatSimplifications, SubSeqOfConcat1, <4>1, <4>2
      <4> QED
        BY <4>1, <4>2, <4>3
    <3>7. IsPrefix(x, z)
      BY <3>6 DEF IsPrefix
    <3>8. relay # "closed"
      BY <2>7 DEF TextInv, Ended
    <3> QED
      BY <2>1, <2>5, <3>1, <3>5, <3>7, <3>8
  <2> QED
    BY <2>6, <2>7 DEF TextInv, BufferInv
<1> QED
  BY <1>1, TextInvariance, PTL
=============================================================================
