------------------------------- MODULE ToolsProofs -------------------------------
(***************************************************************************)
(* Proofs about the tools beside the proxy, each for any constants: the    *)
(* firewall lockdown, the launcher and the signed rule updates.            *)
(***************************************************************************)
EXTENDS Lockdown, Launcher, Updates, SequenceTheorems, TLAPS

-----------------------------------------------------------------------------
(* The lockdown.  Rules of a scope are there only while it is on its way in, *)
(* in its block, or about to flush them; from then on it owns none, and what *)
(* was there when it began to disable is gone.                               *)
LockdownTypeOK ==
    /\ at \in [Processes -> {"idle", "loaded", "block", "flush_rules", "flush_table", "flushed"}]
    /\ enabled \in [Processes -> BOOLEAN] /\ errors \in [Processes -> BOOLEAN]
    /\ stale \in [Processes -> SUBSET Processes]
    /\ loaders \subseteq Processes /\ evicted \subseteq Processes /\ astray \subseteq Processes

EnabledInBlock == \A p \in Processes : enabled[p] => at[p] = "block" /\ p \in Scopes
ScopesFlushFirst ==
    \A p \in loaders \cap Scopes : at[p] \in {"loaded", "block", "flush_rules"} \/ p \in astray
BlockIsClosed ==
    \A p \in Scopes : (at[p] = "loaded" \/ enabled[p]) => (rules /\ table) \/ p \in evicted \cup astray
StaleIsGone ==
    \A p \in Processes : at[p] \in {"flush_table", "flushed"} =>
        loaders \cap stale[p] = {} \/ p \in astray

LockdownInv ==
    LockdownTypeOK /\ EnabledInBlock /\ ScopesFlushFirst /\ BlockIsClosed /\ StaleIsGone

(* What a step of a process says of its own place and of the others'. *)
LEMMA Moves ==
    ASSUME LockdownTypeOK, NEW p \in Processes, NEW step, MoveTo(p, step)
    PROVE  at'[p] = step /\ \A q \in Processes \ {p} : at'[q] = at[q]
BY DEF MoveTo, LockdownTypeOK

LEMMA EnableInv == ASSUME LockdownInv, NEW p \in Processes, Enable(p) PROVE LockdownInv'
<1> USE DEF LockdownInv
<1>1. at[p] = "idle" /\ UNCHANGED <<errors, enabled>> /\ ~ enabled[p]
  BY DEF Enable, At, EnabledInBlock
<1>2. CASE Succeeds /\ LoadRuleset /\ Loaded(p) /\ MoveTo(p, "loaded") /\ UNCHANGED told
  <2>1. rules' /\ table' /\ UNCHANGED astray
    BY <1>2 DEF Succeeds, LoadRuleset
  <2>2. /\ loaders' = loaders \cup {p} /\ evicted' = evicted \ {p}
        /\ stale' = [q \in Processes |-> stale[q] \ {p}]
    BY <1>2 DEF Loaded
  <2>3. at' = [at EXCEPT ![p] = "loaded"]
    BY <1>2 DEF MoveTo
  <2>4. LockdownTypeOK'
    BY <1>1, <2>1, <2>2, <2>3 DEF LockdownTypeOK
  <2>5. EnabledInBlock' /\ ScopesFlushFirst' /\ BlockIsClosed'
    BY <1>1, <2>1, <2>2, <2>3 DEF LockdownTypeOK, EnabledInBlock, ScopesFlushFirst, BlockIsClosed
  <2>6. StaleIsGone'
    BY <2>1, <2>2, <2>3 DEF LockdownTypeOK, StaleIsGone
  <2> QED BY <2>4, <2>5, <2>6
<1>3. CASE Fails(p) /\ UNCHANGED <<rules, table, history>> /\ at' \in {at, [at EXCEPT ![p] = "loaded"]}
  <2>1. astray' = astray \cup {p} /\ UNCHANGED <<loaders, stale, evicted>>
    BY <1>3 DEF Fails, GoesAstray, history
  <2>2. LockdownTypeOK'
    BY <1>1, <1>3, <2>1 DEF LockdownTypeOK
  <2>3. EnabledInBlock' /\ ScopesFlushFirst'
    BY <1>1, <1>3, <2>1 DEF LockdownTypeOK, EnabledInBlock, ScopesFlushFirst
  <2>4. BlockIsClosed'
    BY <1>1, <1>3, <2>1 DEF LockdownTypeOK, BlockIsClosed, Processes
  <2>5. StaleIsGone'
    BY <1>3, <2>1 DEF LockdownTypeOK, StaleIsGone
  <2> QED BY <2>2, <2>3, <2>4, <2>5
<1> QED BY <1>2, <1>3 DEF Enable, MoveTo

LEMMA SetEnabledInv == ASSUME LockdownInv, NEW p \in Processes, SetEnabled(p) PROVE LockdownInv'
<1> USE DEF LockdownInv
<1>1. at[p] = "loaded" /\ UNCHANGED <<rules, table, errors, loaders, stale, evicted, astray>>
  BY DEF SetEnabled, At, history
<1>2. IF p \in Scopes THEN enabled' = [enabled EXCEPT ![p] = TRUE] /\ at' = [at EXCEPT ![p] = "block"]
      ELSE UNCHANGED enabled /\ at' = [at EXCEPT ![p] = "idle"]
  BY DEF SetEnabled, MoveTo
<1>3. LockdownTypeOK'
  BY <1>1, <1>2 DEF LockdownTypeOK
<1>4. EnabledInBlock'
  BY <1>1, <1>2 DEF LockdownTypeOK, EnabledInBlock
<1>5. ScopesFlushFirst'
  BY <1>1, <1>2 DEF LockdownTypeOK, ScopesFlushFirst, Processes
<1>6. BlockIsClosed'
  <2>1. ASSUME NEW q \in Scopes, q # p PROVE at'[q] = at[q] /\ enabled'[q] = enabled[q]
    BY <1>2, <2>1 DEF LockdownTypeOK, Processes
  <2>2. p \in Scopes => (rules /\ table) \/ p \in evicted \cup astray
    BY <1>1 DEF BlockIsClosed
  <2> QED BY <1>1, <2>1, <2>2 DEF BlockIsClosed
<1>7. StaleIsGone'
  BY <1>1, <1>2 DEF LockdownTypeOK, StaleIsGone
<1> QED BY <1>3, <1>4, <1>5, <1>6, <1>7

LEMMA DisableInv == ASSUME LockdownInv, NEW p \in Processes, Disable(p) PROVE LockdownInv'
<1> USE DEF LockdownInv
<1>1. /\ at[p] = IF p \in Scopes THEN "block" ELSE "idle"
      /\ enabled' = [enabled EXCEPT ![p] = FALSE] /\ errors' = [errors EXCEPT ![p] = FALSE]
      /\ stale' = [stale EXCEPT ![p] = loaders] /\ evicted' = evicted \ {p}
      /\ at' = [at EXCEPT ![p] = "flush_rules"]
      /\ UNCHANGED <<rules, table, loaders, astray>>
  BY DEF Disable, BeginDisable, At, MoveTo
<1>2. LockdownTypeOK'
  BY <1>1 DEF LockdownTypeOK
<1>3. EnabledInBlock'
  BY <1>1 DEF LockdownTypeOK, EnabledInBlock
<1>4. ScopesFlushFirst' /\ BlockIsClosed'
  BY <1>1 DEF LockdownTypeOK, ScopesFlushFirst, BlockIsClosed
<1>5. StaleIsGone'
  BY <1>1 DEF LockdownTypeOK, StaleIsGone
<1> QED BY <1>2, <1>3, <1>4, <1>5

(* A flush that works leaves no rules to answer for, and whoever still relied *)
(* on them has been evicted.                                                 *)
LEMMA FlushRulesInv == ASSUME LockdownInv, NEW p \in Processes, FlushRules(p) PROVE LockdownInv'
<1> USE DEF LockdownInv
<1>1. at[p] = "flush_rules" /\ at' = [at EXCEPT ![p] = "flush_table"]
      /\ UNCHANGED <<table, enabled, told, stale>> /\ ~ enabled[p]
  BY DEF FlushRules, At, MoveTo, EnabledInBlock
<1>2. CASE Succeeds /\ rules' = FALSE /\ loaders' = {} /\ Evict(p) /\ UNCHANGED errors
  <2>1. UNCHANGED astray
        /\ evicted' = evicted \cup {q \in Processes \ {p} : at[q] = "loaded" \/ enabled[q]}
    BY <1>2 DEF Succeeds, Evict, At
  <2>2. LockdownTypeOK'
    BY <1>1, <1>2, <2>1 DEF LockdownTypeOK
  <2>3. EnabledInBlock' /\ ScopesFlushFirst' /\ StaleIsGone'
    BY <1>1, <1>2 DEF LockdownTypeOK, EnabledInBlock, ScopesFlushFirst, StaleIsGone
  <2>4. BlockIsClosed'
    BY <1>1, <2>1 DEF LockdownTypeOK, BlockIsClosed, Processes
  <2> QED BY <2>2, <2>3, <2>4
<1>3. CASE Fails(p) /\ UNCHANGED <<rules, loaders, evicted>>
           /\ errors' \in {errors, [errors EXCEPT ![p] = TRUE]}
  <2>1. astray' = astray \cup {p}
    BY <1>3 DEF Fails, GoesAstray
  <2>2. LockdownTypeOK'
    BY <1>1, <1>3, <2>1 DEF LockdownTypeOK
  <2>3. EnabledInBlock' /\ ScopesFlushFirst' /\ BlockIsClosed'
    BY <1>1, <1>3, <2>1 DEF LockdownTypeOK, EnabledInBlock, ScopesFlushFirst, BlockIsClosed
  <2>4. StaleIsGone'
    BY <1>1, <1>3, <2>1 DEF LockdownTypeOK, StaleIsGone
  <2> QED BY <2>2, <2>3, <2>4
<1> QED BY <1>2, <1>3 DEF FlushRules

LEMMA FlushTableInv == ASSUME LockdownInv, NEW p \in Processes, FlushTable(p) PROVE LockdownInv'
<1> USE DEF LockdownInv
<1>1. at[p] = "flush_table" /\ at' = [at EXCEPT ![p] = "flushed"]
      /\ UNCHANGED <<rules, enabled, told, loaders, stale>> /\ ~ enabled[p]
  BY DEF FlushTable, At, MoveTo, EnabledInBlock
<1>2. CASE Succeeds /\ table' = FALSE /\ Evict(p) /\ UNCHANGED errors
  <2>1. UNCHANGED astray
        /\ evicted' = evicted \cup {q \in Processes \ {p} : at[q] = "loaded" \/ enabled[q]}
    BY <1>2 DEF Succeeds, Evict, At
  <2>2. LockdownTypeOK'
    BY <1>1, <1>2, <2>1 DEF LockdownTypeOK
  <2>3. EnabledInBlock' /\ ScopesFlushFirst' /\ StaleIsGone'
    BY <1>1, <2>1 DEF LockdownTypeOK, EnabledInBlock, ScopesFlushFirst, StaleIsGone
  <2>4. BlockIsClosed'
    BY <1>1, <2>1 DEF LockdownTypeOK, BlockIsClosed, Processes
  <2> QED BY <2>2, <2>3, <2>4
<1>3. CASE Fails(p) /\ UNCHANGED <<table, evicted>>
           /\ errors' \in {errors, [errors EXCEPT ![p] = TRUE]}
  <2>1. astray' = astray \cup {p}
    BY <1>3 DEF Fails, GoesAstray
  <2>2. LockdownTypeOK'
    BY <1>1, <1>3, <2>1 DEF LockdownTypeOK
  <2>3. EnabledInBlock' /\ ScopesFlushFirst' /\ BlockIsClosed'
    BY <1>1, <1>3, <2>1 DEF LockdownTypeOK, EnabledInBlock, ScopesFlushFirst, BlockIsClosed
  <2>4. StaleIsGone'
    BY <1>1, <1>3, <2>1 DEF LockdownTypeOK, StaleIsGone
  <2> QED BY <2>2, <2>3, <2>4
<1> QED BY <1>2, <1>3 DEF FlushTable

LEMMA ReportDisabledInv ==
    ASSUME LockdownInv, NEW p \in Processes, ReportDisabled(p) PROVE LockdownInv'
<1> USE DEF LockdownInv
<1>1. /\ at[p] = "flushed" /\ at' = [at EXCEPT ![p] = "idle"]
      /\ errors' = [errors EXCEPT ![p] = FALSE] /\ stale' = [stale EXCEPT ![p] = {}]
      /\ UNCHANGED <<rules, table, enabled, loaders, evicted, astray>> /\ ~ enabled[p]
  BY DEF ReportDisabled, At, MoveTo, EnabledInBlock
<1>2. LockdownTypeOK'
  BY <1>1 DEF LockdownTypeOK
<1>3. EnabledInBlock' /\ ScopesFlushFirst' /\ BlockIsClosed'
  BY <1>1 DEF LockdownTypeOK, EnabledInBlock, ScopesFlushFirst, BlockIsClosed
<1>4. StaleIsGone'
  BY <1>1 DEF LockdownTypeOK, StaleIsGone
<1> QED BY <1>2, <1>3, <1>4

LEMMA StatusOrDieInv ==
    ASSUME LockdownInv, NEW p \in Processes, Status(p) \/ Die(p) PROVE LockdownInv'
<1> USE DEF LockdownInv
<1>1. CASE Status(p)
  <2>1. UNCHANGED <<rules, table, at, enabled, errors, loaders, stale, evicted>>
        /\ astray' \in {astray, astray \cup {p}}
    BY <1>1 DEF Status, Succeeds, Fails, GoesAstray, history
  <2>2. LockdownTypeOK' /\ EnabledInBlock'
    BY <2>1 DEF LockdownTypeOK, EnabledInBlock
  <2> QED BY <2>1, <2>2 DEF ScopesFlushFirst, BlockIsClosed, StaleIsGone
<1>2. CASE Die(p)
  <2>1. /\ at' = [at EXCEPT ![p] = "idle"] /\ enabled' = [enabled EXCEPT ![p] = FALSE]
        /\ errors' = [errors EXCEPT ![p] = FALSE] /\ stale' = [stale EXCEPT ![p] = {}]
        /\ evicted' = evicted \ {p} /\ astray' = astray \cup {p}
        /\ UNCHANGED <<rules, table, loaders>>
    BY <1>2 DEF Die, MoveTo, GoesAstray
  <2>2. LockdownTypeOK'
    BY <2>1 DEF LockdownTypeOK
  <2>3. EnabledInBlock' /\ ScopesFlushFirst' /\ BlockIsClosed'
    BY <2>1 DEF LockdownTypeOK, EnabledInBlock, ScopesFlushFirst, BlockIsClosed
  <2>4. StaleIsGone'
    BY <2>1 DEF LockdownTypeOK, StaleIsGone
  <2> QED BY <2>2, <2>3, <2>4
<1> QED BY <1>1, <1>2

LEMMA LockdownNextInv == LockdownInv /\ [LockdownNext]_lockdownVars => LockdownInv'
<1> SUFFICES ASSUME LockdownInv, [LockdownNext]_lockdownVars PROVE LockdownInv'
  OBVIOUS
<1>1. CASE UNCHANGED lockdownVars
  BY <1>1 DEF lockdownVars, history, LockdownInv, LockdownTypeOK, EnabledInBlock,
              ScopesFlushFirst, BlockIsClosed, StaleIsGone
<1> QED BY <1>1, EnableInv, SetEnabledInv, DisableInv, FlushRulesInv, FlushTableInv,
           ReportDisabledInv, StatusOrDieInv DEF LockdownNext

LEMMA LockdownInitInv == LockdownInit => LockdownInv
<1> SUFFICES ASSUME LockdownInit PROVE LockdownInv
  OBVIOUS
<1>1. LockdownTypeOK
  BY DEF LockdownInit, LockdownTypeOK
<1>2. \A p \in Processes : at[p] = "idle" /\ ~ enabled[p]
  BY DEF LockdownInit
<1>3. loaders = {} /\ Scopes \subseteq Processes
  BY DEF LockdownInit, Processes
<1> QED BY <1>1, <1>2, <1>3
        DEF LockdownInv, EnabledInBlock, ScopesFlushFirst, BlockIsClosed, StaleIsGone

(* The invariant of the lockdown. *)
THEOREM LockdownInvariance == LockdownSpec => []LockdownInv
BY LockdownInitInv, LockdownNextInv, PTL DEF LockdownSpec

(* No scope leaves its block rules behind, and none relies on rules that are *)
(* gone, but for a failed call, a kill or another process's flush.           *)
THEOREM NoRulesLeftBehind == LockdownSpec => []RulesClaimed
<1>1. LockdownInv => RulesClaimed
  BY DEF LockdownInv, RulesClaimed, ScopesFlushFirst, BlockIsClosed, At, Processes
<1> QED BY <1>1, LockdownInvariance, PTL

(* Whatever the processes interleave, a report that the lockdown is off is   *)
(* wrong only if a pfctl call of the one that reports failed.                *)
THEOREM ReportsAreTrue == LockdownSpec => ReportsTrue
<1> DEFINE True ==
        \A p \in Processes :
           /\ told' # told /\ told' = <<p, "disabled">> => loaders' \cap stale[p] = {} \/ p \in astray
           /\ told' # told /\ told' = <<p, "inactive">> => ~ rules \/ p \in astray'
<1>1. ASSUME LockdownInv, LockdownNext PROVE True
  <2>1. PICK p \in Processes : \/ Enable(p) \/ SetEnabled(p) \/ Disable(p) \/ FlushRules(p)
                               \/ FlushTable(p) \/ ReportDisabled(p) \/ Status(p) \/ Die(p)
    BY <1>1 DEF LockdownNext
  <2>2. CASE Enable(p) \/ SetEnabled(p) \/ Disable(p) \/ FlushRules(p) \/ FlushTable(p) \/ Die(p)
    <3>1. told' = told \/ told' = <<>> \/ told' = <<p, "failed">> \/ told' = <<p, "enabled">>
      BY <2>2 DEF Enable, SetEnabled, Disable, BeginDisable, FlushRules, FlushTable, Die, Tell
    <3>2. \A q : <<q, "disabled">> # <<>> /\ <<q, "inactive">> # <<>>
                /\ <<q, "disabled">>[2] = "disabled" /\ <<q, "inactive">>[2] = "inactive"
      OBVIOUS
    <3>3. told' # told => \A q : told' # <<q, "disabled">> /\ told' # <<q, "inactive">>
      BY <3>1, <3>2
    <3> QED BY <3>3
  <2>3. CASE ReportDisabled(p)
    <3>1. loaders' = loaders /\ (loaders \cap stale[p] = {} \/ p \in astray)
      BY <1>1, <2>3 DEF ReportDisabled, At, LockdownInv, StaleIsGone
    <3>2. told' = <<p, "failed">> \/ told' = <<p, "disabled">>
      BY <2>3 DEF ReportDisabled, Tell
    <3> QED BY <3>1, <3>2
  <2>4. CASE Status(p)
    <3>1. \/ told' = <<p, "active">> \/ told' = <<p, "unknown">>
          \/ told' = <<p, "inactive">> /\ (~ rules \/ p \in astray')
      BY <2>4 DEF Status, Tell, Fails, GoesAstray
    <3> QED BY <3>1
  <2> QED BY <2>1, <2>2, <2>3, <2>4
<1>2. ASSUME LockdownInv, UNCHANGED lockdownVars PROVE True
  BY <1>2 DEF lockdownVars
<1>3. LockdownInv /\ [LockdownNext]_lockdownVars => [True]_lockdownVars
  BY <1>1, <1>2
<1> QED BY <1>3, LockdownInvariance, PTL DEF LockdownSpec, ReportsTrue

-----------------------------------------------------------------------------
(* The launcher.  As long as blocks nest, all but the last of the open ones  *)
(* are patched, each has saved what the body of the one around it sees, and  *)
(* the environment is what the innermost body sees or is about to patch.     *)
Settings == {Unset, Custom, Proxy}
LauncherTypeOK ==
    /\ before \in {Unset, Custom} /\ env \in Settings /\ saved \in [Blocks -> Settings]
    /\ open \in Seq(Blocks) /\ patched \subseteq Blocks /\ tangled \in BOOLEAN
    /\ \A b \in patched : Contains(open, b)

InBody(i) == Injected(saved[open[i]], open[i] \in Overriding)
Nested ==
    /\ \A i, j \in 1..Len(open) : open[i] = open[j] => i = j
    /\ \A i \in 1..Len(open) - 1 : open[i] \in patched
    /\ \A i \in 1..Len(open) : saved[open[i]] = IF i = 1 THEN before ELSE InBody(i - 1)
    /\ env = IF open = <<>> THEN before
             ELSE IF open[Len(open)] \in patched THEN InBody(Len(open)) ELSE saved[open[Len(open)]]

(* The user's own value is nowhere unless the user had set it. *)
CustomIsTheUsers == before = Unset => env # Custom /\ \A b \in Blocks : saved[b] # Custom
ChildrenReachProxy ==
    \A c \in children : /\ c.got = Unset => c.tangled
                        /\ c.got = Custom => c.base = Custom \/ c.tangled

LauncherInv ==
    /\ LauncherTypeOK /\ (~ tangled => Nested) /\ CustomIsTheUsers /\ ChildrenReachProxy

LEMMA InjectedFacts ==
    ASSUME NEW value \in Settings, NEW override \in BOOLEAN
    PROVE  /\ Injected(value, override) \in Settings \ {Unset}
           /\ Injected(value, override) = Custom => value = Custom
BY DEF Injected, Settings, Unset, Custom, Proxy

(* Taking a block away leaves the others, in their order. *)
LEMMA WithoutFacts ==
    ASSUME open \in Seq(Blocks), NEW b, Contains(open, b), NEW s, s = Without(open, b)
    PROVE  /\ s \in Seq(Blocks) /\ Len(s) = Len(open) - 1
           /\ \E i \in 1..Len(open) :
                /\ open[i] = b
                /\ \A k \in 1..i - 1 : s[k] = open[k]
                /\ \A k \in i + 1..Len(open) : s[k - 1] = open[k]
<1>1. Len(open) \in Nat /\ DOMAIN open = 1..Len(open)
  OBVIOUS
<1>2. PICK i : i = (CHOOSE j \in DOMAIN open : open[j] = b)
  OBVIOUS
<1>3. i \in 1..Len(open) /\ open[i] = b
  BY <1>1, <1>2 DEF Contains
<1>4. PICK l, r : l = SubSeq(open, 1, i - 1) /\ r = SubSeq(open, i + 1, Len(open))
  OBVIOUS
<1>5. l \in Seq(Blocks) /\ Len(l) = i - 1 /\ \A k \in 1..i - 1 : l[k] = open[k]
  <2>1. \A k \in 1..i - 1 : open[k] \in Blocks /\ 1 + k - 1 = k
    BY <1>1, <1>3
  <2>2. 1 \in Int /\ i - 1 \in Int /\ i - 1 >= 0
    BY <1>1, <1>3
  <2>3. l \in Seq(Blocks) /\ Len(l) = (IF 1 <= i - 1 THEN i - 1 - 1 + 1 ELSE 0)
        /\ \A k \in 1..i - 1 - 1 + 1 : l[k] = open[1 + k - 1]
    BY <1>4, <2>1, <2>2, SubSeqProperties
  <2> QED BY <1>1, <1>3, <2>1, <2>3
<1>6. r \in Seq(Blocks) /\ Len(r) = Len(open) - i /\ \A k \in 1..Len(open) - i : r[k] = open[i + k]
  <2>1. \A k \in i + 1..Len(open) : open[k] \in Blocks
    BY <1>1, <1>3
  <2>2. i + 1 \in Int /\ Len(open) \in Int
    BY <1>1, <1>3
  <2>3. r \in Seq(Blocks) /\ Len(r) = (IF i + 1 <= Len(open) THEN Len(open) - (i + 1) + 1 ELSE 0)
        /\ \A k \in 1..Len(open) - (i + 1) + 1 : r[k] = open[i + 1 + k - 1]
    BY <1>4, <2>1, <2>2, SubSeqProperties
  <2>4. /\ Len(open) - (i + 1) + 1 = Len(open) - i
        /\ (IF i + 1 <= Len(open) THEN Len(open) - (i + 1) + 1 ELSE 0) = Len(open) - i
    <3>1. \A n \in Nat : \A j \in 1..n : /\ n - (j + 1) + 1 = n - j
                                       /\ (IF j + 1 <= n THEN n - (j + 1) + 1 ELSE 0) = n - j
      OBVIOUS
    <3> QED BY <1>1, <1>3, <3>1
  <2>5. ASSUME NEW k \in 1..Len(open) - i PROVE r[k] = open[i + k]
    <3>1. i + 1 + k - 1 = i + k
      BY <1>1, <1>3
    <3>2. r[k] = open[i + 1 + k - 1]
      BY <2>3, <2>4
    <3> QED BY <3>1, <3>2
  <2> QED BY <2>3, <2>4, <2>5
<1>7. /\ s \in Seq(Blocks) /\ Len(s) = Len(l) + Len(r)
      /\ \A k \in 1..Len(l) + Len(r) : s[k] = IF k <= Len(l) THEN l[k] ELSE r[k - Len(l)]
  <2>1. s = l \o r
    BY <1>2, <1>4 DEF Without, RemoveAt
  <2>2. l \in Seq(Blocks) /\ r \in Seq(Blocks)
    BY <1>5, <1>6
  <2> QED BY <2>1, <2>2, ConcatProperties
<1>8. ASSUME NEW k \in i + 1..Len(open) PROVE s[k - 1] = open[k]
  <2>1. k - i \in 1..Len(open) - i /\ (i - 1) + (k - i) = k - 1 /\ i + (k - i) = k
    BY <1>1, <1>3
  <2>2. k - 1 \in 1..Len(l) + Len(r) /\ ~ (k - 1 <= Len(l)) /\ k - 1 - Len(l) = k - i
    BY <1>1, <1>3, <1>5, <1>6
  <2> QED BY <1>6, <1>7, <2>1, <2>2
<1>9. ASSUME NEW k \in 1..i - 1 PROVE s[k] = open[k]
  <2>1. k \in 1..Len(l) + Len(r) /\ k <= Len(l)
    BY <1>1, <1>3, <1>5, <1>6
  <2> QED BY <1>5, <1>7, <2>1
<1> QED BY <1>1, <1>3, <1>5, <1>6, <1>7, <1>8, <1>9

LEMMA SaveEnvInv == ASSUME LauncherInv, NEW b \in Blocks, SaveEnv(b) PROVE LauncherInv'
<1> USE DEF LauncherInv
<1>1. /\ ~ Contains(open, b) /\ open' = Append(open, b) /\ saved' = [saved EXCEPT ![b] = env]
      /\ tangled' = (tangled \/ ToSet(open) # patched)
      /\ UNCHANGED <<before, env, patched, children>>
  BY DEF SaveEnv
<1>2. /\ Len(open) \in Nat /\ open' \in Seq(Blocks) /\ Len(open') = Len(open) + 1
      /\ open'[Len(open) + 1] = b /\ \A i \in 1..Len(open) : open'[i] = open[i] /\ open[i] \in Blocks
  BY <1>1 DEF LauncherTypeOK
<1>3. LauncherTypeOK'
  <2>1. \A c \in patched' : Contains(open', c)
    BY <1>1, <1>2 DEF LauncherTypeOK, Contains
  <2> QED BY <1>1, <1>2, <2>1 DEF LauncherTypeOK
<1>4. ASSUME ~ tangled' PROVE Nested'
  <2>1. Nested /\ ToSet(open) = patched
    BY <1>1, <1>4
  <2>2. \A i \in 1..Len(open) : /\ open[i] # b /\ open[i] \in patched /\ saved'[open[i]] = saved[open[i]]
                                /\ InBody(i)' = InBody(i)
    BY <1>1, <1>2, <2>1 DEF Contains, ToSet, LauncherTypeOK, InBody
  <2>3. b \notin patched /\ saved'[b] = env
    BY <1>1, <2>1 DEF LauncherTypeOK, ToSet, Contains
  <2>4. env = IF Len(open) = 0 THEN before ELSE InBody(Len(open))
    BY <1>2, <2>1, <2>2 DEF Nested, LauncherTypeOK
  <2>5. \A i, j \in 1..Len(open') : open'[i] = open'[j] => i = j
    BY <1>2, <2>1, <2>2 DEF Nested
  <2>6. \A i \in 1..Len(open') - 1 : open'[i] \in patched'
    BY <1>1, <1>2, <2>2
  <2>7. \A i \in 1..Len(open') : saved'[open'[i]] = IF i = 1 THEN before' ELSE InBody(i - 1)'
    <3>1. ASSUME NEW i \in 1..Len(open)
          PROVE  saved'[open'[i]] = IF i = 1 THEN before' ELSE InBody(i - 1)'
      <4>1. saved[open[i]] = IF i = 1 THEN before ELSE InBody(i - 1)
        BY <2>1 DEF Nested
      <4>2. i # 1 => i - 1 \in 1..Len(open)
        BY <1>2
      <4> QED BY <1>1, <1>2, <2>2, <4>1, <4>2
    <3>2. ASSUME NEW n, n = Len(open)
          PROVE  saved'[open'[n + 1]] = IF n = 0 THEN before' ELSE InBody(n)'
      <4>1. n # 0 => n \in 1..Len(open)
        BY <1>2, <3>2
      <4> QED BY <1>1, <1>2, <2>2, <2>3, <2>4, <3>2, <4>1
    <3>3. ASSUME NEW i \in 1..Len(open')
          PROVE  saved'[open'[i]] = IF i = 1 THEN before' ELSE InBody(i - 1)'
      <4>1. i \in 1..Len(open) \/ (i - 1 = Len(open) /\ i = (i - 1) + 1 /\ (i = 1 <=> i - 1 = 0))
        BY <1>2
      <4>2. CASE i \in 1..Len(open)
        BY <3>1, <4>2
      <4>3. CASE i - 1 = Len(open) /\ i = (i - 1) + 1 /\ (i = 1 <=> i - 1 = 0)
        BY <3>2, <4>3
      <4> QED BY <4>1, <4>2, <4>3
    <3> QED BY <3>3
  <2>8. env' = saved'[open'[Len(open')]] /\ open'[Len(open')] \notin patched' /\ open' # <<>>
    BY <1>1, <1>2, <2>3
  <2> QED BY <2>5, <2>6, <2>7, <2>8 DEF Nested
<1>5. CustomIsTheUsers' /\ ChildrenReachProxy'
  BY <1>1 DEF LauncherTypeOK, CustomIsTheUsers, ChildrenReachProxy
<1> QED BY <1>3, <1>4, <1>5

LEMMA PatchEnvInv == ASSUME LauncherInv, NEW b \in Blocks, PatchEnv(b) PROVE LauncherInv'
<1> USE DEF LauncherInv
<1>1. /\ Contains(open, b) /\ b \notin patched /\ patched' = patched \cup {b}
      /\ env' = Injected(env, b \in Overriding)
      /\ UNCHANGED <<before, open, saved, tangled, children>>
  BY DEF PatchEnv
<1>2. env' \in Settings \ {Unset} /\ (env' = Custom => env = Custom)
  <2>1. env \in Settings /\ (b \in Overriding) \in BOOLEAN
    BY DEF LauncherTypeOK
  <2> QED BY <1>1, <2>1, InjectedFacts
<1>3. LauncherTypeOK' /\ CustomIsTheUsers' /\ ChildrenReachProxy'
  BY <1>1, <1>2 DEF LauncherTypeOK, CustomIsTheUsers, ChildrenReachProxy
<1>4. ASSUME ~ tangled' PROVE Nested'
  <2>1. Nested
    BY <1>1, <1>4
  <2>2. Len(open) \in Nat /\ Len(open) # 0 /\ b = open[Len(open)] /\ open # <<>>
    BY <1>1, <2>1 DEF Nested, Contains, LauncherTypeOK
  <2>3. env' = InBody(Len(open))
    BY <1>1, <2>1, <2>2 DEF Nested, InBody
  <2>4. \A i : InBody(i)' = InBody(i)
    BY <1>1 DEF InBody
  <2> QED BY <1>1, <2>1, <2>2, <2>3, <2>4 DEF Nested
<1> QED BY <1>3, <1>4

LEMMA RestoreEnvInv == ASSUME LauncherInv, NEW b \in Blocks, RestoreEnv(b) PROVE LauncherInv'
<1> USE DEF LauncherInv
<1>1. /\ b \in patched /\ env' = saved[b] /\ open' = Without(open, b) /\ patched' = patched \ {b}
      /\ tangled' = (tangled \/ Last(open) # b)
      /\ UNCHANGED <<before, saved, children>>
  BY DEF RestoreEnv
<1>2. /\ Len(open) \in Nat /\ open' \in Seq(Blocks) /\ Len(open') = Len(open) - 1
      /\ \E i \in 1..Len(open) :
           /\ open[i] = b
           /\ \A k \in 1..i - 1 : open'[k] = open[k]
           /\ \A k \in i + 1..Len(open) : open'[k - 1] = open[k]
  <2>1. open \in Seq(Blocks) /\ Contains(open, b)
    BY <1>1 DEF LauncherTypeOK
  <2>2. PICK s : s = Without(open, b)
    OBVIOUS
  <2> QED BY <1>1, <2>1, <2>2, WithoutFacts
<1>3. LauncherTypeOK'
  <2>1. ASSUME NEW c \in patched, c # b PROVE Contains(open', c)
    <3>1. PICK k \in 1..Len(open) : open[k] = c
      BY DEF LauncherTypeOK, Contains
    <3>2. PICK i \in 1..Len(open) :
             /\ open[i] = b
             /\ \A j \in 1..i - 1 : open'[j] = open[j]
             /\ \A j \in i + 1..Len(open) : open'[j - 1] = open[j]
      BY <1>2
    <3>3. k \in 1..i - 1 \/ (k \in i + 1..Len(open) /\ k - 1 \in 1..Len(open'))
      BY <1>2, <2>1, <3>1, <3>2
    <3>4. k \in 1..i - 1 => k \in 1..Len(open')
      BY <1>2, <3>2
    <3> QED BY <3>1, <3>2, <3>3, <3>4 DEF Contains
  <2> QED BY <1>1, <1>2, <2>1 DEF LauncherTypeOK
<1>4. CustomIsTheUsers' /\ ChildrenReachProxy'
  BY <1>1 DEF LauncherTypeOK, CustomIsTheUsers, ChildrenReachProxy
<1>5. ASSUME ~ tangled' PROVE Nested'
  <2>1. Nested /\ open[Len(open)] = b
    BY <1>1, <1>5 DEF Last
  <2>2. Len(open) \in Nat \ {0} /\ open # <<>>
    BY <1>2
  <2>3. PICK n : n = Len(open) - 1 /\ n \in Nat /\ Len(open') = n /\ Len(open) = n + 1
    BY <1>2, <2>2
  <2>4. \A i \in 1..n : open'[i] = open[i] /\ open[i] # b
    <3>1. PICK i \in 1..Len(open) : open[i] = b /\ \A k \in 1..i - 1 : open'[k] = open[k]
      BY <1>2
    <3>2. i = n + 1
      BY <2>1, <2>2, <2>3, <3>1 DEF Nested
    <3> QED BY <2>1, <2>3, <3>1, <3>2 DEF Nested
  <2>5. \A i \in 1..n : InBody(i)' = InBody(i)
    BY <1>1, <2>4 DEF InBody
  <2>6. \A i, j \in 1..n : open'[i] = open'[j] => i = j
    BY <2>1, <2>3, <2>4 DEF Nested
  <2>7. \A i \in 1..n : open'[i] \in patched'
    BY <1>1, <2>1, <2>3, <2>4 DEF Nested
  <2>8. \A i \in 1..n + 1 : saved[open[i]] = IF i = 1 THEN before ELSE InBody(i - 1)
    BY <2>1, <2>3 DEF Nested
  <2>9. ASSUME NEW i \in 1..n
        PROVE  saved'[open'[i]] = IF i = 1 THEN before' ELSE InBody(i - 1)'
    <3>1. i # 1 => i - 1 \in 1..n
      BY <2>3
    <3> QED BY <1>1, <2>3, <2>4, <2>5, <2>8, <3>1
  <2>10. env' = IF n = 0 THEN before' ELSE InBody(n)'
    <3>1. env' = IF n = 0 THEN before ELSE InBody(n)
      BY <1>1, <2>1, <2>3, <2>8
    <3>2. n # 0 => n \in 1..n
      BY <2>3
    <3> QED BY <1>1, <2>5, <3>1, <3>2
  <2>11. (n = 0 <=> open' = <<>>) /\ (n # 0 => open'[n] \in patched')
    BY <1>2, <2>3, <2>7
  <2>12. \A i \in 1..n - 1 : i \in 1..n
    BY <2>3
  <2>13. env' = IF open' = <<>> THEN before'
                ELSE IF open'[n] \in patched' THEN InBody(n)' ELSE saved'[open'[n]]
    BY <2>10, <2>11
  <2> QED BY <2>3, <2>6, <2>7, <2>9, <2>12, <2>13 DEF Nested
<1> QED BY <1>3, <1>4, <1>5

LEMMA ChildInv ==
    ASSUME LauncherInv,
           \/ \E b \in Blocks : StartInBlock(b)
           \/ \E given \in {env, Unset, Custom}, override \in BOOLEAN : Launch(given, override)
    PROVE  LauncherInv'
<1> USE DEF LauncherInv
<1>1. UNCHANGED <<before, env, open, patched, saved, tangled>>
  BY DEF StartInBlock, Launch
<1>2. LauncherTypeOK' /\ CustomIsTheUsers' /\ (~ tangled' => Nested')
  BY <1>1 DEF LauncherTypeOK, CustomIsTheUsers, Nested, InBody
<1>3. ASSUME NEW b \in Blocks, StartInBlock(b) PROVE ChildrenReachProxy'
  <2>1. children' = children \cup {[by |-> "block", base |-> before, got |-> env, tangled |-> tangled]}
        /\ b \in patched
    BY <1>3 DEF StartInBlock
  <2>2. ~ tangled => env # Unset
    <3> SUFFICES ASSUME ~ tangled PROVE env # Unset
      OBVIOUS
    <3>1. PICK i \in 1..Len(open) : open[i] = b /\ Len(open) \in Nat
      BY <2>1 DEF Contains, LauncherTypeOK
    <3>2. ASSUME NEW k \in 1..Len(open) PROVE InBody(k) # Unset
      <4>1. saved[open[k]] \in Settings /\ (open[k] \in Overriding) \in BOOLEAN
        BY DEF LauncherTypeOK
      <4> QED BY <4>1, InjectedFacts DEF InBody
    <3>3. CASE open[Len(open)] \in patched
      BY <3>1, <3>2, <3>3 DEF Nested
    <3>4. CASE open[Len(open)] \notin patched
      <4>1. Len(open) \in 2..Len(open) /\ open # <<>>
        BY <2>1, <3>1, <3>4
      <4>2. env = InBody(Len(open) - 1) /\ Len(open) - 1 \in 1..Len(open)
        BY <3>4, <4>1 DEF Nested
      <4> QED BY <3>2, <4>2
    <3> QED BY <3>3, <3>4
  <2>3. env = Custom => before = Custom
    BY DEF CustomIsTheUsers, LauncherTypeOK
  <2> QED BY <2>1, <2>2, <2>3 DEF ChildrenReachProxy
<1>4. ASSUME NEW given \in {env, Unset, Custom}, NEW override \in BOOLEAN, Launch(given, override)
      PROVE  ChildrenReachProxy'
  <2>1. given \in Settings
    BY DEF LauncherTypeOK, Settings
  <2>2. Injected(given, override) # Unset /\ (Injected(given, override) = Custom => given = Custom)
    BY <2>1, InjectedFacts
  <2> QED BY <1>4, <2>2 DEF Launch, ChildrenReachProxy
<1> QED BY <1>2, <1>3, <1>4

LEMMA LauncherNextInv == LauncherInv /\ [LauncherNext]_launcherVars => LauncherInv'
<1> SUFFICES ASSUME LauncherInv, [LauncherNext]_launcherVars PROVE LauncherInv'
  OBVIOUS
<1>1. CASE UNCHANGED launcherVars
  BY <1>1 DEF launcherVars, LauncherInv, LauncherTypeOK, Nested, InBody, CustomIsTheUsers,
              ChildrenReachProxy
<1> QED BY <1>1, SaveEnvInv, PatchEnvInv, RestoreEnvInv, ChildInv DEF LauncherNext

LEMMA LauncherInitInv == LauncherInit => LauncherInv
<1> SUFFICES ASSUME LauncherInit PROVE LauncherInv
  OBVIOUS
<1>1. LauncherTypeOK
  <2>1. open = <<>> /\ patched = {} /\ tangled = FALSE /\ before \in {Unset, Custom} /\ env = before
    BY DEF LauncherInit
  <2>2. open \in Seq(Blocks)
    BY <2>1
  <2>3. saved \in [Blocks -> Settings]
    BY DEF LauncherInit, Settings
  <2> QED BY <2>1, <2>2, <2>3 DEF LauncherTypeOK, Settings
<1>2. open = <<>> /\ patched = {} /\ env = before
  BY DEF LauncherInit
<1>3. Nested
  BY <1>2 DEF Nested
<1> QED BY <1>1, <1>3 DEF LauncherInit, LauncherInv, CustomIsTheUsers, ChildrenReachProxy, Unset, Custom

(* The invariant of the launcher. *)
THEOREM LauncherInvariance == LauncherSpec => []LauncherInv
BY LauncherInitInv, LauncherNextInv, PTL DEF LauncherSpec

(* For any number of nested blocks: the environment is as it was before when *)
(* the last is left, and no child of one, or of the launcher, goes to the    *)
(* provider directly.                                                        *)
THEOREM EnvironmentRestored == LauncherSpec => []EnvRestored
<1>1. LauncherInv => EnvRestored
  BY DEF LauncherInv, Nested, ChildrenReachProxy, EnvRestored
<1> QED BY <1>1, LauncherInvariance, PTL

-----------------------------------------------------------------------------
(* Signed updates.  Whatever is done to the file, the mac in it is one that  *)
(* a signer computed, and of the key a verifier was made with nothing else   *)
(* is known.                                                                 *)
AnyPayload == Payloads \cup {NoPayload}
Signatures == [alg : {"none", "hmac-sha256", "hmac-sha512"}, hex : BOOLEAN, mac : signed \cup {NoMac}]
Forms == {"none", "manifest", "no_json", "no_object", "no_fields", "odd_signature"}
FileOK == file \in [form : Forms, payload : AnyPayload, signature : Signatures]

UpdatesInv ==
    /\ FileOK /\ keysMade \in Nat /\ keyFile \in 0..MaxKeys + 1
    /\ signer \in Nat /\ verifier \in Nat
    /\ NoMac \notin signed /\ LoadedWasSigned

LEMMA GenerateKeyInv ==
    ASSUME UpdatesInv, NEW overwrite \in BOOLEAN, GenerateKey(overwrite)
    PROVE  UpdatesInv'
<1>1. /\ keysMade < MaxKeys /\ keysMade' = keysMade + 1 /\ keyFile' \in {keysMade', MaxKeys + 1}
      /\ loaded' = NothingLoaded /\ UNCHANGED <<signer, verifier, file, signed>>
  BY DEF GenerateKey, Idle, TornKey
<1>2. keysMade' \in Nat /\ keyFile' \in 0..MaxKeys + 1
  BY <1>1, UpdatesAssumption DEF UpdatesInv
<1>3. FileOK'
  BY <1>1 DEF UpdatesInv, FileOK, Signatures
<1> QED BY <1>1, <1>2, <1>3 DEF UpdatesInv, LoadedWasSigned, NothingLoaded

LEMMA LoadKeyInv == ASSUME UpdatesInv, LoadSigner \/ LoadVerifier PROVE UpdatesInv'
<1>1. /\ loaded' = NothingLoaded /\ UNCHANGED <<keyFile, keysMade, file, signed>>
      /\ signer' \in {signer, KeyFromFile} /\ verifier' \in {verifier, KeyFromFile}
  BY DEF LoadSigner, LoadVerifier, Idle
<1>2. KeyFromFile \in Nat
  BY UpdatesAssumption DEF UpdatesInv, KeyFromFile, NoKey
<1>3. FileOK'
  BY <1>1 DEF UpdatesInv, FileOK, Signatures
<1> QED BY <1>1, <1>2, <1>3 DEF UpdatesInv, LoadedWasSigned, NothingLoaded

LEMMA SignInv == ASSUME UpdatesInv, NEW p \in Payloads, Sign(p) PROVE UpdatesInv'
<1>1. /\ signer # NoKey /\ signed' = signed \cup {<<signer, p>>}
      /\ file' = [form |-> "manifest", payload |-> p,
                  signature |-> [alg |-> "hmac-sha256", hex |-> TRUE, mac |-> <<signer, p>>]]
      /\ loaded' = NothingLoaded /\ UNCHANGED <<keyFile, keysMade, signer, verifier>>
  BY DEF Sign, Idle, CanonicalPayload, Manifest
<1>2. <<signer, p>> # NoMac
  BY <1>1 DEF NoMac
<1>3. FileOK'
  BY <1>1 DEF FileOK, Signatures, Forms, AnyPayload
<1> QED BY <1>1, <1>2, <1>3 DEF UpdatesInv, LoadedWasSigned, NothingLoaded

LEMMA DamageInv == ASSUME UpdatesInv, Damage PROVE UpdatesInv'
<1>1. loaded' = NothingLoaded /\ UNCHANGED <<keyFile, keysMade, signer, verifier, signed>>
  BY DEF Damage, Idle
<1>2. FileOK'
  <2>1. FileOK
    BY DEF UpdatesInv
  <2>2. CASE \E p \in Payloads : file' = [file EXCEPT !.payload = p]
    BY <1>1, <2>1, <2>2 DEF FileOK, AnyPayload, Signatures
  <2>3. CASE \E alg \in {"none", "hmac-sha512"} : file' = [file EXCEPT !.signature.alg = alg]
    BY <1>1, <2>1, <2>3 DEF FileOK, Signatures
  <2>4. CASE file' = [file EXCEPT !.signature.hex = FALSE]
    BY <1>1, <2>1, <2>4 DEF FileOK, Signatures
  <2>5. CASE \E form \in {"no_json", "no_object", "no_fields", "odd_signature"} :
                file' = [file EXCEPT !.form = form]
    BY <1>1, <2>1, <2>5 DEF FileOK, Forms, Signatures
  <2> QED BY <2>2, <2>3, <2>4, <2>5 DEF Damage
<1> QED BY <1>1, <1>2 DEF UpdatesInv, LoadedWasSigned, NothingLoaded

(* The mac that was checked is one that was computed, so the payload it was  *)
(* computed from is the one that is returned.                                *)
LEMMA LoadVerifiedInv == ASSUME UpdatesInv, LoadVerified PROVE UpdatesInv'
<1>1. /\ verifier # NoKey /\ UNCHANGED <<keyFile, keysMade, signer, verifier, file, signed>>
      /\ loaded' = [how |-> Verdict(file),
                    payload |-> IF Verdict(file) = "loaded" THEN file.payload ELSE NoPayload]
  BY DEF LoadVerified
<1>2. FileOK'
  BY <1>1 DEF UpdatesInv, FileOK, Signatures
<1>3. ASSUME Verdict(file) = "loaded"
      PROVE  <<verifier, file.payload>> \in signed /\ file.payload.content = file.payload.sha256
  <2>1. file.signature.mac = <<verifier, file.payload>> /\ file.payload.content = file.payload.sha256
    BY <1>3 DEF Verdict, CanonicalPayload
  <2>2. file.signature.mac \in signed \cup {NoMac}
    BY DEF UpdatesInv, FileOK, Signatures
  <2>3. <<verifier, file.payload>> # NoMac
    BY <1>1 DEF NoMac
  <2> QED BY <2>1, <2>2, <2>3
<1>4. LoadedWasSigned'
  BY <1>1, <1>3 DEF LoadedWasSigned
<1> QED BY <1>1, <1>2, <1>4 DEF UpdatesInv

LEMMA UpdatesInitInv == UpdatesInit => UpdatesInv
<1> SUFFICES ASSUME UpdatesInit PROVE UpdatesInv
  OBVIOUS
<1>1. FileOK
  BY DEF UpdatesInit, FileOK, NoFile, NoSignature, Signatures, Forms, AnyPayload
<1>2. keysMade = 0 /\ keyFile = 0 /\ signer = 0 /\ verifier = 0 /\ signed = {}
      /\ loaded = NothingLoaded
  BY DEF UpdatesInit, NoKey
<1>3. 0 \in 0..MaxKeys + 1
  BY UpdatesAssumption
<1> QED BY <1>1, <1>2, <1>3 DEF UpdatesInv, LoadedWasSigned, NothingLoaded

LEMMA UpdatesNextInv == UpdatesInv /\ [UpdatesNext]_updatesVars => UpdatesInv'
<1> SUFFICES ASSUME UpdatesInv, [UpdatesNext]_updatesVars PROVE UpdatesInv'
  OBVIOUS
<1>1. CASE UNCHANGED updatesVars
  BY <1>1 DEF updatesVars, UpdatesInv, FileOK, Signatures, LoadedWasSigned
<1> QED BY <1>1, GenerateKeyInv, LoadKeyInv, SignInv, DamageInv, LoadVerifiedInv DEF UpdatesNext

(* The invariant of the signed updates. *)
THEOREM UpdatesInvariance == UpdatesSpec => []UpdatesInv
BY UpdatesInitInv, UpdatesNextInv, PTL DEF UpdatesSpec

(* For any number of keys, signers' manifests and damages: what              *)
(* load_verified returns was signed, whole, with the verifier's key.         *)
THEOREM OnlySignedIsLoaded == UpdatesSpec => []LoadedWasSigned
<1>1. UpdatesInv => LoadedWasSigned
  BY DEF UpdatesInv
<1> QED BY <1>1, UpdatesInvariance, PTL
=================================================================================
