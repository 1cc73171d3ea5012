-------------------------------- MODULE Lockdown --------------------------------
(***************************************************************************)
(* The egress lockdown: PfManager loads block rules and a table into one    *)
(* anchor of pf, which all processes of the host share, and flushes them.   *)
(* Some processes use a manager in a with block, others run the egress      *)
(* commands of the command line, each with a manager of its own.            *)
(***************************************************************************)
EXTENDS Naturals, FiniteSets

CONSTANTS Scopes,       \* processes with a with block
          Commands,     \* processes of the command line
          Unchecked,    \* those whose manager has check_output = False
          MaxAstray     \* bound: processes that meet a failure or a kill

Processes == Scopes \cup Commands

ASSUME LockdownAssumption == Scopes \cap Commands = {} /\ Unchecked \subseteq Scopes /\ MaxAstray \in Nat

VARIABLES rules, table, \* loaded in the anchor
          at,           \* process -> "idle", "loaded", "block", "flush_rules",
                        \*            "flush_table", "flushed"
          enabled,      \* process -> is_enabled
          errors,       \* process -> whether disable met an error
          told,         \* the last report: <<process, what>>
          loaders,      \* who loaded the rules that are there
          stale,        \* process -> those of them since before its last disable
          evicted,      \* whose rules or table another one flushed
          astray        \* who had a pfctl call fail, or died

history == <<loaders, stale, evicted>>
lockdownVars == <<rules, table, at, enabled, errors, told, history, astray>>

LockdownInit ==
    /\ rules = FALSE /\ table = FALSE
    /\ at = [p \in Processes |-> "idle"] /\ enabled = [p \in Processes |-> FALSE]
    /\ errors = [p \in Processes |-> FALSE] /\ told = <<>>
    /\ loaders = {} /\ stale = [p \in Processes |-> {}] /\ evicted = {} /\ astray = {}

At(p, from) == at[p] = from
MoveTo(p, to) == at' = [at EXCEPT ![p] = to]
Tell(p, what) == told' = <<p, what>>
Loaded(p) ==
    /\ loaders' = loaders \cup {p} /\ evicted' = evicted \ {p}
    /\ stale' = [q \in Processes |-> stale[q] \ {p}]
Evict(p) == evicted' = evicted \cup {q \in Processes \ {p} : At(q, "loaded") \/ enabled[q]}

-----------------------------------------------------------------------------
(* _run_pfctl ends with exit code 0 and its effect, with another exit code   *)
(* and none, or raises because there is no sudo.                             *)
Succeeds == UNCHANGED astray
GoesAstray(p) == astray' = astray \cup {p} /\ Cardinality(astray') <= MaxAstray
Fails(p) == GoesAstray(p)

(* The ruleset of build_anchor_rules: the table, and the rule that names it. *)
LoadRuleset == rules' = TRUE /\ table' = TRUE

(* enable.  A command ends there, a scope enters its block unless __enter__  *)
(* raised.                                                                   *)
Enable(p) ==
    /\ At(p, "idle")
    /\ UNCHANGED errors
    /\ \/ /\ Succeeds /\ LoadRuleset /\ Loaded(p)
          /\ MoveTo(p, "loaded") /\ UNCHANGED <<enabled, told>>
       \/ /\ Fails(p) /\ UNCHANGED <<rules, table, history, enabled>>       \* nonzero exit code
          /\ IF p \in Unchecked THEN MoveTo(p, "loaded") /\ UNCHANGED told
             ELSE Tell(p, "failed") /\ UNCHANGED at
       \/ /\ Fails(p) /\ UNCHANGED <<rules, table, history, enabled, at>>   \* no binary
          /\ Tell(p, "failed")
SetEnabled(p) ==
    /\ At(p, "loaded")
    /\ IF p \in Scopes THEN enabled' = [enabled EXCEPT ![p] = TRUE] /\ MoveTo(p, "block")
       ELSE UNCHANGED enabled /\ MoveTo(p, "idle")        \* its manager is gone
    /\ Tell(p, "enabled")
    /\ UNCHANGED <<rules, table, errors, history, astray>>

(* disable, at the end of a block however it ends, or by a command: is_enabled*)
(* is cleared and not asked, and both calls are made.                         *)
BeginDisable(p, flushes) ==
    /\ At(p, IF p \in Scopes THEN "block" ELSE "idle")
    /\ enabled' = [enabled EXCEPT ![p] = FALSE] /\ errors' = [errors EXCEPT ![p] = FALSE]
    /\ stale' = [stale EXCEPT ![p] = loaders] /\ evicted' = evicted \ {p}
    /\ MoveTo(p, IF flushes THEN "flush_rules" ELSE "flushed") /\ told' = <<>>
    /\ UNCHANGED <<rules, table, loaders, astray>>
DisableOnlyEnabled(p) == BeginDisable(p, enabled[p])
DisableIfStillEnabled(p) == BeginDisable(p, FALSE)
Disable(p) == BeginDisable(p, TRUE)
FlushRules(p) ==
    /\ At(p, "flush_rules") /\ MoveTo(p, "flush_table")
    /\ \/ Succeeds /\ rules' = FALSE /\ loaders' = {} /\ Evict(p) /\ UNCHANGED errors
       \/ Fails(p) /\ UNCHANGED <<rules, loaders, evicted, errors>>
       \/ Fails(p) /\ errors' = [errors EXCEPT ![p] = TRUE] /\ UNCHANGED <<rules, loaders, evicted>>
    /\ UNCHANGED <<table, enabled, told, stale>>
FlushTable(p) ==
    /\ At(p, "flush_table") /\ MoveTo(p, "flushed")
    /\ \/ Succeeds /\ table' = FALSE /\ Evict(p) /\ UNCHANGED errors
       \/ Fails(p) /\ UNCHANGED <<table, evicted, errors>>
       \/ Fails(p) /\ errors' = [errors EXCEPT ![p] = TRUE] /\ UNCHANGED <<table, evicted>>
    /\ UNCHANGED <<rules, enabled, told, loaders, stale>>
ReportDisabled(p) ==
    /\ At(p, "flushed") /\ MoveTo(p, "idle")
    /\ Tell(p, IF errors[p] /\ p \notin Unchecked THEN "failed" ELSE "disabled")
    /\ errors' = [errors EXCEPT ![p] = FALSE] /\ stale' = [stale EXCEPT ![p] = {}]
    /\ UNCHANGED <<rules, table, enabled, loaders, evicted, astray>>

(* egress status: an exit code other than 0 comes with no output, which is   *)
(* taken for an anchor without rules.                                        *)
Status(p) ==
    /\ p \in Commands /\ At(p, "idle")
    /\ \/ Succeeds /\ Tell(p, IF rules THEN "active" ELSE "inactive")
       \/ Fails(p) /\ Tell(p, "inactive")
       \/ Fails(p) /\ Tell(p, "unknown")
    /\ UNCHANGED <<rules, table, at, enabled, errors, history>>

(* The process is killed; __exit__ is not run.  Another may take its place.  *)
Die(p) ==
    /\ ~ At(p, "idle")
    /\ MoveTo(p, "idle") /\ enabled' = [enabled EXCEPT ![p] = FALSE]
    /\ errors' = [errors EXCEPT ![p] = FALSE]
    /\ stale' = [stale EXCEPT ![p] = {}] /\ evicted' = evicted \ {p}
    /\ GoesAstray(p)
    /\ UNCHANGED <<rules, table, told, loaders>>

LockdownNext ==
    \E p \in Processes : \/ Enable(p) \/ SetEnabled(p) \/ Disable(p) \/ FlushRules(p)
                         \/ FlushTable(p) \/ ReportDisabled(p) \/ Status(p) \/ Die(p)

LockdownSpec == LockdownInit /\ [][LockdownNext]_lockdownVars

-----------------------------------------------------------------------------
(* Rules that block the host's traffic are never left behind without one who *)
(* answers for them: a scope that loaded what is in the anchor is still in   *)
(* its block or on its way out, or a pfctl call of it failed or it was       *)
(* killed.  And in a block rules and table are there, both, unless another   *)
(* process flushed one of them since.                                        *)
RulesClaimed ==
    /\ \A p \in loaders \cap Scopes : ~ At(p, "idle") \/ p \in astray
    /\ \A p \in Scopes : enabled[p] => (rules /\ table) \/ p \in evicted \cup astray

(* Who is told that the lockdown is off can rely on it: nothing is left of   *)
(* what had been loaded before, and an anchor called inactive has no rules,  *)
(* unless a pfctl call of the one who says so failed.                        *)
ReportsTrue ==
    [][\A p \in Processes :
           /\ told' # told /\ told' = <<p, "disabled">> => loaders' \cap stale[p] = {} \/ p \in astray
           /\ told' # told /\ told' = <<p, "inactive">> => ~ rules \/ p \in astray']_lockdownVars
=============================================================================
