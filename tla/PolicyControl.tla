--------------------------- MODULE PolicyControl ---------------------------
(***************************************************************************)
(* The policy file and everything that reads or writes it: PolicyLoader    *)
(* (policy.py) with its watcher thread and a thread that calls             *)
(* reload_if_changed, the guard on pin-list changes (pinlist_guard.py),    *)
(* the interactive approval gate (pinlist_approval.py) and the user who    *)
(* edits or removes the file by hand.                                      *)
(*                                                                         *)
(* A policy is reduced to its pin-list, the pin_list_approved key (true,   *)
(* false or absent) and one value for all the other settings.  Every write *)
(* gives the file a new mtime; mtime 0 stands for "no such file" (None in  *)
(* the code).                                                              *)
(***************************************************************************)
EXTENDS Integers

CONSTANTS PinLists,   \* the pin-lists, sets of [hash, action] entries
          Settings,   \* the values of the remaining settings of a policy
          BuiltIn,    \* the settings of SECURE_DEFAULTS
          Saved,      \* the contents the user gives the file
          Gates,      \* the runs of "pin-list propose", each with its own gate
          Debounce,   \* is start_watcher given a positive debounce?
          MaxWrites   \* bound: writes to the policy file

NoPins == {}

Threads == {"caller", "watcher"}
Mtimes == 0..MaxWrites

\* "invalid": a mapping, but not to the schema; "unreadable": no mapping at all.
Contents == [form : {"valid", "invalid", "unreadable"}, settings : Settings, pins : PinLists,
             approval : {"yes", "no", "absent"}]

\* An empty file: a valid policy of defaults.  What the gate takes for a file
\* that is not there or in which it finds no mapping.
EmptyPolicy == [form |-> "valid", settings |-> BuiltIn, pins |-> NoPins, approval |-> "absent"]

\* pin_list_approved of a policy: a key that is absent counts as true.
Approved(c) == c.approval # "no"

ASSUME PolicyAssumption == /\ NoPins \in PinLists
                           /\ BuiltIn \in Settings
                           /\ Saved \subseteq Contents
                           /\ Debounce \in BOOLEAN
                           /\ MaxWrites \in Nat \ {0}

Offers(c) == IF c.form = "valid" /\ Approved(c) THEN {c.pins} ELSE {}

Configs == [loaded : BOOLEAN, settings : Settings, pins : PinLists]
SecureDefaults == [loaded |-> FALSE, settings |-> BuiltIn, pins |-> NoPins]

VARIABLES file,       \* content of the policy file
          mtime,      \* its mtime, 0 when there is no file
          writes,     \* number of writes so far
          current,    \* PolicyLoader._current
          lastMtime,  \* PolicyLoader._last_mtime
          lastPins,   \* PolicyLoader._last_pin_list_hash
          pc,         \* pc[t]: next step of thread t
          seen,       \* seen[t]: the mtime t has read last
          raw,        \* raw[t]: the content t has read last
          pending,    \* the watcher's _pending
          observed,   \* the watcher's _observed_mtime
          gate,       \* gate[g]: its state, what is proposed and what approve has read
          offered,    \* history: pin-lists the file has held without a refusal
          raced       \* history: the file changed between a read and its swap

loader == <<current, lastMtime, lastPins>>
threads == <<pc, seen, raw, pending, observed>>
disk == <<file, mtime, writes, offered, raced>>
policyVars == <<loader, threads, disk, gate>>

\* The loader is constructed by the calling thread, which loads at once.
PolicyInit ==
  /\ \/ mtime = 1 /\ file \in Saved
     \/ mtime = 0 /\ file = EmptyPolicy
  /\ writes = 1
  /\ current = SecureDefaults /\ lastMtime = 0 /\ lastPins = NoPins
  /\ pc = [t \in Threads |-> IF t = "caller" THEN "read" ELSE "off"]
  /\ seen = [t \in Threads |-> 0] /\ raw = [t \in Threads |-> EmptyPolicy]
  /\ pending = FALSE /\ observed = 0
  /\ gate = [g \in Gates |-> [state |-> "idle", proposed |-> NoPins, read |-> EmptyPolicy]]
  /\ offered = {NoPins} \union Offers(file)
  /\ raced = FALSE

-----------------------------------------------------------------------------
(* The file.                                                               *)

Swapping == \E t \in Threads : pc[t] = "swap"

Write(c) ==
  /\ writes < MaxWrites
  /\ file' = c /\ writes' = writes + 1 /\ mtime' = writes + 1
  /\ offered' = offered \union Offers(c)
  /\ raced' = (raced \/ Swapping)

\* The user saves the file.  An editor that truncates and writes saves twice.
Save(c) == Write(c) /\ UNCHANGED <<loader, threads, gate>>

Remove ==
  /\ mtime # 0
  /\ mtime' = 0 /\ file' = EmptyPolicy
  /\ raced' = (raced \/ Swapping)
  /\ UNCHANGED <<writes, offered, loader, threads, gate>>

-----------------------------------------------------------------------------
(* The approval gate.                                                      *)

Hashes(pins) == {e.hash : e \in pins}

\* _read_policy_raw: the mapping in the file, whatever the schema says of it, and
\* an empty one when there is none.
PolicyRaw == IF mtime # 0 /\ file.form # "unreadable" THEN file ELSE EmptyPolicy

\* propose reads the policy for the diff that is shown; the diff compares the
\* hashes of the entries only, and an empty one ends the run.
Propose(g, pins) ==
  /\ gate[g].state = "idle"
  /\ gate' = [gate EXCEPT ![g] =
                IF Hashes(pins) = Hashes(PolicyRaw.pins)
                THEN [@ EXCEPT !.state = "rejected"]
                ELSE [@ EXCEPT !.state = "staged", !.proposed = pins]]
  /\ UNCHANGED <<loader, threads, disk>>

RejectProposal(g) ==
  /\ gate[g].state = "staged"
  /\ gate' = [gate EXCEPT ![g] = [state |-> "rejected", proposed |-> NoPins, read |-> EmptyPolicy]]
  /\ UNCHANGED <<loader, threads, disk>>

\* The user answered yes: approve reads the policy once more ...
Approve(g) ==
  /\ gate[g].state = "staged"
  /\ gate' = [gate EXCEPT ![g].state = "writing", ![g].read = PolicyRaw]
  /\ UNCHANGED <<loader, threads, disk>>

\* ... and replaces the file with what it read, the pin-list and the flag.  What
\* it read stays invalid, unless these two keys were all that was wrong with it.
Commit(g) ==
  /\ gate[g].state = "writing"
  /\ \E form \in {gate[g].read.form, "valid"} :
       Write([gate[g].read EXCEPT !.form = form, !.pins = gate[g].proposed, !.approval = "yes"])
  /\ gate' = [gate EXCEPT ![g] = [state |-> "committed", proposed |-> NoPins, read |-> EmptyPolicy]]
  /\ UNCHANGED <<loader, threads>>

\* The write fails: the temporary file is removed, the gate stays staged.
CommitFails(g) ==
  /\ gate[g].state = "writing"
  /\ gate' = [gate EXCEPT ![g].state = "staged", ![g].read = EmptyPolicy]
  /\ UNCHANGED <<loader, threads, disk>>

-----------------------------------------------------------------------------
(* Loading, by either thread.                                              *)

Goto(t, step) == pc' = [pc EXCEPT ![t] = step]

\* reload_if_changed returns, its locals are gone; the watcher then clears its
\* pending change.
Return(t) ==
  /\ Goto(t, "idle")
  /\ seen' = [seen EXCEPT ![t] = 0] /\ raw' = [raw EXCEPT ![t] = EmptyPolicy]
  /\ IF t = "watcher" THEN pending' = FALSE /\ observed' = 0
                      ELSE UNCHANGED <<pending, observed>>

ReloadIfChanged ==
  /\ pc["caller"] = "idle" /\ Goto("caller", "stat")
  /\ UNCHANGED <<loader, seen, raw, pending, observed, disk, gate>>

StatFile(t) ==
  /\ pc[t] = "stat"
  /\ seen' = [seen EXCEPT ![t] = mtime]
  /\ Goto(t, IF mtime = 0 THEN "revert" ELSE "compare")
  /\ UNCHANGED <<loader, raw, pending, observed, disk, gate>>

\* Mutant: the mtime is noted before the file has been loaded.
CompareMarksKnown(t) ==
  /\ pc[t] = "compare"
  /\ lastMtime' = seen[t]
  /\ IF seen[t] = lastMtime THEN Return(t)
                            ELSE Goto(t, "read") /\ UNCHANGED <<seen, raw, pending, observed>>
  /\ UNCHANGED <<current, lastPins, disk, gate>>

CompareMtime(t) ==
  /\ pc[t] = "compare"
  /\ IF seen[t] = lastMtime THEN Return(t)
                            ELSE Goto(t, "read") /\ UNCHANGED <<seen, raw, pending, observed>>
  /\ UNCHANGED <<loader, disk, gate>>

\* The text is read and validated outside the lock.
ReadText(t) ==
  /\ pc[t] = "read"
  /\ \/ /\ mtime = 0 /\ Goto(t, "revert")
        /\ UNCHANGED <<seen, raw, pending, observed>>
     \/ /\ mtime # 0 /\ file.form = "valid" /\ Goto(t, "swap")
        /\ raw' = [raw EXCEPT ![t] = file]
        /\ UNCHANGED <<seen, pending, observed>>
     \/ mtime # 0 /\ file.form # "valid" /\ Return(t)
  /\ UNCHANGED <<loader, disk, gate>>

\* The file was found missing: back to the defaults, under the lock.
RevertToDefaults(t) ==
  /\ pc[t] = "revert"
  /\ current' = SecureDefaults
  /\ lastMtime' = IF current.loaded THEN 0 ELSE lastMtime
  /\ Return(t)
  /\ UNCHANGED <<lastPins, disk, gate>>

\* Mutant: whatever is loaded over the defaults is trusted.
GuardTrustsFirstLoad(c) == c.pins = lastPins \/ Approved(c) \/ ~current.loaded

\* PinListMutationGuard.check for an out-of-band change.
GuardAllows(c) == c.pins = lastPins \/ Approved(c)

\* Under the lock: the guard, a fresh stat, then the three assignments.
SwapConfig(t) ==
  /\ pc[t] = "swap"
  /\ LET c == raw[t] IN
       /\ current' = [loaded |-> TRUE, settings |-> c.settings,
                      pins |-> IF GuardAllows(c) THEN c.pins ELSE current.pins]
       /\ lastPins' = IF GuardAllows(c) THEN c.pins ELSE lastPins
  /\ lastMtime' = mtime
  /\ Return(t)
  /\ UNCHANGED <<disk, gate>>

-----------------------------------------------------------------------------
(* The watcher thread.                                                     *)

StartWatcher ==
  /\ pc["watcher"] = "off" /\ pc["caller"] = "idle"
  /\ Goto("watcher", "idle")
  /\ pending' = FALSE /\ observed' = 0
  /\ UNCHANGED <<loader, seen, raw, disk, gate>>

StopWatcher ==
  /\ pc["watcher"] = "idle" /\ pc["caller"] = "idle"
  /\ Goto("watcher", "off")
  /\ pending' = FALSE /\ observed' = 0
  /\ UNCHANGED <<loader, seen, raw, disk, gate>>

Poll ==
  /\ pc["watcher"] = "idle"
  /\ seen' = [seen EXCEPT !["watcher"] = mtime]
  /\ Goto("watcher", "detect")
  /\ UNCHANGED <<loader, raw, pending, observed, disk, gate>>

Changed == seen["watcher"] # lastMtime

\* The debounce clock starts, or starts again.
ClockReset == Changed /\ (~pending \/ seen["watcher"] # observed)

\* Mutant: the mtime that started the clock is not kept.
NoteForgets == pending' = (pending \/ Changed) /\ UNCHANGED observed

Note ==
  /\ pending' = (pending \/ Changed)
  /\ observed' = IF Changed THEN seen["watcher"] ELSE observed

\* Nothing to do, or not long enough since the change was seen first.
KeepWaiting ==
  /\ pc["watcher"] = "detect"
  /\ (pending \/ Changed) => Debounce
  /\ Note /\ Goto("watcher", "idle")
  /\ seen' = [seen EXCEPT !["watcher"] = 0]
  /\ UNCHANGED <<loader, raw, disk, gate>>

Settle ==
  /\ pc["watcher"] = "detect"
  /\ pending \/ Changed
  /\ ClockReset => ~Debounce
  /\ Note /\ Goto("watcher", "stat")
  /\ UNCHANGED <<loader, seen, raw, disk, gate>>

-----------------------------------------------------------------------------
Load(t) == StatFile(t) \/ CompareMtime(t) \/ ReadText(t) \/ RevertToDefaults(t) \/ SwapConfig(t)
Watch == Poll \/ KeepWaiting \/ Settle
User == Remove \/ \E c \in Saved : Save(c)
Gating(g) == \/ \E pins \in PinLists : Propose(g, pins)
             \/ RejectProposal(g) \/ Approve(g) \/ Commit(g) \/ CommitFails(g)

PolicyNext ==
  \/ User
  \/ \E g \in Gates : Gating(g)
  \/ \E t \in Threads : Load(t)
  \/ ReloadIfChanged \/ StartWatcher \/ StopWatcher \/ Watch

\* Threads that run keep running; a change that lasts outlives the debounce.
PolicyFairness == /\ \A t \in Threads : WF_policyVars(Load(t))
                  /\ WF_policyVars(Watch) /\ SF_policyVars(Settle)

PolicySpec == PolicyInit /\ [][PolicyNext]_policyVars
FairPolicySpec == PolicySpec /\ PolicyFairness

-----------------------------------------------------------------------------
(* Properties.                                                             *)

PolicyTypeOK ==
  /\ file \in Contents /\ mtime \in Mtimes /\ writes \in Mtimes
  /\ current \in Configs /\ lastMtime \in Mtimes /\ lastPins \in PinLists
  /\ pc \in [Threads -> {"off", "idle", "stat", "compare", "read", "revert", "swap", "detect"}]
  /\ seen \in [Threads -> Mtimes] /\ raw \in [Threads -> Contents]
  /\ pending \in BOOLEAN /\ observed \in Mtimes
  /\ gate \in [Gates -> [state : {"idle", "staged", "writing", "committed", "rejected"},
                         proposed : PinLists, read : Contents]]
  /\ offered \in SUBSET PinLists /\ raced \in BOOLEAN
  /\ pc["caller"] \notin {"off", "detect"}

\* A pin-list is in force only if the file held it at some time without
\* pin_list_approved: false beside it (the guard of _try_load): not after a
\* refusal, a removal of the file, or loads of both threads at once.  More the
\* code does not give; see the next property.
PinsGuarded == current.pins \in offered /\ lastPins \in offered

\* A pin-list other than the last approved one comes into force only out of a
\* file that says pin_list_approved: true, as pinlist_guard.py, pinlist_approval.py
\* and policy.py:24 have it.  The code breaks it: see the findings.
PinChangeIsSigned ==
  [][\A t \in Threads :
        (pc[t] = "swap" /\ pc'[t] # "swap" /\ raw[t].pins # lastPins /\ lastPins' = raw[t].pins)
          => raw[t].approval = "yes"]_policyVars

\* What the policy in force owes to the file.
InForce == IF mtime = 0 THEN current = SecureDefaults
           ELSE file.form = "valid" => /\ current.settings = file.settings
                                       /\ Approved(file) => current.pins = file.pins

\* A file whose mtime the loader takes for known is the one in force: otherwise
\* its change is never looked at again.  Needs that no write fell between the
\* read of _try_load and the stat that ends it.
KnownMeansLoaded == (~raced /\ mtime # 0 /\ lastMtime = mtime) => (file.form = "valid" /\ InForce)

\* With a watcher running for good, the policy in force ends as the file says:
\* edits, approved pin-lists and removals are all picked up (same proviso).
Converges == (<>[](pc["watcher"] # "off") /\ []~raced) => <>[]InForce

\* The same with no proviso, as the module's documentation has it (policy.py:14
\* and policy.py:806: deletion falls back to the defaults, the next valid write
\* is picked up).  The code breaks it: see the findings.
PicksUpNextWrite == <>[](pc["watcher"] # "off") => <>[]InForce
=============================================================================
