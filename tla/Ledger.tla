------------------------------- MODULE Ledger -------------------------------
(***************************************************************************)
(* The audit ledger (ledger.py): one active file and numbered archives,    *)
(* appended to and rotated by the process that records events, and purged  *)
(* by that process or by "ledger purge" of the command line, which is a    *)
(* process with a Ledger object and a lock of its own.                     *)
(*                                                                         *)
(* One step is one system call on a file, so that the two processes        *)
(* interleave, a call can fail, and a process can die between any two.     *)
(* Index 0 is the active file, index i the archive <path>.i.  Entries are  *)
(* numbered in the order they are recorded, and time is counted in entries.*)
(***************************************************************************)
EXTENDS Integers, FiniteSets

CONSTANTS BackupCount,  \* Ledger(backup_count=...)
          MaxLen,       \* max_bytes, as a number of entries; 0 disables it
          MaxEntries    \* bound: entries recorded

ASSUME LedgerAssumption ==
  BackupCount \in Nat \ {0} /\ MaxLen \in Nat /\ MaxEntries \in Nat

Procs == {"writer", "purger"}
Index == 0..BackupCount + 1
Times == 0..MaxEntries

File == [there : BOOLEAN, private : BOOLEAN, ids : SUBSET (1..MaxEntries), mtime : Times]
Missing == [there |-> FALSE, private |-> TRUE, ids |-> {}, mtime |-> 0]

VARIABLES files,        \* files[i]: the file at index i
          last,         \* number of entries recorded so far
          cutoff,       \* archives last written before it are out of retention
          pc,           \* pc[p]: next system call of process p
          op,           \* op[p]: the public method it belongs to
          idx,          \* idx[p]: index the loop of that method has reached
          initialized,  \* initialized[p]: Ledger._initialized
          mark,         \* history: entries recorded when a purge last deleted
          quiet,        \* quiet[p]: history: p's purge began on contiguous
                        \*   archives and has been alone since
          disturbed     \* history: a call failed, a process died half-way, or
                        \*   the command line purged beside a running writer

procVars == <<pc, op, idx, initialized>>
vars == <<files, last, cutoff, procVars, mark, quiet, disturbed>>

LedgerInit ==
  /\ files = [i \in Index |-> Missing]
  /\ last = 0 /\ cutoff = 0 /\ mark = 0
  /\ pc = [p \in Procs |-> "idle"] /\ op = [p \in Procs |-> "none"]
  /\ idx = [p \in Procs |-> 0]
  /\ initialized = [p \in Procs |-> FALSE]
  /\ quiet = [p \in Procs |-> FALSE]
  /\ disturbed = FALSE

Contiguous == \A i, j \in Index : (0 < i /\ i < j /\ files[j].there) => files[i].there

-----------------------------------------------------------------------------
\* A step of one process ends the quiet of the other.
Hush(p) == quiet' = [q \in Procs |->
  IF q # p THEN FALSE
  ELSE IF pc[p] = "idle" THEN Contiguous /\ \A r \in Procs : pc[r] = "idle"
  ELSE quiet[p]]

\* Every step of p ends with a Goto.
Goto(p, step, i) == /\ pc' = [pc EXCEPT ![p] = step]
                    /\ idx' = [idx EXCEPT ![p] = i]
                    /\ Hush(p)
Return(p) == Goto(p, "idle", 0) /\ op' = [op EXCEPT ![p] = "none"]

\* A public method takes its process's lock.  Only the writer records; the
\* command line purges, and by default initializes afterwards.
Methods(p) == IF p = "writer" THEN {"record", "rotate", "apply_retention", "purge", "initialize"}
                              ELSE {"purge", "purge --no-reseed"}
FirstStep(m) == CASE m \in {"record", "initialize"} -> "ensure"
                  [] m = "rotate" -> "oldest"
                  [] m = "apply_retention" -> "retain"
                  [] OTHER -> "unlink"

\* The command line purges while the writer has the ledger open or at work.
Meets(p) == \E q \in Procs \ {p} :
  pc[q] # "idle" \/ (p = "purger" /\ initialized[q])

Begin(p, m) ==
  /\ pc[p] = "idle" /\ m \in Methods(p)
  /\ op' = [op EXCEPT ![p] = m]
  /\ Goto(p, FirstStep(m), IF m = "apply_retention" THEN 1 ELSE 0)
  /\ disturbed' = (disturbed \/ Meets(p))
  /\ UNCHANGED <<files, last, cutoff, initialized, mark>>

\* _ensure_initialized: on the first call only, with mode 0600 in the end.
EnsureInitialized(p) ==
  /\ pc[p] = "ensure"
  /\ files' = IF initialized[p] THEN files
              ELSE [files EXCEPT ![0] = IF @.there THEN [@ EXCEPT !.private = TRUE]
                                        ELSE [Missing EXCEPT !.there = TRUE, !.mtime = last]]
  /\ initialized' = [initialized EXCEPT ![p] = TRUE]
  /\ IF op[p] = "record" THEN Goto(p, "size", 0) /\ UNCHANGED op ELSE Return(p)
  /\ UNCHANGED <<last, cutoff, mark, disturbed>>

\* _write_entry looks at the size, then at the age.
CheckSize(p) ==
  /\ pc[p] = "size"
  /\ IF MaxLen > 0 /\ Cardinality(files[0].ids) >= MaxLen
       THEN Goto(p, "oldest", 0) ELSE Goto(p, "age", 0)
  /\ UNCHANGED <<files, last, cutoff, op, initialized, mark, disturbed>>

CheckAge(p) ==
  /\ pc[p] = "age"
  /\ \/ op' = [op EXCEPT ![p] = "record, by age"] /\ Goto(p, "oldest", 0)
     \/ UNCHANGED op /\ Goto(p, "append", 0)
  /\ UNCHANGED <<files, last, cutoff, initialized, mark, disturbed>>

\* open(path, "a") creates a file that is not there, with the umask's mode.
AppendEntry(p) ==
  /\ pc[p] = "append" /\ last < MaxEntries
  /\ files' = [files EXCEPT ![0] =
                 [there |-> TRUE, private |-> @.there /\ @.private,
                  ids |-> @.ids \union {last + 1}, mtime |-> last + 1]]
  /\ last' = last + 1
  /\ Return(p)
  /\ UNCHANGED <<cutoff, initialized, mark, disturbed>>

-----------------------------------------------------------------------------
(* _rotate_locked, with the age-based retention that ends it.              *)

Recording(p) == op[p] \in {"record", "record, by age"}

\* The rotation is over, or given up, and the caller goes on.
AfterRotation(p, failed) ==
  CASE op[p] = "record" /\ failed -> Goto(p, "age", 0) /\ UNCHANGED op
    [] Recording(p) /\ ~(op[p] = "record" /\ failed) -> Goto(p, "append", 0) /\ UNCHANGED op
    [] OTHER -> Return(p)

UnlinkOldest(p) ==
  /\ pc[p] = "oldest"
  /\ files' = [files EXCEPT ![BackupCount] = Missing]
  /\ Goto(p, "shift", BackupCount - 1)
  /\ UNCHANGED <<last, cutoff, op, initialized, mark, disturbed>>

Rename(i, j) == files' = IF files[i].there
                         THEN [files EXCEPT ![i] = Missing, ![j] = files[i]]
                         ELSE files

\* Mutant: the loop ends one index too early.
ShiftSkipsFirst(p) ==
  /\ pc[p] = "shift"
  /\ IF idx[p] <= 1 THEN UNCHANGED files /\ Goto(p, "move", 0)
                    ELSE Rename(idx[p], idx[p] + 1) /\ Goto(p, "shift", idx[p] - 1)
  /\ UNCHANGED <<last, cutoff, op, initialized, mark, disturbed>>

Shift(p) ==
  /\ pc[p] = "shift"
  /\ IF idx[p] = 0 THEN UNCHANGED files /\ Goto(p, "move", 0)
                   ELSE Rename(idx[p], idx[p] + 1) /\ Goto(p, "shift", idx[p] - 1)
  /\ UNCHANGED <<last, cutoff, op, initialized, mark, disturbed>>

MoveActive(p) ==
  /\ pc[p] = "move"
  /\ Rename(0, 1)
  /\ Goto(p, "create", 0)
  /\ UNCHANGED <<last, cutoff, op, initialized, mark, disturbed>>

\* Mutant: the new active file is left for open(path, "a") to create.
CreateLater(p) ==
  /\ pc[p] = "create"
  /\ Goto(p, "retain", 1)
  /\ UNCHANGED <<files, last, cutoff, op, initialized, mark, disturbed>>

CreateActive(p) ==
  /\ pc[p] = "create"
  /\ files' = [files EXCEPT ![0] = IF @.there THEN [@ EXCEPT !.private = TRUE]
                                   ELSE [Missing EXCEPT !.there = TRUE, !.mtime = last]]
  /\ Goto(p, "retain", 1)
  /\ UNCHANGED <<last, cutoff, op, initialized, mark, disturbed>>

\* The scan ends at the first index that is missing.
Retain(p) ==
  /\ pc[p] = "retain"
  /\ IF idx[p] \in Index /\ files[idx[p]].there
     THEN /\ files' = IF files[idx[p]].mtime < cutoff
                      THEN [files EXCEPT ![idx[p]] = Missing] ELSE files
          /\ Goto(p, "retain", idx[p] + 1) /\ UNCHANGED op
     ELSE AfterRotation(p, FALSE) /\ UNCHANGED files
  /\ UNCHANGED <<last, cutoff, initialized, mark, disturbed>>

\* An unlink that fails is passed over.
RetainPassesOver(p) ==
  /\ pc[p] = "retain" /\ idx[p] \in Index
  /\ files[idx[p]].there /\ files[idx[p]].mtime < cutoff
  /\ Goto(p, "retain", idx[p] + 1)
  /\ disturbed' = TRUE
  /\ UNCHANGED <<files, last, cutoff, op, initialized, mark>>

-----------------------------------------------------------------------------
(* purge.                                                                  *)

\* Mutant: the archives are scanned up to backup_count only.
UnlinkBelowCount(p) ==
  /\ pc[p] = "unlink"
  /\ IF idx[p] < BackupCount /\ (idx[p] = 0 \/ files[idx[p]].there)
     THEN /\ files' = [files EXCEPT ![idx[p]] = Missing]
          /\ mark' = last
          /\ Goto(p, "unlink", idx[p] + 1)
     ELSE Goto(p, "purged", 0) /\ UNCHANGED <<files, mark>>
  /\ UNCHANGED <<last, cutoff, op, initialized, disturbed>>

\* The active file, then the archives up to the first that is missing.
Unlink(p) ==
  /\ pc[p] = "unlink"
  /\ IF idx[p] \in Index /\ (idx[p] = 0 \/ files[idx[p]].there)
     THEN /\ files' = [files EXCEPT ![idx[p]] = Missing]
          /\ mark' = last
          /\ Goto(p, "unlink", idx[p] + 1)
     ELSE Goto(p, "purged", 0) /\ UNCHANGED <<files, mark>>
  /\ UNCHANGED <<last, cutoff, op, initialized, disturbed>>

\* The state is reset; the command line then creates a seed file.
Purged(p) ==
  /\ pc[p] = "purged"
  /\ initialized' = [initialized EXCEPT ![p] = FALSE]
  /\ IF p = "purger" /\ op[p] = "purge" THEN Goto(p, "ensure", 0) /\ UNCHANGED op ELSE Return(p)
  /\ UNCHANGED <<files, last, cutoff, mark, disturbed>>

-----------------------------------------------------------------------------
\* A system call raises OSError: _write_entry swallows what a rotation raises,
\* every other method passes it on.
CallFails(p) ==
  /\ pc[p] \in {"ensure", "oldest", "shift", "move", "create", "append", "unlink"}
  /\ IF pc[p] \in {"oldest", "shift", "move", "create"} THEN AfterRotation(p, TRUE) ELSE Return(p)
  /\ disturbed' = TRUE
  /\ UNCHANGED <<files, last, cutoff, initialized, mark>>

\* The process dies; the next one has a Ledger object of its own.
Crash(p) ==
  /\ initialized[p] \/ pc[p] # "idle"
  /\ Return(p)
  /\ initialized' = [initialized EXCEPT ![p] = FALSE]
  /\ disturbed' = (disturbed \/ pc[p] # "idle")
  /\ UNCHANGED <<files, last, cutoff, mark>>

Step(p) ==
  \/ \E m \in Methods(p) : Begin(p, m)
  \/ EnsureInitialized(p) \/ CheckSize(p) \/ CheckAge(p) \/ AppendEntry(p)
  \/ UnlinkOldest(p) \/ Shift(p) \/ MoveActive(p) \/ CreateActive(p)
  \/ Retain(p) \/ RetainPassesOver(p)
  \/ Unlink(p) \/ Purged(p)
  \/ CallFails(p) \/ Crash(p)

TimePasses == /\ cutoff < last /\ cutoff' = cutoff + 1
              /\ UNCHANGED <<files, last, procVars, mark, quiet, disturbed>>

LedgerNext == TimePasses \/ \E p \in Procs : Step(p)
LedgerSpec == LedgerInit /\ [][LedgerNext]_vars

-----------------------------------------------------------------------------
(* Properties.                                                             *)

LedgerTypeOK ==
  /\ files \in [Index -> File] /\ last \in Times /\ cutoff \in Times /\ mark \in Times
  /\ pc \in [Procs -> {"idle", "ensure", "size", "age", "append", "oldest", "shift",
                       "move", "create", "retain", "unlink", "purged"}]
  /\ op \in [Procs -> {"none", "record, by age"} \union UNION {Methods(p) : p \in Procs}]
  /\ idx \in [Procs -> 0..BackupCount + 2]
  /\ initialized \in [Procs -> BOOLEAN] /\ quiet \in [Procs -> BOOLEAN]
  /\ disturbed \in BOOLEAN
  /\ \A i \in Index : files[i].there \/ files[i] = Missing

Stored == UNION {files[i].ids : i \in Index}

\* Later files are older, and what is missing between two entries was deleted
\* by a purge or was out of retention.
InOrder ==
  /\ \A i, j \in Index : i < j => \A a \in files[i].ids, b \in files[j].ids : b < a
  /\ \A e \in Stored : \A f \in e..last : f \in Stored \/ f <= mark \/ f < cutoff

\* Otherwise entries go only with the last archive backup_count allows.
OnlyOldestGo ==
  \A e \in Stored \ Stored' : e <= mark' \/ e < cutoff \/ e \in files[BackupCount].ids

\* Whatever fails, dies or interleaves, the ledger on disk is a chronicle: no
\* entry recorded is lost from its middle or its end, and "rotation failure does
\* not drop the entry" (ledger.py:504).
Chronicle == []InOrder /\ [][OnlyOldestGo]_vars

\* A purge that began on contiguous archives, alone and without a failure,
\* leaves no file, whatever the archives' number and whoever runs it.
PurgeLeavesNothing ==
  \A p \in Procs : pc[p] = "purged" /\ quiet[p] => \A i \in Index : ~files[i].there

\* Until a call fails, a process dies half-way or the two processes meet, the
\* archives a method leaves are contiguous, on which purge and retention rely
\* (ledger.py:340 and :566), and every file has mode 0600.
Orderly ==
  ~disturbed => /\ (\A p \in Procs : pc[p] = "idle") => Contiguous
                /\ \A i \in Index : files[i].private
=============================================================================
