---------------------------- MODULE LedgerProofs ----------------------------
(***************************************************************************)
(* Safety of the ledger for any backup_count, size limit and number of     *)
(* entries: LedgerTypeOK, PurgeLeavesNothing, Chronicle and Orderly of     *)
(* Ledger hold of every behaviour, whatever fails, dies or interleaves.    *)
(*                                                                         *)
(* Chronicle needs more than itself: a rename must find its target free    *)
(* (Room), which a rotation that is given up half-way leaves to the next   *)
(* one to establish, and an archive's mtime must bound its entries.        *)
(* Orderly, which speaks of the time between methods, needs to know which  *)
(* archives are missing in the course of each of them (Shape), and that    *)
(* archives expire from the highest number down (Ageing).                  *)
(***************************************************************************)
EXTENDS Ledger, TLAPS

\* Only the writer appends and rotates.
PurgerPurges == /\ pc["purger"] \in {"idle", "unlink", "purged", "ensure"}
                /\ op["purger"] \in {"none", "purge", "purge --no-reseed"}

\* The target of the rename a process is about to make is free.
Room == \A p \in Procs :
  /\ pc[p] = "shift" => idx[p] <= BackupCount - 1 /\ ~files[idx[p] + 1].there
  /\ pc[p] = "move" => ~files[1].there

\* There is never an archive beyond backup_count.
NothingBeyond == ~files[BackupCount + 1].there

\* No entry is younger than its file.
IdsBounded == \A i \in Index : \A e \in files[i].ids : e <= files[i].mtime /\ e <= last

Sorted == \A i, j \in Index : i < j => \A a \in files[i].ids, b \in files[j].ids : b < a
Gapless == \A e \in Stored : \A f \in e..last : f \in Stored \/ f <= mark \/ f < cutoff

\* A purge undisturbed so far has left nothing below its index, and what is
\* still there is contiguous.
PurgedBelow == \A p \in Procs : quiet[p] /\ pc[p] = "unlink" =>
  /\ \A i \in Index : i < idx[p] => ~files[i].there
  /\ \A i, j \in Index : (0 < i /\ idx[p] <= i /\ i < j /\ files[j].there) => files[i].there

Ordered == NothingBeyond /\ IdsBounded /\ Sorted /\ Gapless

LInv == LedgerTypeOK /\ PurgerPurges /\ Room /\ Ordered /\ PurgedBelow /\ PurgeLeavesNothing

-----------------------------------------------------------------------------
(* The type invariant, and what the moves of a process do.                 *)

Steps == {"idle", "ensure", "size", "age", "append", "oldest", "shift",
          "move", "create", "retain", "unlink", "purged"}
Ops == {"none", "record", "rotate", "apply_retention", "purge", "initialize",
        "purge --no-reseed", "record, by age"}

ProcTypes == /\ pc \in [Procs -> Steps] /\ op \in [Procs -> Ops]
             /\ idx \in [Procs -> 0..BackupCount + 2]
             /\ initialized \in [Procs -> BOOLEAN] /\ quiet \in [Procs -> BOOLEAN]
             /\ disturbed \in BOOLEAN
FileTypes == /\ files \in [Index -> File]
             /\ \A i \in Index : files[i].there \/ files[i] = Missing
ClockTypes == last \in Times /\ cutoff \in Times /\ mark \in Times

LEMMA OpsAre == {"none", "record, by age"} \union UNION {Methods(p) : p \in Procs} = Ops
<1>1. Methods("writer") = {"record", "rotate", "apply_retention", "purge", "initialize"}
  BY DEF Methods
<1>2. Methods("purger") = {"purge", "purge --no-reseed"}
  BY DEF Methods
<1>3. UNION {Methods(p) : p \in Procs} = Methods("writer") \union Methods("purger")
  BY DEF Procs
<1> QED
  BY <1>1, <1>2, <1>3 DEF Ops

LEMMA TypeParts == LedgerTypeOK <=> ProcTypes /\ FileTypes /\ ClockTypes
BY OpsAre DEF LedgerTypeOK, ProcTypes, FileTypes, ClockTypes, Steps

LEMMA TypePartsNext == LedgerTypeOK' <=> ProcTypes' /\ FileTypes' /\ ClockTypes'
BY OpsAre DEF LedgerTypeOK, ProcTypes, FileTypes, ClockTypes, Steps

LEMMA Facts == /\ BackupCount \in Nat /\ BackupCount >= 1 /\ MaxEntries \in Nat
               /\ Missing \in File /\ 0 \in Index /\ 1 \in Index
               /\ BackupCount \in Index /\ BackupCount + 1 \in Index
               /\ "writer" # "purger" /\ Procs = {"writer", "purger"}
BY LedgerAssumption DEF Missing, File, Index, Procs, Times

LEMMA NotActive == /\ 1 \in Index \ {0}
                   /\ \A i \in 0..BackupCount + 2 : i <= BackupCount - 1 => i + 1 \in Index \ {0}
BY LedgerAssumption DEF Index

LEMMA StoredIs == /\ \A e : e \in Stored <=> \E i \in Index : e \in files[i].ids
                  /\ \A e : e \in Stored' <=> \E i \in Index : e \in files'[i].ids
BY DEF Stored

\* Any step that moves p: the other process keeps its place, and is no longer
\* quiet.
Moves(p, step, i) == /\ pc' = [pc EXCEPT ![p] = step]
                     /\ idx' = [idx EXCEPT ![p] = i]
                     /\ quiet' \in [Procs -> BOOLEAN]
                     /\ \A q \in Procs \ {p} : ~quiet'[q]
                     /\ pc[p] = "idle" => (quiet'[p] => Contiguous)
                     /\ pc[p] # "idle" => quiet'[p] = quiet[p]

LEMMA GotoMoves ==
  ASSUME LedgerTypeOK, NEW p \in Procs, NEW step, NEW i, Goto(p, step, i)
  PROVE  Moves(p, step, i)
<1>1. quiet \in [Procs -> BOOLEAN]
  BY TypeParts DEF ProcTypes
<1>2. quiet' \in [Procs -> BOOLEAN]
  <2>1. \A q \in Procs : (IF q # p THEN FALSE
                          ELSE IF pc[p] = "idle" THEN Contiguous /\ \A r \in Procs : pc[r] = "idle"
                          ELSE quiet[p]) \in BOOLEAN
    BY <1>1, Zenon DEF Contiguous
  <2> QED
    BY <2>1, Zenon DEF Goto, Hush
<1>3. \A q \in Procs \ {p} : ~quiet'[q]
  BY Zenon DEF Goto, Hush
<1>4. pc[p] = "idle" => (quiet'[p] => Contiguous)
  BY Zenon DEF Goto, Hush
<1>5. pc[p] # "idle" => quiet'[p] = quiet[p]
  BY <1>1, Zenon DEF Goto, Hush
<1> QED
  BY <1>2, <1>3, <1>4, <1>5 DEF Moves, Goto

-----------------------------------------------------------------------------
(* What a change of the files does to the order of the entries.  OnlyOldestGo *)
(* compares a state with the next, so each lemma gives it too.               *)

LEMMA Entries ==
  ASSUME FileTypes
  PROVE  /\ \A i \in Index : \A e \in files[i].ids : e \in 1..MaxEntries
         /\ \A i \in Index : files[i].mtime \in Times
         /\ \A i \in Index : ~files[i].there => files[i].ids = {}
BY DEF FileTypes, File, Missing

\* No file's entries change: files are created or get another mode.
SameEntries == \A i \in Index : /\ files'[i].ids = files[i].ids
                                /\ files'[i].ids # {} => files'[i].mtime = files[i].mtime

LEMMA KeepEntries ==
  ASSUME FileTypes, ClockTypes, Ordered, SameEntries, NothingBeyond',
         last' = last, mark' = mark, cutoff' \in Times, cutoff' >= cutoff
  PROVE  Ordered' /\ OnlyOldestGo
<1>1. Stored' = Stored
  BY StoredIs DEF SameEntries
<1>2. IdsBounded'
  BY DEF Ordered, IdsBounded, SameEntries
<1>3. Sorted'
  BY DEF Ordered, Sorted, SameEntries
<1>4. Gapless'
  <2> SUFFICES ASSUME NEW e \in Stored, NEW f \in e..last
               PROVE  f \in Stored \/ f <= mark \/ f < cutoff'
    BY <1>1 DEF Gapless
  <2>1. f \in Stored \/ f <= mark \/ f < cutoff
    BY DEF Ordered, Gapless
  <2>2. e \in Int
    BY StoredIs, Entries
  <2> QED
    BY <2>1, <2>2 DEF ClockTypes, Times
<1> QED
  BY <1>1, <1>2, <1>3, <1>4 DEF Ordered, OnlyOldestGo

\* A file goes: by a purge, as the last archive, or out of retention.
LEMMA DeleteFile ==
  ASSUME FileTypes, ClockTypes, Ordered, NEW i \in Index,
         files' = [files EXCEPT ![i] = Missing],
         last' = last, cutoff' = cutoff,
         \/ mark' = last
         \/ mark' = mark /\ (i = BackupCount \/ files[i].mtime < cutoff)
  PROVE  Ordered' /\ OnlyOldestGo
<1>1. /\ files'[i].ids = {} /\ ~files'[i].there
      /\ \A j \in Index \ {i} : files'[j] = files[j]
  BY DEF FileTypes, Missing
<1>2. NothingBeyond'
  BY <1>1, Facts DEF Ordered, NothingBeyond
<1>3. IdsBounded'
  BY <1>1 DEF Ordered, IdsBounded
<1>4. Sorted'
  BY <1>1 DEF Ordered, Sorted
<1>5. ASSUME NEW f \in Stored, f \notin Stored'
      PROVE  f \in files[i].ids /\ (mark' = last => f <= mark') /\ (files[i].mtime < cutoff => f < cutoff)
  <2>1. f \in files[i].ids
    BY <1>1, <1>5, StoredIs
  <2>2. f <= files[i].mtime /\ f <= last /\ f \in Int /\ files[i].mtime \in Int
    BY <2>1, Entries DEF Ordered, IdsBounded, Times
  <2> QED
    BY <2>1, <2>2 DEF ClockTypes, Times
<1>6. Gapless'
  <2> SUFFICES ASSUME NEW e \in Stored', NEW f \in e..last, f \notin Stored'
               PROVE  f <= mark' \/ f < cutoff
    BY DEF Gapless
  <2>1. PICK j \in Index \ {i} : e \in files[j].ids
    BY <1>1, StoredIs
  <2>2. e \in 1..MaxEntries /\ e \in Stored
    BY <2>1, Entries, StoredIs
  <2>3. f \in Stored \/ f <= mark \/ f < cutoff
    BY <2>2 DEF Ordered, Gapless
  <2>4. CASE f \in Stored
    <3>1. f \in files[i].ids
      BY <1>5, <2>4
    <3>2. i # BackupCount
      <4>1. SUFFICES ASSUME i = BackupCount PROVE FALSE
        OBVIOUS
      <4>2. j < i
        BY <2>1, <4>1, Entries, Facts DEF Ordered, NothingBeyond, Index
      <4> QED
        BY <2>1, <2>2, <3>1, <4>2, Entries DEF Ordered, Sorted
    <3> QED
      BY <1>5, <2>4, <3>2
  <2>5. CASE f <= mark
    BY <2>2, <2>5 DEF ClockTypes, Times
  <2> QED
    BY <2>3, <2>4, <2>5
<1>7. OnlyOldestGo
  BY <1>5 DEF OnlyOldestGo
<1> QED
  BY <1>2, <1>3, <1>4, <1>6, <1>7 DEF Ordered

\* A file is renamed to the next index, where there is none.
LEMMA RenameFile ==
  ASSUME FileTypes, ClockTypes, Ordered, NEW i \in 0..BackupCount - 1,
         ~files[i + 1].there, Rename(i, i + 1), last' = last, mark' = mark, cutoff' = cutoff
  PROVE  Ordered' /\ OnlyOldestGo
<1>1. CASE ~files[i].there
  BY <1>1, KeepEntries DEF Rename, SameEntries, Ordered, NothingBeyond, ClockTypes, Times
<1>2. CASE files[i].there
  <2>1. i \in Index /\ i + 1 \in Index
    BY Facts DEF Index
  <2>2. /\ files'[i] = Missing /\ files'[i + 1] = files[i]
        /\ \A j \in Index \ {i, i + 1} : files'[j] = files[j]
        /\ files[i + 1].ids = {} /\ Missing.ids = {}
    BY <1>2, <2>1, Entries DEF Rename, FileTypes, Missing
  <2>3. NothingBeyond'
    BY <2>2, Facts DEF Ordered, NothingBeyond
  <2>4. IdsBounded'
    BY <2>1, <2>2 DEF Ordered, IdsBounded
  <2>5. Sorted'
    <3> SUFFICES ASSUME NEW j \in Index, NEW k \in Index, j < k,
                        NEW a \in files'[j].ids, NEW b \in files'[k].ids
                 PROVE  b < a
      BY DEF Sorted
    <3> DEFINE from(n) == IF n = i + 1 THEN i ELSE n
    <3>1. j # i /\ k # i
      BY <2>2
    <3>2. from(j) \in Index /\ from(k) \in Index /\ from(j) < from(k)
      BY <2>1, <3>1 DEF Index
    <3>3. a \in files[from(j)].ids /\ b \in files[from(k)].ids
      BY <2>2, <3>1
    <3> QED
      BY <3>2, <3>3 DEF Ordered, Sorted
  <2>6. Stored' = Stored
    BY <2>1, <2>2, StoredIs
  <2>7. Gapless'
    BY <2>6 DEF Ordered, Gapless
  <2>8. OnlyOldestGo
    BY <2>6 DEF OnlyOldestGo
  <2> QED
    BY <2>3, <2>4, <2>5, <2>7, <2>8 DEF Ordered
<1> QED
  BY <1>1, <1>2

\* The next entry goes to the active file, which has the youngest.
LEMMA AppendToActive ==
  ASSUME FileTypes, ClockTypes, Ordered, last < MaxEntries, last' = last + 1,
         files'[0].ids = files[0].ids \union {last + 1}, files'[0].mtime = last + 1,
         \A i \in Index \ {0} : files'[i] = files[i],
         mark' = mark, cutoff' = cutoff
  PROVE  Ordered' /\ OnlyOldestGo
<1>1. last \in Int /\ last + 1 \in Int
  BY DEF ClockTypes, Times
<1>2. NothingBeyond'
  BY Facts DEF Ordered, NothingBeyond, Index
<1>3. IdsBounded'
  <2> SUFFICES ASSUME NEW i \in Index, NEW e \in files'[i].ids
               PROVE  e <= files'[i].mtime /\ e <= last + 1
    BY DEF IdsBounded
  <2>1. (e = last + 1 /\ i = 0) \/ e \in files[i].ids
    OBVIOUS
  <2>2. e \in files[i].ids => e \in Int /\ e <= files[i].mtime /\ e <= last
    BY Entries DEF Ordered, IdsBounded
  <2> QED
    BY <1>1, <2>1, <2>2
<1>4. Sorted'
  <2> SUFFICES ASSUME NEW i \in Index, NEW j \in Index, i < j,
                      NEW a \in files'[i].ids, NEW b \in files'[j].ids
               PROVE  b < a
    BY DEF Sorted
  <2>1. b \in files[j].ids /\ (a \in files[i].ids \/ a = last + 1)
    BY DEF Index
  <2>2. b \in Int /\ b <= last
    BY <2>1, Entries DEF Ordered, IdsBounded
  <2> QED
    BY <1>1, <2>1, <2>2 DEF Ordered, Sorted
<1>5. Stored \subseteq Stored' /\ last + 1 \in Stored'
  BY Facts, StoredIs
<1>6. \A e \in Stored' : e \in Stored \/ e = last + 1
  BY Facts, StoredIs
<1>7. Gapless'
  <2> SUFFICES ASSUME NEW e \in Stored', NEW f \in e..last + 1, f \notin Stored'
               PROVE  f <= mark \/ f < cutoff
    BY DEF Gapless
  <2>1. f # last + 1
    BY <1>5
  <2>2. e \in Stored /\ e \in Int
    BY <1>1, <1>6, <2>1, StoredIs, Entries
  <2>3. f \in e..last
    BY <1>1, <2>1, <2>2
  <2> QED
    BY <1>5, <2>2, <2>3 DEF Ordered, Gapless
<1>8. OnlyOldestGo
  BY <1>5 DEF OnlyOldestGo
<1> QED
  BY <1>2, <1>3, <1>4, <1>7, <1>8 DEF Ordered

-----------------------------------------------------------------------------
(* What a step of a process does to the rest of the invariant.             *)

LEMMA ProcStep ==
  ASSUME LInv, NEW p \in Procs, NEW step \in Steps, NEW i \in 0..BackupCount + 2, NEW o \in Ops,
         Moves(p, step, i), op' = [op EXCEPT ![p] = o],
         initialized' \in [Procs -> BOOLEAN], disturbed' \in BOOLEAN,
         p = "purger" => /\ step \in {"idle", "unlink", "purged", "ensure"}
                         /\ o \in {"none", "purge", "purge --no-reseed"}
                         /\ \A k \in Index \ {0} : files'[k].there => files[k].there,
         step = "shift" => i <= BackupCount - 1 /\ ~files'[i + 1].there,
         step = "move" => ~files'[1].there,
         step = "unlink" /\ quiet'[p] =>
           /\ \A k \in Index : k < i => ~files'[k].there
           /\ \A k, l \in Index : (0 < k /\ i <= k /\ k < l /\ files'[l].there) => files'[k].there,
         step = "purged" /\ quiet'[p] => \A k \in Index : ~files'[k].there
  PROVE  ProcTypes' /\ PurgerPurges' /\ Room' /\ PurgedBelow' /\ PurgeLeavesNothing'
<1> USE Facts, TypeParts DEF LInv
<1>1. /\ pc'[p] = step /\ idx'[p] = i /\ op'[p] = o
      /\ \A q \in Procs \ {p} : pc'[q] = pc[q] /\ idx'[q] = idx[q] /\ op'[q] = op[q]
  BY DEF ProcTypes, Moves
<1>2. ProcTypes'
  BY DEF ProcTypes, Moves
<1>3. PurgerPurges'
  BY <1>1 DEF PurgerPurges
<1>4. Room'
  <2> SUFFICES ASSUME NEW q \in Procs
               PROVE  /\ pc'[q] = "shift" => idx'[q] <= BackupCount - 1 /\ ~files'[idx'[q] + 1].there
                      /\ pc'[q] = "move" => ~files'[1].there
    BY DEF Room
  <2>1. CASE q = p
    BY <1>1, <2>1
  <2>2. CASE q # p /\ pc[q] \notin {"shift", "move"}
    BY <1>1, <2>2
  <2>3. CASE q # p /\ pc[q] \in {"shift", "move"}
    <3>1. p = "purger"
      BY <2>3 DEF PurgerPurges
    <3>2. idx[q] \in 0..BackupCount + 2
      BY DEF ProcTypes
    <3>3. CASE pc[q] = "shift"
      <4>1. idx[q] <= BackupCount - 1 /\ ~files[idx[q] + 1].there
        BY <3>3 DEF Room
      <4>2. idx[q] + 1 \in Index \ {0}
        BY <3>2, <4>1, NotActive
      <4> QED
        BY <1>1, <2>3, <3>1, <3>3, <4>1, <4>2
    <3>4. CASE pc[q] = "move"
      <4>1. ~files[1].there
        BY <3>4 DEF Room
      <4> QED
        BY <1>1, <2>3, <3>1, <3>4, <4>1, NotActive
    <3> QED
      BY <2>3, <3>3, <3>4
  <2> QED
    BY <2>1, <2>2, <2>3
<1>5. \A q \in Procs : quiet'[q] => q = p
  BY DEF Moves
<1>6. PurgedBelow'
  BY <1>1, <1>5 DEF PurgedBelow
<1>7. PurgeLeavesNothing'
  BY <1>1, <1>5 DEF PurgeLeavesNothing
<1> QED
  BY <1>2, <1>3, <1>4, <1>6, <1>7

\* Most steps touch no file and lead to none of the places Room and the purge
\* speak of.
LEMMA StillFiles ==
  ASSUME LInv, UNCHANGED <<files, last, cutoff, mark>>
  PROVE  FileTypes' /\ ClockTypes' /\ Ordered' /\ OnlyOldestGo
<1>1. FileTypes' /\ ClockTypes'
  BY TypeParts DEF LInv, FileTypes, ClockTypes
<1> QED
  BY <1>1, TypeParts, KeepEntries DEF LInv, SameEntries, Ordered, NothingBeyond, ClockTypes, Times

LEMMA OpSame ==
  ASSUME LInv, NEW p \in Procs
  PROVE  /\ op[p] \in Ops
         /\ op' = op => op' = [op EXCEPT ![p] = op[p]]
         /\ p = "purger" => op[p] \in {"none", "purge", "purge --no-reseed"}
BY TypeParts DEF LInv, ProcTypes, PurgerPurges

LEMMA Together ==
  ASSUME ProcTypes', PurgerPurges', Room', PurgedBelow', PurgeLeavesNothing',
         FileTypes', ClockTypes', Ordered'
  PROVE  LInv'
BY TypePartsNext DEF LInv

LEMMA FlagTypes ==
  ASSUME LInv, NEW p \in Procs
  PROVE  /\ initialized \in [Procs -> BOOLEAN] /\ disturbed \in BOOLEAN
         /\ \A b \in BOOLEAN : [initialized EXCEPT ![p] = b] \in [Procs -> BOOLEAN]
BY TypeParts DEF LInv, ProcTypes

LEMMA AfterRotationIs ==
  ASSUME LInv, NEW p \in Procs, NEW failed \in BOOLEAN, AfterRotation(p, failed)
  PROVE  \E step \in {"age", "append", "idle"}, o \in Ops :
           /\ Goto(p, step, 0) /\ op' = [op EXCEPT ![p] = o]
           /\ p = "purger" => step = "idle" /\ o = "none"
<1>1. CASE Recording(p)
  <2>1. p # "purger"
    BY <1>1, OpSame DEF Recording
  <2>2. UNCHANGED op /\ (Goto(p, "age", 0) \/ Goto(p, "append", 0))
    BY <1>1 DEF AfterRotation, Recording
  <2> QED
    BY <2>1, <2>2, OpSame
<1>2. CASE ~Recording(p)
  <2>1. Return(p)
    BY <1>2 DEF AfterRotation, Recording
  <2> QED
    BY <2>1 DEF Return, Ops
<1> QED
  BY <1>1, <1>2

-----------------------------------------------------------------------------
(* The steps.  Kept is what has to be shown of each.                       *)

Kept == LInv' /\ OnlyOldestGo

\* A step to a place of which neither Room nor the purge speaks.
PlainSteps == {"idle", "ensure", "size", "age", "append", "oldest", "create", "retain"}

LEMMA PlainStep ==
  ASSUME LInv, NEW p \in Procs, NEW step \in PlainSteps, NEW i \in 0..BackupCount + 2,
         NEW o \in Ops, Goto(p, step, i), op' = [op EXCEPT ![p] = o],
         initialized' \in [Procs -> BOOLEAN], disturbed' \in BOOLEAN,
         p = "purger" => /\ step \in {"idle", "ensure"}
                         /\ o \in {"none", "purge", "purge --no-reseed"}
                         /\ \A k \in Index \ {0} : files'[k].there => files[k].there,
         FileTypes', ClockTypes', Ordered', OnlyOldestGo
  PROVE  Kept
<1>1. Moves(p, step, i)
  BY GotoMoves DEF LInv
<1>2. step \in Steps /\ step \notin {"shift", "move", "unlink", "purged"}
  BY DEF PlainSteps, Steps
<1>3. ProcTypes' /\ PurgerPurges' /\ Room' /\ PurgedBelow' /\ PurgeLeavesNothing'
  BY <1>1, <1>2, ProcStep
<1> QED
  BY <1>3, Together DEF Kept

\* The same when no file is touched.
LEMMA IdleStep ==
  ASSUME LInv, NEW p \in Procs, NEW step \in PlainSteps, NEW i \in 0..BackupCount + 2,
         NEW o \in Ops, Goto(p, step, i), op' = [op EXCEPT ![p] = o],
         initialized' \in [Procs -> BOOLEAN], disturbed' \in BOOLEAN,
         p = "purger" => /\ step \in {"idle", "ensure"}
                         /\ o \in {"none", "purge", "purge --no-reseed"},
         UNCHANGED <<files, last, cutoff, mark>>
  PROVE  Kept
BY StillFiles, PlainStep

LEMMA Small == 0 \in 0..BackupCount + 2 /\ 1 \in 0..BackupCount + 2
BY LedgerAssumption

LEMMA BeginStep == ASSUME LInv, NEW p \in Procs, NEW m \in Methods(p), Begin(p, m) PROVE Kept
<1> DEFINE i == IF m = "apply_retention" THEN 1 ELSE 0
<1>1. disturbed' \in BOOLEAN
  BY FlagTypes, Zenon DEF Begin, Meets
<1>2. /\ m \in Ops /\ i \in 0..BackupCount + 2 /\ op' = [op EXCEPT ![p] = m]
      /\ Goto(p, FirstStep(m), i) /\ initialized' \in [Procs -> BOOLEAN]
      /\ p = "purger" => m \in {"purge", "purge --no-reseed"}
  BY Small, FlagTypes, Facts DEF Begin, Methods, Ops
<1>3. FileTypes' /\ ClockTypes' /\ Ordered' /\ OnlyOldestGo /\ files' = files
  BY StillFiles DEF Begin
<1>4. CASE m \in {"purge", "purge --no-reseed"}
  <2>1. FirstStep(m) = "unlink" /\ i = 0
    BY <1>4 DEF FirstStep
  <2>2. Moves(p, "unlink", 0) /\ pc[p] = "idle"
    BY <1>2, <2>1, GotoMoves DEF LInv, Begin
  <2>3. quiet'[p] => \A k, l \in Index : (0 < k /\ k < l /\ files[l].there) => files[k].there
    BY <2>2 DEF Moves, Contiguous
  <2>4. \A k \in Index : ~(k < 0)
    BY LedgerAssumption DEF Index
  <2>5. ProcTypes' /\ PurgerPurges' /\ Room' /\ PurgedBelow' /\ PurgeLeavesNothing'
    BY <1>1, <1>2, <1>3, <1>4, <2>2, <2>3, <2>4, ProcStep, Small DEF Steps
  <2> QED
    BY <1>3, <2>5, Together DEF Kept
<1>5. CASE m \notin {"purge", "purge --no-reseed"}
  <2>1. FirstStep(m) \in PlainSteps /\ p # "purger"
    BY <1>2, <1>5 DEF FirstStep, Methods, PlainSteps
  <2> QED
    BY <1>1, <1>2, <1>3, <2>1, PlainStep
<1> QED
  BY <1>4, <1>5

\* The active file is created empty, or gets its mode.
LEMMA ActiveThere ==
  ASSUME LInv, UNCHANGED <<last, cutoff, mark>>,
         files' = [files EXCEPT ![0] = IF @.there THEN [@ EXCEPT !.private = TRUE]
                                       ELSE [Missing EXCEPT !.there = TRUE, !.mtime = last]]
  PROVE  /\ FileTypes' /\ ClockTypes' /\ Ordered' /\ OnlyOldestGo
         /\ \A k \in Index \ {0} : files'[k].there => files[k].there
<1> USE TypeParts DEF LInv
<1>1. /\ 0 \in Index /\ files[0] \in File /\ last \in Times
      /\ \A k \in Index \ {0} : files'[k] = files[k]
  BY Facts DEF FileTypes, ClockTypes
<1>2. files'[0] \in File /\ files'[0].there
  BY <1>1 DEF FileTypes, File, Missing
<1>3. FileTypes'
  BY <1>1, <1>2 DEF FileTypes
<1>4. ClockTypes'
  BY DEF ClockTypes
<1>5. SameEntries
  BY <1>1, Entries DEF SameEntries, FileTypes, File, Missing
<1>6. NothingBeyond'
  BY <1>1, Facts DEF Ordered, NothingBeyond
<1> QED
  BY <1>1, <1>3, <1>4, <1>5, <1>6, KeepEntries DEF ClockTypes, Times

LEMMA EnsureStep == ASSUME LInv, NEW p \in Procs, EnsureInitialized(p) PROVE Kept
<1>1. /\ FileTypes' /\ ClockTypes' /\ Ordered' /\ OnlyOldestGo
      /\ \A k \in Index \ {0} : files'[k].there => files[k].there
  <2>1. CASE initialized[p]
    BY <2>1, StillFiles DEF EnsureInitialized
  <2>2. CASE ~initialized[p]
    BY <2>2, ActiveThere DEF EnsureInitialized
  <2> QED
    BY <2>1, <2>2
<1>2. initialized' \in [Procs -> BOOLEAN] /\ disturbed' \in BOOLEAN
  BY FlagTypes DEF EnsureInitialized
<1>3. CASE op[p] = "record"
  <2>1. Goto(p, "size", 0) /\ p # "purger" /\ op' = [op EXCEPT ![p] = op[p]] /\ op[p] \in Ops
    BY <1>3, OpSame DEF EnsureInitialized
  <2> QED
    BY <1>1, <1>2, <2>1, PlainStep, Small DEF PlainSteps
<1>4. CASE op[p] # "record"
  <2>1. Goto(p, "idle", 0) /\ op' = [op EXCEPT ![p] = "none"]
    BY <1>4 DEF EnsureInitialized, Return
  <2> QED
    BY <1>1, <1>2, <2>1, PlainStep, Small DEF PlainSteps, Ops
<1> QED
  BY <1>3, <1>4

LEMMA OnlyWriter ==
  ASSUME LInv, NEW p \in Procs, pc[p] \notin {"idle", "unlink", "purged", "ensure"}
  PROVE  p # "purger"
BY DEF LInv, PurgerPurges

LEMMA CheckStep == ASSUME LInv, NEW p \in Procs, CheckSize(p) \/ CheckAge(p) PROVE Kept
<1>1. p # "purger" /\ op[p] \in Ops
  BY OnlyWriter, OpSame DEF CheckSize, CheckAge
<1>2. CASE CheckSize(p)
  <2>1. Goto(p, "oldest", 0) \/ Goto(p, "age", 0)
    BY <1>2 DEF CheckSize
  <2>2. op' = [op EXCEPT ![p] = op[p]] /\ UNCHANGED <<files, last, cutoff, mark, initialized, disturbed>>
    BY <1>2, OpSame DEF CheckSize
  <2> QED
    BY <1>1, <2>1, <2>2, IdleStep, FlagTypes, Small DEF PlainSteps
<1>3. CASE CheckAge(p)
  <2>1. \/ op' = [op EXCEPT ![p] = "record, by age"] /\ Goto(p, "oldest", 0)
        \/ op' = [op EXCEPT ![p] = op[p]] /\ Goto(p, "append", 0)
    BY <1>3, OpSame DEF CheckAge
  <2>2. UNCHANGED <<files, last, cutoff, mark, initialized, disturbed>>
    BY <1>3 DEF CheckAge
  <2> QED
    BY <1>1, <2>1, <2>2, IdleStep, FlagTypes, Small DEF PlainSteps, Ops
<1> QED
  BY <1>2, <1>3

LEMMA AppendStep == ASSUME LInv, NEW p \in Procs, AppendEntry(p) PROVE Kept
<1> USE TypeParts DEF LInv
<1>1. p # "purger"
  BY OnlyWriter DEF AppendEntry
<1>2. /\ last \in Int /\ last < MaxEntries /\ last + 1 \in Times /\ last + 1 \in 1..MaxEntries
      /\ last' = last + 1 /\ cutoff' = cutoff /\ mark' = mark
  BY LedgerAssumption DEF AppendEntry, ClockTypes, Times
<1>3. /\ files' = [files EXCEPT ![0] =
           [there |-> TRUE, private |-> files[0].there /\ files[0].private,
            ids |-> files[0].ids \union {last + 1}, mtime |-> last + 1]]
      /\ 0 \in Index /\ files[0] \in File
  BY Facts DEF AppendEntry, FileTypes
<1>4. /\ files'[0].there /\ files'[0].ids = files[0].ids \union {last + 1}
      /\ files'[0].mtime = last + 1
      /\ \A k \in Index \ {0} : files'[k] = files[k]
  BY <1>3 DEF FileTypes
<1>5. FileTypes'
  <2>1. (files[0].there /\ files[0].private) \in BOOLEAN
    BY <1>3, Zenon DEF File
  <2>2. files'[0] \in File
    BY <1>2, <1>3, <2>1 DEF FileTypes, File
  <2>3. files' \in [Index -> File]
    BY <1>3, <1>4, <2>2 DEF FileTypes
  <2> QED
    BY <1>4, <2>3 DEF FileTypes
<1>6. ClockTypes'
  BY <1>2 DEF ClockTypes
<1>7. Ordered' /\ OnlyOldestGo
  BY <1>2, <1>4, AppendToActive
<1>8. Goto(p, "idle", 0) /\ op' = [op EXCEPT ![p] = "none"] /\ UNCHANGED <<initialized, disturbed>>
  BY DEF AppendEntry, Return
<1> QED
  BY <1>1, <1>5, <1>6, <1>7, <1>8, PlainStep, FlagTypes, Small DEF PlainSteps, Ops

\* A file goes, whoever deletes it.
LEMMA DeletedTypes ==
  ASSUME LInv, NEW i \in Index, files' = [files EXCEPT ![i] = Missing],
         last' = last, cutoff' = cutoff, mark' \in {mark, last}
  PROVE  /\ FileTypes' /\ ClockTypes' /\ ~files'[i].there
         /\ \A k \in Index \ {i} : files'[k] = files[k]
<1> USE TypeParts DEF LInv
<1>1. files' \in [Index -> File] /\ files'[i] = Missing /\ \A k \in Index \ {i} : files'[k] = files[k]
  BY Facts DEF FileTypes
<1>2. FileTypes' /\ ~files'[i].there
  BY <1>1 DEF FileTypes, Missing
<1>3. ClockTypes'
  BY DEF ClockTypes
<1> QED
  BY <1>1, <1>2, <1>3

LEMMA OldestStep == ASSUME LInv, NEW p \in Procs, UnlinkOldest(p) PROVE Kept
<1>1. p # "purger" /\ op[p] \in Ops /\ op' = [op EXCEPT ![p] = op[p]]
  BY OnlyWriter, OpSame DEF UnlinkOldest
<1>2. /\ FileTypes' /\ ClockTypes' /\ ~files'[BackupCount].there
  BY DeletedTypes, Facts DEF UnlinkOldest
<1>3. Ordered' /\ OnlyOldestGo
  BY DeleteFile, TypeParts, Facts DEF LInv, UnlinkOldest
<1>4. Moves(p, "shift", BackupCount - 1)
  BY GotoMoves DEF LInv, UnlinkOldest
<1>5. /\ BackupCount - 1 \in 0..BackupCount + 2 /\ BackupCount - 1 + 1 = BackupCount
      /\ BackupCount - 1 <= BackupCount - 1
  BY Facts
<1>6. ProcTypes' /\ PurgerPurges' /\ Room' /\ PurgedBelow' /\ PurgeLeavesNothing'
  BY <1>1, <1>2, <1>4, <1>5, ProcStep, FlagTypes DEF UnlinkOldest, Steps
<1> QED
  BY <1>2, <1>3, <1>6, Together DEF Kept

\* A rename within Room: its source is free afterwards.
LEMMA RenamedTypes ==
  ASSUME LInv, NEW i \in 0..BackupCount - 1, Rename(i, i + 1), ~files[i + 1].there,
         UNCHANGED <<last, cutoff, mark>>
  PROVE  FileTypes' /\ ClockTypes' /\ Ordered' /\ OnlyOldestGo /\ ~files'[i].there
<1> USE TypeParts DEF LInv
<1>1. i \in Index /\ i + 1 \in Index
  BY Facts DEF Index
<1>2. FileTypes' /\ ~files'[i].there
  <2>1. CASE files[i].there
    <3>1. files' = [files EXCEPT ![i] = Missing, ![i + 1] = files[i]]
      BY <2>1 DEF Rename
    <3>2. files' \in [Index -> File] /\ files'[i] = Missing /\ files'[i + 1] = files[i]
          /\ \A k \in Index \ {i, i + 1} : files'[k] = files[k]
      BY <1>1, <3>1, Facts DEF FileTypes
    <3> QED
      BY <1>1, <3>2 DEF FileTypes, Missing
  <2>2. CASE ~files[i].there
    BY <2>2 DEF Rename, FileTypes
  <2> QED
    BY <2>1, <2>2
<1>3. ClockTypes'
  BY DEF ClockTypes
<1>4. Ordered' /\ OnlyOldestGo
  BY RenameFile
<1> QED
  BY <1>2, <1>3, <1>4

LEMMA ShiftStep == ASSUME LInv, NEW p \in Procs, Shift(p) PROVE Kept
<1> USE TypeParts DEF LInv
<1>1. p # "purger" /\ op[p] \in Ops /\ op' = [op EXCEPT ![p] = op[p]]
  BY OnlyWriter, OpSame DEF Shift
<1>2. idx[p] \in 0..BackupCount + 2 /\ idx[p] <= BackupCount - 1 /\ ~files[idx[p] + 1].there
  BY DEF ProcTypes, Room, Shift
<1>3. CASE idx[p] = 0
  <2>1. Moves(p, "move", 0) /\ files' = files /\ ~files[1].there
    BY <1>2, <1>3, GotoMoves DEF Shift
  <2>2. ProcTypes' /\ PurgerPurges' /\ Room' /\ PurgedBelow' /\ PurgeLeavesNothing'
    BY <1>1, <2>1, ProcStep, FlagTypes, Small DEF Shift, Steps
  <2> QED
    BY <1>3, <2>2, StillFiles, Together DEF Kept, Shift
<1>4. CASE idx[p] # 0
  <2>1. /\ Moves(p, "shift", idx[p] - 1) /\ Rename(idx[p], idx[p] + 1)
        /\ UNCHANGED <<last, cutoff, mark, initialized, disturbed>>
    BY <1>4, GotoMoves DEF Shift
  <2>2. /\ idx[p] \in 0..BackupCount - 1 /\ idx[p] - 1 \in 0..BackupCount + 2
        /\ idx[p] - 1 <= BackupCount - 1 /\ (idx[p] - 1) + 1 = idx[p]
    BY <1>2, <1>4, Facts
  <2>3. FileTypes' /\ ClockTypes' /\ Ordered' /\ OnlyOldestGo /\ ~files'[idx[p]].there
    BY <1>2, <2>1, <2>2, RenamedTypes
  <2>4. ProcTypes' /\ PurgerPurges' /\ Room' /\ PurgedBelow' /\ PurgeLeavesNothing'
    BY <1>1, <2>1, <2>2, <2>3, ProcStep, FlagTypes DEF Steps
  <2> QED
    BY <2>3, <2>4, Together DEF Kept
<1> QED
  BY <1>3, <1>4

LEMMA MoveStep == ASSUME LInv, NEW p \in Procs, MoveActive(p) PROVE Kept
<1>1. p # "purger" /\ op[p] \in Ops /\ op' = [op EXCEPT ![p] = op[p]]
  BY OnlyWriter, OpSame DEF MoveActive
<1>2. FileTypes' /\ ClockTypes' /\ Ordered' /\ OnlyOldestGo
  <2>1. 0 \in 0..BackupCount - 1 /\ 0 + 1 = 1
    BY Facts
  <2>2. ~files[1].there
    BY DEF LInv, Room, MoveActive
  <2> QED
    BY <2>1, <2>2, RenamedTypes DEF MoveActive
<1> QED
  BY <1>1, <1>2, PlainStep, FlagTypes, Small DEF MoveActive, PlainSteps

LEMMA CreateStep == ASSUME LInv, NEW p \in Procs, CreateActive(p) PROVE Kept
<1>1. p # "purger" /\ op[p] \in Ops /\ op' = [op EXCEPT ![p] = op[p]]
  BY OnlyWriter, OpSame DEF CreateActive
<1>2. FileTypes' /\ ClockTypes' /\ Ordered' /\ OnlyOldestGo
  BY ActiveThere DEF CreateActive
<1> QED
  BY <1>1, <1>2, PlainStep, FlagTypes, Small DEF CreateActive, PlainSteps

LEMMA RetainStep == ASSUME LInv, NEW p \in Procs, Retain(p) PROVE Kept
<1>1. p # "purger" /\ op[p] \in Ops
  BY OnlyWriter, OpSame DEF Retain
<1>2. UNCHANGED <<last, cutoff, mark, initialized, disturbed>>
  BY DEF Retain
<1>3. CASE idx[p] \in Index /\ files[idx[p]].there
  <2>1. Goto(p, "retain", idx[p] + 1) /\ op' = [op EXCEPT ![p] = op[p]]
    BY <1>3, OpSame DEF Retain
  <2>2. idx[p] + 1 \in 0..BackupCount + 2
    BY <1>3, Facts DEF Index
  <2>3. FileTypes' /\ ClockTypes' /\ Ordered' /\ OnlyOldestGo
    <3>1. CASE files[idx[p]].mtime < cutoff
      <4>1. files' = [files EXCEPT ![idx[p]] = Missing]
        BY <1>3, <3>1 DEF Retain
      <4> QED
        BY <1>2, <1>3, <3>1, <4>1, DeletedTypes, DeleteFile, TypeParts DEF LInv
    <3>2. CASE ~(files[idx[p]].mtime < cutoff)
      BY <1>2, <1>3, <3>2, StillFiles DEF Retain
    <3> QED
      BY <3>1, <3>2
  <2> QED
    BY <1>1, <1>2, <2>1, <2>2, <2>3, PlainStep, FlagTypes DEF PlainSteps
<1>4. CASE ~(idx[p] \in Index /\ files[idx[p]].there)
  <2>1. AfterRotation(p, FALSE) /\ files' = files
    BY <1>4 DEF Retain
  <2>2. \E step \in {"age", "append", "idle"}, o \in Ops :
          /\ Goto(p, step, 0) /\ op' = [op EXCEPT ![p] = o]
          /\ p = "purger" => step = "idle" /\ o = "none"
    BY <2>1, AfterRotationIs
  <2>3. PICK step \in {"age", "append", "idle"}, o \in Ops :
          Goto(p, step, 0) /\ op' = [op EXCEPT ![p] = o]
    BY <2>2
  <2>4. step \in PlainSteps
    BY DEF PlainSteps
  <2>5. initialized' \in [Procs -> BOOLEAN] /\ disturbed' \in BOOLEAN
    BY FlagTypes DEF Retain
  <2> QED
    BY <1>1, <1>2, <2>1, <2>3, <2>4, <2>5, IdleStep, Small
<1> QED
  BY <1>3, <1>4

LEMMA PassOverStep == ASSUME LInv, NEW p \in Procs, RetainPassesOver(p) PROVE Kept
<1>1. p # "purger" /\ op[p] \in Ops /\ op' = [op EXCEPT ![p] = op[p]]
  BY OnlyWriter, OpSame DEF RetainPassesOver
<1>2. idx[p] + 1 \in 0..BackupCount + 2
  BY Facts DEF RetainPassesOver, Index
<1> QED
  BY <1>1, <1>2, IdleStep, FlagTypes DEF RetainPassesOver, PlainSteps

LEMMA UnlinkStep == ASSUME LInv, NEW p \in Procs, Unlink(p) PROVE Kept
<1> USE TypeParts DEF LInv
<1>1. /\ op[p] \in Ops /\ op' = [op EXCEPT ![p] = op[p]]
      /\ p = "purger" => op[p] \in {"none", "purge", "purge --no-reseed"}
      /\ UNCHANGED <<last, cutoff, initialized, disturbed>> /\ pc[p] = "unlink"
  BY OpSame DEF Unlink
<1>2. idx[p] \in 0..BackupCount + 2
  BY DEF ProcTypes
<1>3. quiet[p] =>
        /\ \A k \in Index : k < idx[p] => ~files[k].there
        /\ \A k, l \in Index : (0 < k /\ idx[p] <= k /\ k < l /\ files[l].there) => files[k].there
  BY <1>1 DEF PurgedBelow
<1>4. CASE idx[p] \in Index /\ (idx[p] = 0 \/ files[idx[p]].there)
  <2>1. /\ Moves(p, "unlink", idx[p] + 1) /\ mark' = last
        /\ files' = [files EXCEPT ![idx[p]] = Missing]
    BY <1>4, GotoMoves DEF Unlink
  <2>2. /\ FileTypes' /\ ClockTypes' /\ ~files'[idx[p]].there
        /\ \A k \in Index \ {idx[p]} : files'[k] = files[k]
    BY <1>1, <1>4, <2>1, DeletedTypes
  <2>3. Ordered' /\ OnlyOldestGo
    BY <1>1, <1>4, <2>1, DeleteFile
  <2>4. idx[p] + 1 \in 0..BackupCount + 2
    BY <1>4, Facts DEF Index
  <2>5. quiet'[p] = quiet[p]
    BY <1>1, <2>1 DEF Moves
  <2>6. quiet'[p] => \A k \in Index : k < idx[p] + 1 => ~files'[k].there
    BY <1>3, <1>4, <2>2, <2>5 DEF Index
  <2>7. quiet'[p] => \A k, l \in Index :
          (0 < k /\ idx[p] + 1 <= k /\ k < l /\ files'[l].there) => files'[k].there
    BY <1>2, <1>3, <1>4, <2>2, <2>5 DEF Index
  <2>8. \A k \in Index \ {0} : files'[k].there => files[k].there
    BY <1>4, <2>2
  <2>9. ProcTypes' /\ PurgerPurges' /\ Room' /\ PurgedBelow' /\ PurgeLeavesNothing'
    BY <1>1, <2>1, <2>4, <2>6, <2>7, <2>8, ProcStep, FlagTypes DEF Steps
  <2> QED
    BY <2>2, <2>3, <2>9, Together DEF Kept
<1>5. CASE ~(idx[p] \in Index /\ (idx[p] = 0 \/ files[idx[p]].there))
  <2>1. Moves(p, "purged", 0) /\ UNCHANGED <<files, mark>>
    BY <1>5, GotoMoves DEF Unlink
  <2>2. quiet'[p] = quiet[p]
    BY <1>1, <2>1 DEF Moves
  <2>3. quiet'[p] => \A k \in Index : ~files'[k].there
    <3> SUFFICES ASSUME quiet[p], NEW k \in Index, files[k].there PROVE FALSE
      BY <2>1, <2>2
    <3>1. idx[p] <= k
      BY <1>2, <1>3 DEF Index
    <3>2. idx[p] \in Index
      BY <1>2, <3>1, Facts DEF Index
    <3>3. 0 < idx[p] /\ idx[p] < k
      BY <1>2, <1>5, <3>1, <3>2 DEF Index
    <3>4. files[idx[p]].there
      BY <1>2, <1>3, <3>2, <3>3, Facts
    <3> QED
      BY <1>5, <3>2, <3>4
  <2>4. ProcTypes' /\ PurgerPurges' /\ Room' /\ PurgedBelow' /\ PurgeLeavesNothing'
    BY <1>1, <2>1, <2>3, ProcStep, FlagTypes, Small DEF Steps
  <2> QED
    BY <1>1, <2>1, <2>4, StillFiles, Together DEF Kept
<1> QED
  BY <1>4, <1>5

LEMMA PurgedStep == ASSUME LInv, NEW p \in Procs, Purged(p) PROVE Kept
<1>1. /\ initialized' \in [Procs -> BOOLEAN] /\ disturbed' \in BOOLEAN
      /\ UNCHANGED <<files, last, cutoff, mark>>
  BY FlagTypes DEF Purged
<1>2. CASE p = "purger" /\ op[p] = "purge"
  <2>1. Goto(p, "ensure", 0) /\ op' = [op EXCEPT ![p] = op[p]]
    BY <1>2, OpSame DEF Purged
  <2> QED
    BY <1>1, <1>2, <2>1, IdleStep, OpSame, Small DEF PlainSteps
<1>3. CASE ~(p = "purger" /\ op[p] = "purge")
  <2>1. Goto(p, "idle", 0) /\ op' = [op EXCEPT ![p] = "none"]
    BY <1>3 DEF Purged, Return
  <2> QED
    BY <1>1, <2>1, IdleStep, Small DEF PlainSteps, Ops
<1> QED
  BY <1>2, <1>3

\* A failed call ends a method, or a rotation that the recording passes over.
LEMMA FailStep == ASSUME LInv, NEW p \in Procs, CallFails(p) PROVE Kept
<1>1. /\ initialized' \in [Procs -> BOOLEAN] /\ disturbed' \in BOOLEAN
      /\ UNCHANGED <<files, last, cutoff, mark>>
  BY FlagTypes DEF CallFails
<1>2. \E step \in {"age", "append", "idle"}, o \in Ops :
        /\ Goto(p, step, 0) /\ op' = [op EXCEPT ![p] = o]
        /\ p = "purger" => step = "idle" /\ o = "none"
  <2>1. CASE pc[p] \in {"oldest", "shift", "move", "create"}
    BY <2>1, AfterRotationIs DEF CallFails
  <2>2. CASE pc[p] \notin {"oldest", "shift", "move", "create"}
    BY <2>2 DEF CallFails, Return, Ops
  <2> QED
    BY <2>1, <2>2
<1>3. PICK step \in {"age", "append", "idle"}, o \in Ops :
        /\ Goto(p, step, 0) /\ op' = [op EXCEPT ![p] = o]
        /\ p = "purger" => step = "idle" /\ o = "none"
  BY <1>2
<1>4. step \in PlainSteps
  BY DEF PlainSteps
<1> QED
  BY <1>1, <1>3, <1>4, IdleStep, Small

LEMMA CrashStep == ASSUME LInv, NEW p \in Procs, Crash(p) PROVE Kept
<1>1. disturbed' \in BOOLEAN
  BY FlagTypes, Zenon DEF Crash
<1>2. /\ initialized' \in [Procs -> BOOLEAN] /\ UNCHANGED <<files, last, cutoff, mark>>
      /\ Goto(p, "idle", 0) /\ op' = [op EXCEPT ![p] = "none"]
  BY FlagTypes DEF Crash, Return
<1> QED
  BY <1>1, <1>2, IdleStep, Small DEF PlainSteps, Ops

LEMMA StepKept == ASSUME LInv, NEW p \in Procs, Step(p) PROVE Kept
BY BeginStep, EnsureStep, CheckStep, AppendStep, OldestStep, ShiftStep, MoveStep,
   CreateStep, RetainStep, PassOverStep, UnlinkStep, PurgedStep, FailStep, CrashStep DEF Step

\* The clock moves what is out of retention, and nothing else.
LEMMA TimeStep == ASSUME LInv, TimePasses PROVE Kept
<1>1. UNCHANGED <<files, last, mark, pc, op, idx, initialized, quiet, disturbed>>
  BY DEF TimePasses, procVars
<1>2. cutoff' \in Times /\ cutoff' >= cutoff
  <2>1. cutoff \in 0..MaxEntries /\ last \in 0..MaxEntries /\ MaxEntries \in Nat
    BY TypeParts, Facts DEF LInv, ClockTypes, Times
  <2>2. cutoff < last /\ cutoff' = cutoff + 1
    BY DEF TimePasses
  <2> QED
    BY <2>1, <2>2 DEF Times
<1>3. FileTypes' /\ ClockTypes'
  BY <1>1, <1>2, TypeParts DEF LInv, FileTypes, ClockTypes
<1>4. Ordered' /\ OnlyOldestGo
  BY <1>1, <1>2, TypeParts, KeepEntries DEF LInv, SameEntries, Ordered, NothingBeyond
<1>5. ProcTypes' /\ PurgerPurges' /\ Room' /\ PurgedBelow' /\ PurgeLeavesNothing'
  BY <1>1, TypeParts DEF LInv, ProcTypes, PurgerPurges, Room, PurgedBelow, PurgeLeavesNothing
<1> QED
  BY <1>3, <1>4, <1>5, Together DEF Kept

LEMMA StutterKept == ASSUME LInv, UNCHANGED vars PROVE Kept
<1>1. UNCHANGED <<files, last, cutoff, mark, pc, op, idx, initialized, quiet, disturbed>>
  BY DEF vars, procVars
<1>2. FileTypes' /\ ClockTypes' /\ Ordered' /\ OnlyOldestGo
  BY <1>1, StillFiles
<1>3. ProcTypes' /\ PurgerPurges' /\ Room' /\ PurgedBelow' /\ PurgeLeavesNothing'
  BY <1>1, TypeParts DEF LInv, ProcTypes, PurgerPurges, Room, PurgedBelow, PurgeLeavesNothing
<1> QED
  BY <1>2, <1>3, Together DEF Kept

LEMMA NextKept == LInv /\ [LedgerNext]_vars => LInv' /\ OnlyOldestGo
BY StepKept, TimeStep, StutterKept DEF LedgerNext, Kept

LEMMA InitLInv == LedgerInit => LInv
<1> SUFFICES ASSUME LedgerInit PROVE LInv
  OBVIOUS
<1>1. FileTypes
  BY Facts DEF LedgerInit, FileTypes
<1>2. ClockTypes
  BY Facts DEF LedgerInit, ClockTypes, Times
<1>3. ProcTypes
  BY Small DEF LedgerInit, ProcTypes, Steps, Ops
<1>4. PurgerPurges /\ Room /\ PurgedBelow /\ PurgeLeavesNothing
  BY Facts DEF LedgerInit, PurgerPurges, Room, PurgedBelow, PurgeLeavesNothing
<1>5. \A i \in Index : files[i].ids = {} /\ ~files[i].there
  BY DEF LedgerInit, Missing
<1>6. Ordered
  BY <1>5, Facts, StoredIs DEF Ordered, NothingBeyond, IdsBounded, Sorted, Gapless
<1>7. LedgerTypeOK
  BY <1>1, <1>2, <1>3, TypeParts DEF FileTypes, LedgerInit
<1> QED
  BY <1>4, <1>6, <1>7 DEF LInv

-----------------------------------------------------------------------------
(* The theorems.                                                           *)

\* The invariant the results below are read off.
THEOREM LedgerInvariant == LedgerSpec => []LInv
BY InitLInv, NextKept, PTL DEF LedgerSpec

\* Every reachable state of the files and processes is well-typed.
THEOREM LedgerTypeCorrect == LedgerSpec => []LedgerTypeOK
<1>1. LInv => LedgerTypeOK
  BY DEF LInv
<1> QED
  BY <1>1, LedgerInvariant, PTL

\* A purge that began on contiguous archives, alone and without a failure,
\* leaves no file behind.
THEOREM PurgeComplete == LedgerSpec => []PurgeLeavesNothing
<1>1. LInv => PurgeLeavesNothing
  BY DEF LInv
<1> QED
  BY <1>1, LedgerInvariant, PTL

\* The ledger stays a chronicle, whatever fails, dies or interleaves: entries
\* are in order, and only the oldest go unless purged or out of retention.
THEOREM ChronicleKept == LedgerSpec => Chronicle
<1>1. LInv => InOrder
  BY DEF LInv, Ordered, Sorted, Gapless, InOrder
<1>2. LInv /\ [LedgerNext]_vars => [OnlyOldestGo]_vars
  BY NextKept
<1> QED
  BY <1>1, <1>2, LedgerInvariant, PTL DEF LedgerSpec, Chronicle

-----------------------------------------------------------------------------
(* Order on disk.  Until something disturbs it, one process at most is at    *)
(* work, and where it is in its method says where files are missing: nowhere *)
(* between methods (Whole, which counts the active file), at one index that  *)
(* wanders down while a rotation renames, and among expired archives during  *)
(* a retention scan.                                                         *)

Whole == \A i, j \in Index : i < j /\ files[j].there => files[i].there
HoleAt(h) == \A i, j \in Index : i < j /\ files[j].there /\ i # h => files[i].there
Expiring(n) == \A i, j \in Index :
  i < j /\ files[j].there /\ ~files[i].there => 0 < i /\ i < n /\ n <= j /\ files[j].mtime < cutoff
PurgedUpTo(n) == \A i \in Index :
  files[i].there => n <= i /\ \A k \in Index : n <= k /\ k < i => files[k].there

Shape(step, n) ==
  /\ step \in {"idle", "ensure", "size", "age", "append", "oldest"} => Whole
  /\ step = "shift" => HoleAt(n + 1)
  /\ step = "move" => HoleAt(1)
  /\ step = "create" => HoleAt(0)
  /\ step = "retain" => n > 0 /\ Expiring(n)
  /\ step = "unlink" => PurgedUpTo(n)
  /\ step = "purged" => \A i \in Index : ~files[i].there

\* One process at most is at work.
OneAtWork == \E p \in Procs : (\A q \in Procs \ {p} : pc[q] = "idle") /\ Shape(pc[p], idx[p])

\* A process that has initialized the ledger finds the active file there but
\* while it is moving it or purging, and one that records has initialized it.
ActiveKept ==
  /\ pc["purger"] # "idle" => ~initialized["writer"]
  /\ initialized["writer"] /\ pc["writer"] \notin {"create", "unlink", "purged"} => files[0].there
  /\ Recording("writer") /\ pc["writer"] # "ensure" => initialized["writer"]
  /\ pc["writer"] \in {"size", "age", "append"} => Recording("writer")

\* The younger a file, the lower its number, which makes what has expired a
\* tail of the archives.
Ageing == \A i, j \in Index :
  files[i].there => /\ files[i].mtime <= last
                    /\ i < j /\ files[j].there => files[j].mtime <= files[i].mtime
AllPrivate == \A i \in Index : files[i].private

Order == OneAtWork /\ ActiveKept /\ Ageing /\ AllPrivate
OInv == ~disturbed => Order

-----------------------------------------------------------------------------
LEMMA FileFacts ==
  ASSUME LInv
  PROVE  /\ files \in [Index -> File] /\ Index = 0..BackupCount + 1 /\ BackupCount \in Nat \ {0}
         /\ \A i \in Index : files[i].mtime \in Nat /\ files[i].there \in BOOLEAN
         /\ last \in Nat /\ cutoff \in Nat /\ ~Missing.there /\ Missing.private
         /\ \A p \in Procs : idx[p] \in 0..BackupCount + 2
BY LedgerAssumption, TypeParts DEF LInv, FileTypes, ClockTypes, ProcTypes, Index, File, Times, Missing

\* Who is in a method is alone in one, and the files are as it left them.
LEMMA Alone ==
  ASSUME Order, NEW p \in Procs, pc[p] # "idle"
  PROVE  (\A q \in Procs \ {p} : pc[q] = "idle") /\ Shape(pc[p], idx[p])
BY DEF Order, OneAtWork

\* A step of the only process at work, to a place where the files are as they
\* should be.
LEMMA OrderKept ==
  ASSUME LInv, ActiveKept, NEW p \in Procs, \A q \in Procs \ {p} : pc[q] = "idle",
         NEW step, NEW i, Goto(p, step, i), NEW o, op' = [op EXCEPT ![p] = o],
         Shape(step, i)', Ageing', AllPrivate',
         p = "writer" =>
           /\ initialized'[p] /\ step \notin {"create", "unlink", "purged"} => files'[0].there
           /\ o \in {"record", "record, by age"} /\ step # "ensure" => initialized'[p]
           /\ step \in {"size", "age", "append"} => o \in {"record", "record, by age"},
         p = "purger" =>
           /\ initialized'["writer"] = initialized["writer"]
           /\ step # "idle" => ~initialized["writer"]
           /\ initialized["writer"] /\ files[0].there => files'[0].there
  PROVE  Order'
<1>1. /\ "writer" \in Procs /\ "purger" \in Procs /\ "writer" # "purger" /\ p \in {"writer", "purger"}
      /\ pc \in [Procs -> Steps] /\ op \in [Procs -> Ops] /\ idx \in [Procs -> 0..BackupCount + 2]
  BY Facts, TypeParts DEF LInv, ProcTypes
<1>2. /\ pc'[p] = step /\ idx'[p] = i /\ op'[p] = o
      /\ \A q \in Procs \ {p} : pc'[q] = pc[q] /\ op'[q] = op[q]
  BY <1>1 DEF Goto
<1>3. OneAtWork'
  BY <1>2 DEF OneAtWork, Shape
<1>4. ActiveKept'
  <2>1. CASE p = "writer"
    <3>1. pc["purger"] = "idle" /\ pc'["purger"] = pc["purger"]
      BY <1>1, <1>2, <2>1
    <3> QED
      BY <1>2, <2>1, <3>1 DEF ActiveKept, Recording
  <2>2. CASE p = "purger"
    <3>1. pc'["writer"] = "idle" /\ pc["writer"] = "idle" /\ op'["writer"] = op["writer"]
      BY <1>1, <1>2, <2>2
    <3> QED
      BY <1>2, <2>2, <3>1 DEF ActiveKept, Recording
  <2> QED
    BY <1>1, <2>1, <2>2
<1> QED
  BY <1>3, <1>4 DEF Order

\* Nothing of the files has changed.
LEMMA SameFilesOrder ==
  ASSUME Order, UNCHANGED <<files, last, cutoff>>
  PROVE  /\ Ageing' /\ AllPrivate' /\ ActiveKept
         /\ Whole => Whole' /\ \A h : HoleAt(h) => HoleAt(h)'
         /\ \A n : (Expiring(n) => Expiring(n)') /\ (PurgedUpTo(n) => PurgedUpTo(n)')
BY DEF Order, Ageing, AllPrivate, Whole, HoleAt, Expiring, PurgedUpTo

LEMMA BeginOrder ==
  ASSUME LInv, Order, NEW p \in Procs, NEW m \in Methods(p), Begin(p, m), ~disturbed'
  PROVE  Order'
<1> DEFINE i == IF m = "apply_retention" THEN 1 ELSE 0
<1>1. /\ pc[p] = "idle" /\ Goto(p, FirstStep(m), i) /\ op' = [op EXCEPT ![p] = m]
      /\ ~Meets(p) /\ UNCHANGED <<files, last, cutoff, initialized>>
  BY DEF Begin
<1>2. \A q \in Procs \ {p} : pc[q] = "idle" /\ (p = "purger" => ~initialized[q])
  BY <1>1 DEF Meets
<1>3. Whole /\ Whole'
  <2>1. PICK r \in Procs : Shape(pc[r], idx[r]) /\ pc[r] = "idle"
    BY <1>1, <1>2 DEF Order, OneAtWork
  <2> QED
    BY <1>1, <2>1, SameFilesOrder DEF Shape
<1>4. Shape(FirstStep(m), i)'
  <2>1. m \in {"record", "initialize", "rotate", "apply_retention", "purge", "purge --no-reseed"}
    BY DEF Methods
  <2>2. PurgedUpTo(0)' /\ Expiring(1)'
    BY <1>3, FileFacts, <1>1 DEF PurgedUpTo, Expiring, Whole
  <2>3. CASE m = "apply_retention"
    <3>1. FirstStep(m) = "retain" /\ i = 1
      BY <2>3 DEF FirstStep
    <3>2. Shape("retain", 1)'
      BY <2>2 DEF Shape
    <3> QED
      BY <3>1, <3>2
  <2>4. CASE m \in {"purge", "purge --no-reseed"}
    <3>1. FirstStep(m) = "unlink" /\ i = 0
      BY <2>4 DEF FirstStep
    <3>2. Shape("unlink", 0)'
      BY <2>2 DEF Shape
    <3> QED
      BY <3>1, <3>2
  <2>5. CASE m \in {"record", "initialize", "rotate"}
    <3>1. FirstStep(m) \in {"ensure", "oldest"}
      BY <2>5 DEF FirstStep
    <3> QED
      BY <1>3, <3>1 DEF Shape
  <2> QED
    BY <2>1, <2>3, <2>4, <2>5
<1>5. /\ p = "writer" /\ initialized'[p] /\ FirstStep(m) \notin {"create", "unlink", "purged"} => files'[0].there
      /\ p = "writer" /\ m \in {"record", "record, by age"} /\ FirstStep(m) # "ensure" => initialized'[p]
      /\ FirstStep(m) \notin {"size", "age", "append"}
  BY <1>1 DEF Order, ActiveKept, FirstStep, Methods
<1>6. /\ "writer" \in Procs \ {"purger"}
      /\ p = "purger" => ~initialized["writer"]
  BY <1>2, Facts
<1> HIDE DEF i
<1> QED
  BY <1>1, <1>2, <1>4, <1>5, <1>6, OrderKept, SameFilesOrder DEF Order

\* The active file is created, or gets its mode.
LEMMA ActiveThereOrder ==
  ASSUME LInv, Order, UNCHANGED <<last, cutoff>>,
         files' = [files EXCEPT ![0] = IF @.there THEN [@ EXCEPT !.private = TRUE]
                                       ELSE [Missing EXCEPT !.there = TRUE, !.mtime = last]]
  PROVE  /\ Ageing' /\ AllPrivate' /\ files'[0].there
         /\ (Whole \/ HoleAt(0)) => Whole'
<1>1. /\ 0 \in Index /\ files[0] \in File /\ \A k \in Index \ {0} : files'[k] = files[k]
      /\ files'[0] = IF files[0].there THEN [files[0] EXCEPT !.private = TRUE]
                     ELSE [Missing EXCEPT !.there = TRUE, !.mtime = last]
  BY FileFacts, Facts
<1>2. /\ files'[0].there /\ files'[0].private
      /\ files'[0].mtime = IF files[0].there THEN files[0].mtime ELSE last
  <2>1. CASE files[0].there
    BY <1>1, <2>1 DEF File
  <2>2. CASE ~files[0].there
    <3>1. PICK l : l = last
      OBVIOUS
    <3>2. PICK f : f = [Missing EXCEPT !.there = TRUE, !.mtime = l]
      OBVIOUS
    <3>3. f.there /\ f.private /\ f.mtime = l
      BY <3>2 DEF Missing
    <3>4. files'[0] = f
      BY <1>1, <2>2, <3>1, <3>2
    <3> QED
      BY <2>2, <3>1, <3>3, <3>4
  <2> QED
    BY <2>1, <2>2
<1>3. AllPrivate'
  BY <1>1, <1>2 DEF Order, AllPrivate
<1>4. Ageing'
  BY <1>1, <1>2, FileFacts DEF Order, Ageing
<1>5. (Whole \/ HoleAt(0)) => Whole'
  BY <1>1, <1>2, FileFacts DEF Whole, HoleAt
<1> QED
  BY <1>2, <1>3, <1>4, <1>5

LEMMA EnsureOrder ==
  ASSUME LInv, Order, NEW p \in Procs, EnsureInitialized(p), ~disturbed'
  PROVE  Order'
<1>1. /\ pc[p] = "ensure" /\ (\A q \in Procs \ {p} : pc[q] = "idle") /\ Whole
      /\ initialized' = [initialized EXCEPT ![p] = TRUE] /\ UNCHANGED <<last, cutoff>>
  BY Alone DEF EnsureInitialized, Shape
<1>2. Ageing' /\ AllPrivate' /\ Whole' /\ (files[0].there => files'[0].there)
      /\ (~initialized[p] => files'[0].there)
  <2>1. CASE initialized[p]
    BY <1>1, <2>1, SameFilesOrder DEF EnsureInitialized
  <2>2. CASE ~initialized[p]
    BY <1>1, <2>2, ActiveThereOrder DEF EnsureInitialized
  <2> QED
    BY <2>1, <2>2
<1>3. /\ "writer" \in Procs /\ "purger" \in Procs /\ "writer" # "purger"
      /\ initialized \in [Procs -> BOOLEAN] /\ ActiveKept
      /\ p = "purger" => op[p] # "record"
      /\ p \in {"writer", "purger"}
  BY Facts, FlagTypes, OpSame DEF Order
<1>4. initialized'[p] /\ (p = "purger" => initialized'["writer"] = initialized["writer"])
      /\ (p = "purger" => ~initialized["writer"])
      /\ (p = "writer" => files'[0].there)
  BY <1>1, <1>2, <1>3 DEF ActiveKept
<1>5. CASE op[p] = "record"
  <2>1. Goto(p, "size", 0) /\ op' = [op EXCEPT ![p] = "record"] /\ p = "writer"
    BY <1>3, <1>5, OpSame DEF EnsureInitialized
  <2>2. Shape("size", 0)'
    BY <1>2 DEF Shape
  <2> QED
    BY <1>1, <1>2, <1>3, <1>4, <2>1, <2>2, OrderKept
<1>6. CASE op[p] # "record"
  <2>1. Goto(p, "idle", 0) /\ op' = [op EXCEPT ![p] = "none"]
    BY <1>6 DEF EnsureInitialized, Return
  <2>2. Shape("idle", 0)'
    BY <1>2 DEF Shape
  <2> QED
    BY <1>1, <1>2, <1>3, <1>4, <2>1, <2>2, OrderKept
<1> QED
  BY <1>5, <1>6

\* What holds of the writer in the course of a record or a rotation.
LEMMA WriterAtWork ==
  ASSUME LInv, Order, NEW p \in Procs, pc[p] \notin {"idle", "unlink", "purged", "ensure"}
  PROVE  /\ p = "writer" /\ p # "purger" /\ (\A q \in Procs \ {p} : pc[q] = "idle")
         /\ Shape(pc[p], idx[p]) /\ ActiveKept
         /\ initialized[p] /\ pc[p] # "create" => files[0].there
         /\ Recording(p) => initialized[p]
         /\ pc[p] \in {"size", "age", "append"} => Recording(p) /\ initialized[p]
         /\ op[p] \in {"record", "record, by age"} <=> Recording(p)
<1>1. p = "writer" /\ p # "purger"
  BY OnlyWriter, Facts
<1> QED
  BY <1>1, Alone DEF Order, ActiveKept, Recording

LEMMA CheckOrder ==
  ASSUME LInv, Order, NEW p \in Procs, CheckSize(p) \/ CheckAge(p), ~disturbed'
  PROVE  Order'
<1>1. /\ pc[p] \in {"size", "age"} /\ UNCHANGED <<files, last, cutoff, initialized>>
      /\ \E step \in {"oldest", "age", "append"} : Goto(p, step, 0)
      /\ op' = op \/ op' = [op EXCEPT ![p] = "record, by age"]
  BY DEF CheckSize, CheckAge
<1>2. PICK step \in {"oldest", "age", "append"} : Goto(p, step, 0)
  BY <1>1
<1>3. PICK o \in {"record", "record, by age"} : op' = [op EXCEPT ![p] = o]
  BY <1>1, WriterAtWork, OpSame
<1>4. Shape(step, 0)'
  BY <1>1, WriterAtWork, SameFilesOrder DEF Shape
<1> QED
  BY <1>1, <1>2, <1>3, <1>4, WriterAtWork, SameFilesOrder, OrderKept

LEMMA AppendOrder ==
  ASSUME LInv, Order, NEW p \in Procs, AppendEntry(p), ~disturbed'
  PROVE  Order'
<1>1. /\ pc[p] = "append" /\ Goto(p, "idle", 0) /\ op' = [op EXCEPT ![p] = "none"]
      /\ last' = last + 1 /\ UNCHANGED <<cutoff, initialized>>
      /\ files' = [files EXCEPT ![0] =
                     [there |-> TRUE, private |-> @.there /\ @.private,
                      ids |-> @.ids \union {last + 1}, mtime |-> last + 1]]
  BY DEF AppendEntry, Return
<1>2. /\ 0 \in Index /\ files[0].there /\ \A k \in Index \ {0} : files'[k] = files[k]
      /\ files'[0].there /\ files'[0].mtime = last + 1
      /\ (files'[0].private <=> files[0].there /\ files[0].private)
  BY <1>1, FileFacts, Facts, WriterAtWork
<1>3. AllPrivate'
  BY <1>2 DEF Order, AllPrivate
<1>4. Ageing'
  <2> SUFFICES ASSUME NEW a \in Index, NEW b \in Index, files'[a].there
               PROVE  /\ files'[a].mtime <= last'
                      /\ a < b /\ files'[b].there => files'[b].mtime <= files'[a].mtime
    BY DEF Ageing
  <2>1. \A k \in Index \ {0} : files[k].there => files[k].mtime <= last /\ files[k].mtime <= last + 1
    BY FileFacts DEF Order, Ageing
  <2>2. CASE a = 0
    BY <1>1, <1>2, <2>1, <2>2, FileFacts
  <2>3. CASE a # 0
    <3>1. a < b => b # 0
      BY <2>3, FileFacts
    <3> QED
      BY <1>1, <1>2, <2>1, <2>3, <3>1, FileFacts DEF Order, Ageing
  <2> QED
    BY <2>2, <2>3
<1>5. Shape("idle", 0)'
  BY <1>1, <1>2, WriterAtWork DEF Shape, Whole
<1> QED
  BY <1>1, <1>2, <1>3, <1>4, <1>5, WriterAtWork, OrderKept

LEMMA OldestOrder ==
  ASSUME LInv, Order, NEW p \in Procs, UnlinkOldest(p), ~disturbed'
  PROVE  Order'
<1>1. /\ pc[p] = "oldest" /\ Goto(p, "shift", BackupCount - 1) /\ UNCHANGED <<last, cutoff, op, initialized>>
      /\ files' = [files EXCEPT ![BackupCount] = Missing]
  BY DEF UnlinkOldest
<1>2. /\ BackupCount \in Index \ {0} /\ 0 \in Index /\ ~files'[BackupCount].there /\ files'[BackupCount].private
      /\ \A k \in Index \ {BackupCount} : files'[k] = files[k]
  BY <1>1, FileFacts
<1>3. Whole /\ files'[0] = files[0]
  BY <1>1, <1>2, WriterAtWork DEF Shape
<1>4. HoleAt(BackupCount)'
  BY <1>2, <1>3 DEF Whole, HoleAt
<1>5. Shape("shift", BackupCount - 1)'
  <2>1. BackupCount - 1 + 1 = BackupCount
    BY FileFacts
  <2> QED
    BY <1>4, <2>1 DEF Shape
<1>6. Ageing' /\ AllPrivate'
  BY <1>1, <1>2 DEF Order, Ageing, AllPrivate
<1>7. PICK o : op' = [op EXCEPT ![p] = o] /\ o = op[p]
  BY <1>1, OpSame
<1> QED
  BY <1>1, <1>3, <1>5, <1>6, <1>7, WriterAtWork, OrderKept

\* A rename moves the hole down by one.
LEMMA HoleMoves ==
  ASSUME LInv, Ageing, AllPrivate, NEW i \in 0..BackupCount, HoleAt(i + 1), Rename(i, i + 1),
         UNCHANGED last
  PROVE  /\ HoleAt(i)' /\ Ageing' /\ AllPrivate'
         /\ i > 0 => files'[0] = files[0]
<1>1. i \in Index /\ i + 1 \in Index /\ i # i + 1
  BY FileFacts
<1>2. CASE files[i].there
  <2>1. /\ ~files'[i].there /\ files'[i].private /\ files'[i + 1] = files[i]
        /\ \A k \in Index \ {i, i + 1} : files'[k] = files[k]
    BY <1>1, <1>2, FileFacts DEF Rename
  <2>2. HoleAt(i)'
    <3> SUFFICES ASSUME NEW k \in Index, NEW j \in Index, k < j, files'[j].there, k # i
                 PROVE  files'[k].there
      BY DEF HoleAt
    <3>1. CASE k = i + 1
      BY <1>2, <2>1, <3>1
    <3>2. CASE k # i + 1 /\ j = i + 1
      <4>1. k < i
        BY <1>1, <3>2, FileFacts
      <4> QED
        BY <1>1, <1>2, <2>1, <3>2, <4>1 DEF HoleAt
    <3>3. CASE k # i + 1 /\ j # i + 1
      BY <1>1, <2>1, <3>3 DEF HoleAt
    <3> QED
      BY <3>1, <3>2, <3>3
  <2>3. Ageing'
    <3> SUFFICES ASSUME NEW a \in Index, NEW b \in Index, files'[a].there
                 PROVE  /\ files'[a].mtime <= last'
                        /\ a < b /\ files'[b].there => files'[b].mtime <= files'[a].mtime
      BY DEF Ageing
    <3> DEFINE Old(k) == IF k = i + 1 THEN i ELSE k
    <3>1. \A k \in Index : files'[k].there => Old(k) \in Index /\ files'[k] = files[Old(k)]
      BY <1>1, <2>1
    <3>2. a < b /\ files'[b].there => Old(a) < Old(b)
      BY <1>1, <2>1, FileFacts
    <3>3. \A k, l \in Index : files[k].there => /\ files[k].mtime <= last
                                                /\ k < l /\ files[l].there => files[l].mtime <= files[k].mtime
      BY DEF Ageing
    <3> HIDE DEF Old
    <3> QED
      BY <3>1, <3>2, <3>3
  <2>4. AllPrivate'
    BY <1>1, <2>1 DEF AllPrivate
  <2> QED
    BY <1>1, <2>1, <2>2, <2>3, <2>4, FileFacts
<1>3. CASE ~files[i].there
  <2>1. files' = files
    BY <1>3 DEF Rename
  <2>2. HoleAt(i)'
    <3> SUFFICES ASSUME NEW k \in Index, NEW j \in Index, k < j, files[j].there, k # i
                 PROVE  files[k].there
      BY <2>1 DEF HoleAt
    <3>1. CASE k = i + 1
      <4>1. i < j
        BY <1>1, <3>1, FileFacts
      <4> QED
        BY <1>1, <1>3, <4>1 DEF HoleAt
    <3>2. CASE k # i + 1
      BY <3>2 DEF HoleAt
    <3> QED
      BY <3>1, <3>2
  <2> QED
    BY <2>1, <2>2 DEF Ageing, AllPrivate
<1> QED
  BY <1>2, <1>3

LEMMA ShiftOrder ==
  ASSUME LInv, Order, NEW p \in Procs, Shift(p), ~disturbed'
  PROVE  Order'
<1>1. pc[p] = "shift" /\ UNCHANGED <<last, cutoff, op, initialized>> /\ idx[p] \in 0..BackupCount + 2
  BY FileFacts DEF Shift
<1>2. HoleAt(idx[p] + 1) /\ Ageing /\ AllPrivate
  BY <1>1, WriterAtWork DEF Shape, Order
<1>3. PICK o : op' = [op EXCEPT ![p] = o] /\ o = op[p]
  BY <1>1, OpSame
<1>4. CASE idx[p] = 0
  <2>1. files' = files /\ Goto(p, "move", 0) /\ HoleAt(1)
    BY <1>2, <1>4 DEF Shift
  <2>2. HoleAt(1)'
    BY <2>1 DEF HoleAt
  <2>3. Shape("move", 0)'
    BY <2>2 DEF Shape
  <2> QED
    BY <1>1, <1>3, <2>1, <2>3, SameFilesOrder, WriterAtWork, OrderKept
<1>5. CASE idx[p] # 0
  <2>1. PICK n \in 1..BackupCount : n = idx[p]
    BY <1>1, <1>5, FileFacts DEF LInv, Room
  <2>2. Rename(n, n + 1) /\ Goto(p, "shift", n - 1) /\ n \in 0..BackupCount /\ HoleAt(n + 1)
    BY <1>2, <1>5, <2>1, FileFacts DEF Shift
  <2>3. HoleAt(n)' /\ Ageing' /\ AllPrivate' /\ files'[0] = files[0]
    BY <1>1, <1>2, <2>1, <2>2, HoleMoves
  <2>4. Shape("shift", n - 1)'
    <3>1. n - 1 + 1 = n
      BY <2>1
    <3> QED
      BY <2>3, <3>1 DEF Shape
  <2> QED
    BY <1>1, <1>3, <2>2, <2>3, <2>4, WriterAtWork, OrderKept
<1> QED
  BY <1>4, <1>5

LEMMA MoveOrder ==
  ASSUME LInv, Order, NEW p \in Procs, MoveActive(p), ~disturbed'
  PROVE  Order'
<1>1. /\ pc[p] = "move" /\ Goto(p, "create", 0) /\ UNCHANGED <<last, cutoff, op, initialized>>
      /\ Rename(0, 1) /\ 0 \in 0..BackupCount /\ 0 + 1 = 1
  BY FileFacts DEF MoveActive
<1>2. HoleAt(0 + 1) /\ Ageing /\ AllPrivate
  BY <1>1, WriterAtWork DEF Shape, Order
<1>3. HoleAt(0)' /\ Ageing' /\ AllPrivate'
  BY <1>1, <1>2, HoleMoves
<1>4. Shape("create", 0)'
  BY <1>3 DEF Shape
<1>5. PICK o : op' = [op EXCEPT ![p] = o] /\ o = op[p]
  BY <1>1, OpSame
<1> QED
  BY <1>1, <1>3, <1>4, <1>5, WriterAtWork, OrderKept

LEMMA CreateOrder ==
  ASSUME LInv, Order, NEW p \in Procs, CreateActive(p), ~disturbed'
  PROVE  Order'
<1>1. pc[p] = "create" /\ Goto(p, "retain", 1) /\ UNCHANGED <<last, cutoff, op, initialized>>
  BY DEF CreateActive
<1>2. HoleAt(0)
  BY <1>1, WriterAtWork DEF Shape
<1>3. Ageing' /\ AllPrivate' /\ files'[0].there /\ Whole'
  BY <1>1, <1>2, ActiveThereOrder DEF CreateActive
<1>4. Shape("retain", 1)'
  BY <1>3 DEF Shape, Expiring, Whole
<1>5. PICK o : op' = [op EXCEPT ![p] = o] /\ o = op[p]
  BY <1>1, OpSame
<1> QED
  BY <1>1, <1>3, <1>4, <1>5, WriterAtWork, OrderKept

\* A retention scan has seen what is below n: it deletes n, or goes past it.
LEMMA ScanGoesOn ==
  ASSUME LInv, Order, NEW n \in Index, 0 < n, Expiring(n), files[n].there,
         files' = IF files[n].mtime < cutoff THEN [files EXCEPT ![n] = Missing] ELSE files,
         UNCHANGED <<last, cutoff>>
  PROVE  /\ Expiring(n + 1)' /\ Ageing' /\ AllPrivate' /\ files'[0] = files[0]
<1>1. CASE files[n].mtime < cutoff
  <2>1. /\ files' = [files EXCEPT ![n] = Missing] /\ ~files'[n].there /\ files'[n].private
        /\ \A k \in Index \ {n} : files'[k] = files[k]
    BY <1>1, FileFacts
  <2>2. Expiring(n + 1)'
    <3> SUFFICES ASSUME NEW i \in Index, NEW j \in Index, i < j, files'[j].there, ~files'[i].there
                 PROVE  0 < i /\ i < n + 1 /\ n + 1 <= j /\ files'[j].mtime < cutoff'
      BY DEF Expiring
    <3>1. j # n /\ files'[j] = files[j] /\ files[j].there
      BY <2>1
    <3>2. CASE i = n
      <4>1. files[j].mtime <= files[n].mtime
        BY <3>1, <3>2 DEF Order, Ageing
      <4> QED
        BY <1>1, <3>1, <3>2, <4>1, FileFacts
    <3>3. CASE i # n
      <4>1. 0 < i /\ i < n /\ n <= j /\ files[j].mtime < cutoff
        BY <2>1, <3>1, <3>3 DEF Expiring
      <4> QED
        BY <3>1, <4>1, FileFacts
    <3> QED
      BY <3>2, <3>3
  <2>3. Ageing' /\ AllPrivate'
    BY <2>1 DEF Order, Ageing, AllPrivate
  <2> QED
    BY <2>1, <2>2, <2>3, FileFacts
<1>2. CASE ~(files[n].mtime < cutoff)
  <2>1. files' = files
    BY <1>2
  <2>2. Expiring(n + 1)'
    <3> SUFFICES ASSUME NEW i \in Index, NEW j \in Index, i < j, files[j].there, ~files[i].there
                 PROVE  0 < i /\ i < n + 1 /\ n + 1 <= j /\ files[j].mtime < cutoff
      BY <2>1 DEF Expiring
    <3>1. 0 < i /\ i < n /\ n <= j /\ files[j].mtime < cutoff
      BY DEF Expiring
    <3>2. j # n
      BY <1>2, <3>1
    <3> QED
      BY <3>1, <3>2, FileFacts
  <2> QED
    BY <2>1, <2>2, SameFilesOrder
<1> QED
  BY <1>1, <1>2

\* It ends where a file is missing, and all files it went past are there.
LEMMA ScanEnds ==
  ASSUME LInv, NEW n \in Nat, 0 < n, Expiring(n), ~(n \in Index /\ files[n].there)
  PROVE  Whole
<1> SUFFICES ASSUME NEW i \in Index, NEW j \in Index, i < j, files[j].there, ~files[i].there
             PROVE  FALSE
  BY DEF Whole
<1>1. i < n /\ n <= j
  BY DEF Expiring
<1>2. n \in Index /\ ~files[n].there /\ n < j
  <2>1. n \in Index
    BY <1>1, FileFacts
  <2>2. j # n
    BY <2>1
  <2> QED
    BY <1>1, <2>1, <2>2, FileFacts
<1>3. n < n
  BY <1>2 DEF Expiring
<1> QED
  BY <1>3

LEMMA RetainOrder ==
  ASSUME LInv, Order, NEW p \in Procs, Retain(p), ~disturbed'
  PROVE  Order'
<1>1. pc[p] = "retain" /\ UNCHANGED <<last, cutoff, initialized>>
  BY DEF Retain
<1>2. PICK n \in Nat : n = idx[p]
  BY FileFacts
<1>3. 0 < n /\ Expiring(n)
  BY <1>1, <1>2, WriterAtWork DEF Shape
<1>4. CASE n \in Index /\ files[n].there
  <2>1. /\ files' = IF files[n].mtime < cutoff THEN [files EXCEPT ![n] = Missing] ELSE files
        /\ Goto(p, "retain", n + 1) /\ UNCHANGED op
    BY <1>2, <1>4 DEF Retain
  <2>2. Expiring(n + 1)' /\ Ageing' /\ AllPrivate' /\ files'[0] = files[0]
    BY <1>1, <1>3, <1>4, <2>1, ScanGoesOn
  <2>3. Shape("retain", n + 1)'
    BY <1>3, <2>2 DEF Shape
  <2>4. PICK o : op' = [op EXCEPT ![p] = o] /\ o = op[p]
    BY <2>1, OpSame
  <2> QED
    BY <1>1, <2>1, <2>2, <2>3, <2>4, WriterAtWork, OrderKept
<1>5. CASE ~(n \in Index /\ files[n].there)
  <2>1. AfterRotation(p, FALSE) /\ UNCHANGED files
    BY <1>2, <1>5 DEF Retain
  <2>2. Whole' /\ Ageing' /\ AllPrivate' /\ ActiveKept
    BY <1>1, <1>3, <1>5, <2>1, ScanEnds, SameFilesOrder
  <2>3. CASE Recording(p)
    <3>1. Goto(p, "append", 0) /\ UNCHANGED op
      BY <2>1, <2>3 DEF AfterRotation, Recording
    <3>2. Shape("append", 0)'
      BY <2>2 DEF Shape
    <3>3. PICK o : op' = [op EXCEPT ![p] = o] /\ o = op[p]
      BY <3>1, OpSame
    <3> QED
      BY <1>1, <2>1, <2>2, <2>3, <3>1, <3>2, <3>3, WriterAtWork, OrderKept
  <2>4. CASE ~Recording(p)
    <3>1. Goto(p, "idle", 0) /\ op' = [op EXCEPT ![p] = "none"]
      BY <2>1, <2>4 DEF AfterRotation, Recording, Return
    <3>2. Shape("idle", 0)'
      BY <2>2 DEF Shape
    <3> QED
      BY <1>1, <2>1, <2>2, <3>1, <3>2, WriterAtWork, OrderKept
  <2> QED
    BY <2>3, <2>4
<1> QED
  BY <1>4, <1>5

LEMMA UnlinkOrder ==
  ASSUME LInv, Order, NEW p \in Procs, Unlink(p), ~disturbed'
  PROVE  Order'
<1>1. /\ pc[p] = "unlink" /\ UNCHANGED <<last, cutoff, op, initialized>>
      /\ \A q \in Procs \ {p} : pc[q] = "idle"
  BY Alone DEF Unlink
<1>2. PICK n \in 0..BackupCount + 2 : n = idx[p]
  BY FileFacts
<1>3. PurgedUpTo(n)
  BY <1>1, <1>2, Alone DEF Shape
<1>4. /\ ActiveKept
      /\ p = "purger" => ~initialized["writer"]
      /\ p = "writer" => (op[p] \in {"record", "record, by age"} => initialized[p])
  BY <1>1 DEF Order, ActiveKept, Recording
<1>5. PICK o : op' = [op EXCEPT ![p] = o] /\ o = op[p]
  BY <1>1, OpSame
<1>6. CASE n \in Index /\ (n = 0 \/ files[n].there)
  <2>1. files' = [files EXCEPT ![n] = Missing] /\ Goto(p, "unlink", n + 1)
    BY <1>2, <1>6 DEF Unlink
  <2>2. /\ ~files'[n].there /\ files'[n].private
        /\ \A k \in Index \ {n} : files'[k] = files[k]
    BY <1>6, <2>1, FileFacts
  <2>3. PurgedUpTo(n + 1)'
    <3> SUFFICES ASSUME NEW i \in Index, files'[i].there
                 PROVE  n + 1 <= i /\ \A k \in Index : n + 1 <= k /\ k < i => files'[k].there
      BY DEF PurgedUpTo
    <3>1. i # n /\ n <= i /\ \A k \in Index : n <= k /\ k < i => files[k].there
      BY <1>3, <2>2 DEF PurgedUpTo
    <3> QED
      BY <2>2, <3>1, FileFacts
  <2>4. Ageing' /\ AllPrivate'
    BY <1>1, <2>2 DEF Order, Ageing, AllPrivate
  <2>5. Shape("unlink", n + 1)'
    BY <2>3 DEF Shape
  <2> QED
    BY <1>1, <1>4, <1>5, <2>1, <2>4, <2>5, OrderKept
<1>7. CASE ~(n \in Index /\ (n = 0 \/ files[n].there))
  <2>1. UNCHANGED files /\ Goto(p, "purged", 0)
    BY <1>2, <1>7 DEF Unlink
  <2>2. \A i \in Index : ~files[i].there
    <3> SUFFICES ASSUME NEW i \in Index, files[i].there PROVE FALSE
      OBVIOUS
    <3>1. n <= i /\ \A k \in Index : n <= k /\ k < i => files[k].there
      BY <1>3 DEF PurgedUpTo
    <3>2. n \in Index /\ (n = i \/ n < i)
      BY <3>1, FileFacts
    <3> QED
      BY <1>7, <3>1, <3>2, FileFacts
  <2>3. Shape("purged", 0)'
    BY <2>1, <2>2 DEF Shape
  <2> QED
    BY <1>1, <1>4, <1>5, <2>1, <2>3, SameFilesOrder, OrderKept
<1> QED
  BY <1>6, <1>7

LEMMA PurgedOrder ==
  ASSUME LInv, Order, NEW p \in Procs, Purged(p), ~disturbed'
  PROVE  Order'
<1>1. /\ pc[p] = "purged" /\ UNCHANGED <<files, last, cutoff>>
      /\ initialized' = [initialized EXCEPT ![p] = FALSE]
      /\ \A q \in Procs \ {p} : pc[q] = "idle"
      /\ \A i \in Index : ~files[i].there
  BY Alone DEF Purged, Shape
<1>2. /\ "writer" \in Procs /\ "purger" \in Procs /\ "writer" # "purger"
      /\ initialized \in [Procs -> BOOLEAN] /\ ActiveKept
  BY Facts, FlagTypes DEF Order
<1>3. /\ p = "purger" => ~initialized["writer"] /\ initialized'["writer"] = initialized["writer"]
      /\ ~initialized'[p]
  BY <1>1, <1>2 DEF ActiveKept
<1>4. Whole' /\ ~files[0].there
  BY <1>1, Facts DEF Whole
<1>5. CASE p = "purger" /\ op[p] = "purge"
  <2>1. Goto(p, "ensure", 0) /\ op' = [op EXCEPT ![p] = "purge"]
    BY <1>5, OpSame DEF Purged
  <2>2. Shape("ensure", 0)'
    BY <1>4 DEF Shape
  <2> QED
    BY <1>1, <1>2, <1>3, <1>4, <1>5, <2>1, <2>2, SameFilesOrder, OrderKept
<1>6. CASE ~(p = "purger" /\ op[p] = "purge")
  <2>1. Goto(p, "idle", 0) /\ op' = [op EXCEPT ![p] = "none"]
    BY <1>6 DEF Purged, Return
  <2>2. Shape("idle", 0)'
    BY <1>4 DEF Shape
  <2> QED
    BY <1>1, <1>2, <1>3, <1>4, <2>1, <2>2, SameFilesOrder, OrderKept
<1> QED
  BY <1>5, <1>6

\* A process that dies between methods, the other perhaps at work.
LEMMA CrashOrder ==
  ASSUME LInv, Order, NEW p \in Procs, Crash(p), ~disturbed'
  PROVE  Order'
<1>1. /\ pc[p] = "idle" /\ Goto(p, "idle", 0) /\ op' = [op EXCEPT ![p] = "none"]
      /\ initialized' = [initialized EXCEPT ![p] = FALSE] /\ UNCHANGED <<files, last, cutoff>>
  BY DEF Crash, Return
<1>2. /\ "writer" \in Procs /\ "purger" \in Procs /\ initialized \in [Procs -> BOOLEAN]
      /\ pc \in [Procs -> Steps] /\ op \in [Procs -> Ops] /\ idx \in [Procs -> 0..BackupCount + 2]
  BY Facts, TypeParts DEF LInv, ProcTypes
<1>3. /\ pc' = pc /\ idx'[p] = 0
      /\ \A q \in Procs \ {p} : idx'[q] = idx[q]
  BY <1>1, <1>2 DEF Goto
<1>4. \A q \in Procs : /\ (initialized'[q] => initialized[q]) /\ (q # p => initialized'[q] = initialized[q])
                       /\ op'[q] = (IF q = p THEN "none" ELSE op[q])
  BY <1>1, <1>2
<1>5. OneAtWork'
  <2>1. PICK r \in Procs : (\A q \in Procs \ {r} : pc[q] = "idle") /\ Shape(pc[r], idx[r])
    BY DEF Order, OneAtWork
  <2>2. \A n \in {idx[r], idx'[r]} : Shape(pc[r], n)
    <3>1. CASE r = p
      BY <1>1, <2>1, <3>1 DEF Shape
    <3>2. CASE r # p
      BY <1>3, <2>1, <3>2
    <3> QED
      BY <3>1, <3>2
  <2>3. \A step, n : Shape(step, n) => Shape(step, n)'
    BY <1>1 DEF Shape, Whole, HoleAt, Expiring, PurgedUpTo
  <2>4. Shape(pc[r], idx[r])'
    BY <1>3, <2>2, <2>3
  <2> QED
    BY <1>3, <2>1, <2>4 DEF OneAtWork
<1>6. ActiveKept'
  BY <1>1, <1>2, <1>3, <1>4 DEF Order, ActiveKept, Recording
<1> QED
  BY <1>1, <1>5, <1>6, SameFilesOrder DEF Order

LEMMA StepOrder ==
  ASSUME LInv, OInv, NEW p \in Procs, Step(p), ~disturbed'
  PROVE  Order'
<1>1. ~disturbed /\ ~CallFails(p) /\ ~RetainPassesOver(p)
  <2>1. ~CallFails(p) /\ ~RetainPassesOver(p)
    BY DEF CallFails, RetainPassesOver
  <2>2. (\E m \in Methods(p) : Begin(p, m)) \/ Crash(p) => ~disturbed
    BY DEF Begin, Crash
  <2>3. EnsureInitialized(p) \/ CheckSize(p) \/ CheckAge(p) \/ AppendEntry(p) => ~disturbed
    BY DEF EnsureInitialized, CheckSize, CheckAge, AppendEntry
  <2>4. UnlinkOldest(p) \/ Shift(p) \/ MoveActive(p) \/ CreateActive(p) => ~disturbed
    BY DEF UnlinkOldest, Shift, MoveActive, CreateActive
  <2>5. Retain(p) \/ Unlink(p) \/ Purged(p) => ~disturbed
    BY DEF Retain, Unlink, Purged
  <2> QED
    BY <2>1, <2>2, <2>3, <2>4, <2>5 DEF Step
<1>2. Order
  BY <1>1 DEF OInv
<1> QED
  BY <1>1, <1>2, BeginOrder, EnsureOrder, CheckOrder, AppendOrder, OldestOrder, ShiftOrder,
     MoveOrder, CreateOrder, RetainOrder, UnlinkOrder, PurgedOrder, CrashOrder DEF Step

\* As time passes more of the archives expire.
LEMMA TimeOrder ==
  ASSUME LInv, Order, TimePasses
  PROVE  Order'
<1>1. /\ cutoff' = cutoff + 1
      /\ UNCHANGED <<files, last, pc, op, idx, initialized>>
  BY DEF TimePasses, procVars
<1>2. \A n : Expiring(n) => Expiring(n)'
  BY <1>1, FileFacts DEF Expiring
<1>3. \A step, n : Shape(step, n) => Shape(step, n)'
  BY <1>1, <1>2 DEF Shape, Whole, HoleAt, PurgedUpTo
<1>4. OneAtWork'
  BY <1>1, <1>3 DEF Order, OneAtWork
<1> QED
  BY <1>1, <1>4 DEF Order, ActiveKept, Recording, Ageing, AllPrivate

LEMMA NextOrder == LInv /\ OInv /\ [LedgerNext]_vars => OInv'
<1> SUFFICES ASSUME LInv, OInv, [LedgerNext]_vars, ~disturbed' PROVE Order'
  BY DEF OInv
<1>1. CASE TimePasses
  BY <1>1, TimeOrder DEF OInv, TimePasses
<1>2. CASE \E p \in Procs : Step(p)
  BY <1>2, StepOrder
<1>3. CASE UNCHANGED vars
  <2>1. UNCHANGED <<files, last, cutoff, pc, op, idx, initialized, disturbed>>
    BY <1>3 DEF vars, procVars
  <2>2. \A step, n : Shape(step, n) => Shape(step, n)'
    BY <2>1 DEF Shape, Whole, HoleAt, Expiring, PurgedUpTo
  <2>3. Order
    BY <2>1 DEF OInv
  <2>4. OneAtWork'
    BY <2>1, <2>2, <2>3 DEF Order, OneAtWork
  <2> QED
    BY <2>1, <2>3, <2>4 DEF Order, ActiveKept, Recording, Ageing, AllPrivate
<1> QED
  BY <1>1, <1>2, <1>3 DEF LedgerNext

LEMMA InitOrder == LedgerInit => OInv
<1> SUFFICES ASSUME LedgerInit PROVE Order
  BY DEF OInv
<1>1. \A i \in Index : ~files[i].there /\ files[i].private
  BY DEF LedgerInit, Missing
<1>2. OneAtWork
  BY <1>1, Facts DEF LedgerInit, OneAtWork, Shape, Whole
<1>3. ActiveKept
  BY Facts DEF LedgerInit, ActiveKept, Recording
<1> QED
  BY <1>1, <1>2, <1>3 DEF Order, Ageing, AllPrivate

\* Until a call fails, a process dies half-way or the command line meets a
\* running writer, every method leaves contiguous archives, on which purge and
\* retention rely, and every file has mode 0600.
THEOREM OrderOnDisk == LedgerSpec => []Orderly
<1>1. LInv /\ OInv => Orderly
  <2> SUFFICES ASSUME LInv, OInv, ~disturbed
               PROVE  ((\A p \in Procs : pc[p] = "idle") => Contiguous) /\ AllPrivate
    BY DEF Orderly, AllPrivate
  <2>1. ASSUME \A p \in Procs : pc[p] = "idle" PROVE Contiguous
    BY <2>1 DEF OInv, Order, OneAtWork, Shape, Whole, Contiguous
  <2> QED
    BY <2>1 DEF OInv, Order
<1>2. LedgerSpec => []OInv
  BY InitOrder, NextOrder, LedgerInvariant, PTL DEF LedgerSpec
<1> QED
  BY <1>1, <1>2, LedgerInvariant, PTL
=============================================================================
