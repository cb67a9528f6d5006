---------------------------- MODULE BackupRotation ----------------------------
(***************************************************************************)
(* The hourly backup of the job database: a periodic task hands copying    *)
(* and pruning to threads, which outlive its cancellation; a crash leaves  *)
(* the file as far as it was written.                                      *)
(*                                                                         *)
(* A backup is named by the tick that wrote it.  Ticks are an hour or more *)
(* apart and the clock does not go back, so no two share a name.           *)
(***************************************************************************)
EXTENDS Naturals, FiniteSets

CONSTANTS
  KeepN,    \* backup_keep_n, at least 1
  MaxTicks  \* bound: backups attempted

ASSUME BackupAssumption == KeepN \in Nat \ {0} /\ MaxTicks \in Nat

VARIABLES
  now,          \* the last tick
  good,         \* complete backups on disk
  partial,      \* files whose copy is under way, failed or was cut off
  loop,         \* the periodic task: off, sleeping, or awaiting its thread
  thread,       \* what the executor's thread does
  last,         \* the latest backup that was completed, 0 for none
  completed,    \* how many were
  interrupted   \* files a kill, a shutdown or a failing unlink left partial

history == <<last, completed, interrupted>>
backupVars == <<now, good, partial, loop, thread, history>>

files == good \cup partial

BackupInit ==
  /\ now = 0 /\ good = {} /\ partial = {}
  /\ loop = "off" /\ thread = "idle"
  /\ last = 0 /\ completed = 0 /\ interrupted = 0

\* The executor is shut down, its threads joined, before the process ends.
Start ==
  /\ loop = "off" /\ thread = "idle"
  /\ loop' = "sleeping"
  /\ UNCHANGED <<now, good, partial, thread, history>>

Tick ==
  /\ loop = "sleeping" /\ now < MaxTicks
  /\ now' = now + 1
  /\ \/ partial' = partial \cup {now'} /\ loop' = "waiting" /\ thread' = "copying"
     \/ UNCHANGED <<partial, loop, thread>>  \* no database: nothing is created
  /\ UNCHANGED <<good, history>>

\* Without its task the thread's copy is not followed by a pruning.
Copied ==
  /\ thread = "copying"
  /\ good' = good \cup {now} /\ partial' = partial \ {now}
  /\ thread' = IF loop = "waiting" THEN "pruning" ELSE "idle"
  /\ last' = now /\ completed' = completed + 1
  /\ UNCHANGED <<now, loop, interrupted>>

\* except Exception removes the file; a cancelled task does not get there.
CopyFails ==
  /\ thread = "copying"
  /\ thread' = "idle"
  /\ loop' = IF loop = "waiting" THEN "sleeping" ELSE loop
  /\ \/ loop = "waiting" /\ partial' = partial \ {now} /\ UNCHANGED interrupted
     \/ interrupted' = interrupted + 1 /\ UNCHANGED partial
  /\ UNCHANGED <<now, good, last, completed>>

Newer(t) == {u \in files : u > t}

\* Defect: the files are sorted the other way round.
Surplus_Newest == {t \in files : Cardinality({u \in files : u < t}) >= KeepN}

\* Defect: one file too many goes.
Surplus_OneMore == {t \in files : Cardinality(Newer(t)) >= KeepN - 1 /\ Newer(t) # {}}

\* _prune_old_backups: all but the KeepN newest, complete or not.
Surplus == {t \in files : Cardinality(Newer(t)) >= KeepN}

\* What cannot be unlinked stays.
Pruned ==
  /\ thread = "pruning"
  /\ \E gone \in SUBSET Surplus : good' = good \ gone /\ partial' = partial \ gone
  /\ thread' = "idle"
  /\ loop' = IF loop = "waiting" THEN "sleeping" ELSE loop
  /\ UNCHANGED <<now, history>>

\* PeriodicTask.stop: cancels the task, not its thread.
Stop ==
  /\ loop # "off"
  /\ loop' = "off"
  /\ UNCHANGED <<now, good, partial, thread, history>>

BackupCrash ==
  /\ loop # "off" \/ thread # "idle"
  /\ loop' = "off" /\ thread' = "idle"
  /\ interrupted' = IF thread = "copying" THEN interrupted + 1 ELSE interrupted
  /\ UNCHANGED <<now, good, partial, last, completed>>

BackupNext == Start \/ Tick \/ Copied \/ CopyFails \/ Pruned \/ Stop \/ BackupCrash

BackupSpec == BackupInit /\ [][BackupNext]_backupVars

-----------------------------------------------------------------------------

BackupTypeOK ==
  /\ now \in Nat /\ good \subseteq 1..now /\ partial \subseteq 1..now
  /\ loop \in {"off", "sleeping", "waiting"} /\ thread \in {"idle", "copying", "pruning"}
  /\ last \in 0..now /\ completed \in Nat /\ interrupted \in Nat

\* Through failing copies, shutdowns and crashes in the middle of one, and whatever
\* partial files they leave to be counted: the latest backup that was completed is
\* never the one the pruning removes (backup.py:62).
LatestBackupSurvives == completed > 0 => last \in good

\* As many complete backups as configured are at hand, once that many were made;
\* every one that is missing is the trace of a copy cut off (backup.py:95).
DepthHolds ==
  \/ Cardinality(good) + interrupted >= KeepN
  \/ Cardinality(good) + interrupted >= completed
=============================================================================
