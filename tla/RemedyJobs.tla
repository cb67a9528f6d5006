----------------------------- MODULE RemedyJobs -----------------------------
(***************************************************************************)
(* The job core of remedy-server: the upload, DELETE and shutdown paths of *)
(* the HTTP process, the SQLite job store, the in-process worker pool with *)
(* the engine threads it awaits, the retention pruner, and restart.        *)
(*                                                                         *)
(* Rows of the store and files under job_dir survive a crash; the queue,   *)
(* the worker tasks, the request handlers and the engine threads do not.   *)
(* Every await is an interleaving point.  JobStore methods never suspend   *)
(* in CPython (their lock is never contended), so NonSuspending = TRUE     *)
(* restricts the interleavings to the ones the event loop can produce.     *)
(***************************************************************************)
EXTENDS Naturals, FiniteSets, Sequences

CONSTANTS
  Jobs,          \* job ids (uuid4().hex: an id is used once)
  Workers,       \* worker tasks, WORKER_CONCURRENCY of them
  NoJob,         \* what a worker holds between two jobs
  Slots,         \* threads of the default executor behind asyncio.to_thread
  MaxCrashes,    \* bound: process kills
  MaxFaults,     \* bound: store or filesystem calls that raise
  NonSuspending  \* TRUE: coroutines interleave only where they really suspend

ASSUME JobsAssumption ==
  /\ IsFiniteSet(Jobs)
  /\ NoJob \notin Jobs
  /\ Slots \in Nat \ {0}
  /\ MaxCrashes \in Nat
  /\ MaxFaults \in Nat
  /\ NonSuspending \in BOOLEAN

VARIABLES
  phase,     \* the process: "down", "booting", "up" or "stopping"
  status,    \* row: "none" when there is no row
  input,     \* row: which file input_path names
  meta,      \* rows whose metadata_json is the one the client asked for
  staged,    \* _staging-* files on disk
  disk,      \* what job_dir/<id> holds; {} when the directory does not exist
  upload,    \* progress of the POST that creates the job
  del,       \* progress of a DELETE of the job
  prunable,  \* candidates the pruner's current tick has still to visit
  pruning,   \* job whose row the pruner deleted and whose directory is next
  queue,     \* JobWorker.queue
  wpc,       \* where each worker task is
  wjob,      \* the id each worker task holds
  snap,      \* the Job snapshot each worker task passes to the runner
  tstage,    \* which engine call the job's thread runs
  tstate,    \* progress of the job's thread
  born,      \* history: ids that have had a row
  runs,      \* history: how often the runner was entered for the job
  deleted,   \* history: jobs whose DELETE was answered
  raced,     \* history: rows removed while the job ran, removals cut short or incomplete
  crashes,   \* crashes so far
  faults     \* faults so far

rowVars    == <<status, input, meta, born>>
fileVars   == <<staged, disk>>
webVars    == <<upload, del, deleted>>
prunerVars == <<prunable, pruning>>
workerVars == <<queue, wpc, wjob, snap, runs>>
threadVars == <<tstage, tstate>>
faultVars  == <<crashes, faults>>
vars == <<phase, rowVars, fileVars, webVars, prunerVars, workerVars,
          threadVars, raced, faultVars>>

-----------------------------------------------------------------------------
(* Vocabulary.                                                             *)

Terminal == {"done", "failed"}
Status   == {"none", "queued", "running"} \cup Terminal
Artifact == {"dir", "input", "output", "report"}
Stages   == {"fixing", "accepting", "reporting"}
Timed    == {"fixing", "accepting"}      \* the calls under asyncio.wait_for
Live     == {"busy", "written"}          \* the thread occupies an executor slot

\* Handler steps taken between two suspensions.
Segment  == {"got", "loaded", "running", "finishing", "failing"}
InFlight == {"staged", "created", "moved", "updated", "enqueued"}

\* Defect: a report that could not be written does not fail the job.
Writes_ReportOptional(stage) == IF stage = "fixing" THEN {"dir", "output"} ELSE {}

\* What a call leaves in the job directory; each makes the directory if needed.
Writes(stage) == CASE stage = "fixing"    -> {"dir", "output"}
                   [] stage = "reporting" -> {"dir", "report"}
                   [] OTHER               -> {}

\* Defect: a stale copy of the row is written back after its removal.
SetStatus_Upsert(j, s) == status' = [status EXCEPT ![j] = s]

\* JobStore.update: a row that is not there is left alone.
SetStatus(j, s) ==
  status' = IF status[j] = "none" THEN status ELSE [status EXCEPT ![j] = s]

InQueue(j)  == \E i \in DOMAIN queue : queue[i] = j
Attached(j) == \E w \in Workers : wjob[w] = j /\ wpc[w] \in Stages
Executing(j) ==                          \* the runner may still write files
  \/ \E w \in Workers : wjob[w] = j /\ wpc[w] \in {"loaded", "running"} \cup Stages
  \/ tstate[j] \in Live
LiveThreads == {j \in Jobs : tstate[j] \in Live}

MidSegment ==
  \/ \E j \in Jobs : upload[j] \in InFlight \/ del[j] # "idle"
  \/ \E w \in Workers : wpc[w] \in Segment
  \/ prunable # {}
  \/ pruning # NoJob

\* A coroutine resumes only when no other one is between two suspensions.
LoopFree == NonSuspending => ~MidSegment

\* Every order in which SELECT may return the rows of S.
Arrangements(S) ==
  {q \in [1..Cardinality(S) -> S] :
      /\ \A i, k \in 1..Cardinality(S) : q[i] = q[k] => i = k
      /\ \A j \in S : \E i \in 1..Cardinality(S) : q[i] = j}

Fault == faults < MaxFaults /\ faults' = faults + 1 /\ UNCHANGED crashes

Init ==
  /\ phase = "down"
  /\ status = [j \in Jobs |-> "none"]
  /\ input = [j \in Jobs |-> "none"]
  /\ meta = {}
  /\ staged = {}
  /\ disk = [j \in Jobs |-> {}]
  /\ upload = [j \in Jobs |-> "idle"]
  /\ del = [j \in Jobs |-> "idle"]
  /\ prunable = {}
  /\ pruning = NoJob
  /\ queue = <<>>
  /\ wpc = [w \in Workers |-> "off"]
  /\ wjob = [w \in Workers |-> NoJob]
  /\ snap = [w \in Workers |-> [input |-> "none", meta |-> FALSE]]
  /\ tstage = [j \in Jobs |-> "none"]
  /\ tstate = [j \in Jobs |-> "none"]
  /\ born = {}
  /\ runs = [j \in Jobs |-> 0]
  /\ deleted = {}
  /\ raced = {}
  /\ crashes = 0
  /\ faults = 0

-----------------------------------------------------------------------------
(* The process: lifespan startup, graceful shutdown, kill.                 *)

\* Defects: a restart runs interrupted jobs again; it leaves running rows alone.
AfterRestart_Requeue(s)   == IF s = "running" THEN "queued" ELSE s
AfterRestart_Keep(s)      == s

\* UPDATE jobs SET status='failed', stage='interrupted' WHERE status='running'.
AfterRestart(s) == IF s = "running" THEN "failed" ELSE s

\* Defect: queued rows are not recovered.
Recoverable_None == {}

\* list_by_statuses({"queued"}).
Recoverable == {j \in Jobs : status[j] = "queued"}

\* Startup, first half: rows a previous process left running become failed.
FailRunningJobs ==
  /\ phase = "down"
  /\ phase' = "booting"
  /\ status' = [j \in Jobs |-> AfterRestart(status[j])]
  /\ UNCHANGED <<input, meta, born, fileVars, webVars, prunerVars, workerVars,
                 threadVars, raced, faultVars>>

\* Startup, second half: every queued row is enqueued, then the tasks start.
RequeueAndStart ==
  /\ phase = "booting"
  /\ phase' = "up"
  /\ queue' \in Arrangements(Recoverable)
  /\ wpc' = [w \in Workers |-> "idle"]
  /\ UNCHANGED <<rowVars, fileVars, webVars, prunerVars, wjob, snap, runs,
                 threadVars, raced, faultVars>>

\* SIGTERM: uvicorn lets requests end, then the lifespan cancels the pruner
\* and the worker tasks.  Cancellation lands only where a task is suspended.
\* A thread that already runs cannot be cancelled.
Shutdown ==
  /\ phase = "up"
  /\ ~MidSegment
  /\ phase' = "stopping"
  /\ queue' = <<>>
  /\ wpc' = [w \in Workers |-> "off"]
  /\ wjob' = [w \in Workers |-> NoJob]
  /\ tstate' = [j \in Jobs |-> IF tstate[j] \in Live THEN tstate[j] ELSE "none"]
  /\ UNCHANGED <<rowVars, fileVars, webVars, prunerVars, snap, runs, tstage,
                 raced, faultVars>>

\* The interpreter joins the executor's threads before it exits.
Exit ==
  /\ phase = "stopping"
  /\ LiveThreads = {}
  /\ phase' = "down"
  /\ UNCHANGED <<rowVars, fileVars, webVars, prunerVars, workerVars,
                 threadVars, raced, faultVars>>

\* SIGKILL, OOM or power loss: memory is lost, rows and files stay.
Crash ==
  /\ phase # "down"
  /\ crashes < MaxCrashes
  /\ crashes' = crashes + 1
  /\ phase' = "down"
  /\ upload' = [j \in Jobs |-> IF upload[j] \in InFlight THEN "aborted" ELSE upload[j]]
  /\ del' = [j \in Jobs |-> "idle"]
  /\ prunable' = {}
  /\ pruning' = NoJob
  /\ queue' = <<>>
  /\ wpc' = [w \in Workers |-> "off"]
  /\ wjob' = [w \in Workers |-> NoJob]
  /\ tstate' = [j \in Jobs |-> "none"]
  /\ raced' = raced \cup {j \in Jobs : del[j] = "rowgone" \/ pruning = j}
  /\ UNCHANGED <<rowVars, fileVars, deleted, snap, runs, tstage, faults>>

-----------------------------------------------------------------------------
(* POST /v1/remediate and /v1/convert: _stage_upload, then                 *)
(* _finalize_upload_and_enqueue, one action per store or file call.        *)

StageUpload(j) ==
  /\ phase = "up"
  /\ upload[j] = "idle"
  /\ LoopFree
  /\ upload' = [upload EXCEPT ![j] = "staged"]
  /\ staged' = staged \cup {j}
  /\ UNCHANGED <<phase, rowVars, disk, del, deleted, prunerVars, workerVars,
                 threadVars, raced, faultVars>>

\* store.create: the row is queued at once, with the staging path and "{}".
CreateRow(j) ==
  /\ phase = "up"
  /\ upload[j] = "staged"
  /\ upload' = [upload EXCEPT ![j] = "created"]
  /\ status' = [status EXCEPT ![j] = "queued"]
  /\ input' = [input EXCEPT ![j] = "staging"]
  /\ born' = born \cup {j}
  /\ UNCHANGED <<phase, meta, fileVars, del, deleted, prunerVars, workerVars,
                 threadVars, raced, faultVars>>

\* mkdir(parents) and staging.rename(final_input).
MoveInput(j) ==
  /\ phase = "up"
  /\ upload[j] = "created"
  /\ upload' = [upload EXCEPT ![j] = "moved"]
  /\ staged' = staged \ {j}
  /\ disk' = [disk EXCEPT ![j] = @ \cup {"dir", "input"}]
  /\ UNCHANGED <<phase, rowVars, del, deleted, prunerVars, workerVars,
                 threadVars, raced, faultVars>>

\* Defect: the metadata is left to an update that follows the enqueue.
Finalise_PathOnly(j) == input' = [input EXCEPT ![j] = "final"] /\ UNCHANGED meta

\* store.update(input_path, stage, metadata_json): one UPDATE for all of it.
Finalise(j) == input' = [input EXCEPT ![j] = "final"] /\ meta' = meta \cup {j}

UpdateRow(j) ==
  /\ phase = "up"
  /\ upload[j] = "moved"
  /\ upload' = [upload EXCEPT ![j] = "updated"]
  /\ IF status[j] = "none" THEN UNCHANGED <<input, meta>> ELSE Finalise(j)
  /\ UNCHANGED <<phase, status, born, fileVars, del, deleted, prunerVars,
                 workerVars, threadVars, raced, faultVars>>

\* Defect: a retried enqueue puts the id twice.
Put_Twice(q, j) == Append(Append(q, j), j)

Put(q, j) == Append(q, j)

Enqueue(j) ==
  /\ phase = "up"
  /\ upload[j] = "updated"
  /\ upload' = [upload EXCEPT ![j] = "enqueued"]
  /\ queue' = Put(queue, j)
  /\ UNCHANGED <<phase, rowVars, fileVars, del, deleted, prunerVars, wpc, wjob,
                 snap, runs, threadVars, raced, faultVars>>

\* The 202 answer: from here on the client knows the id.
Acknowledge(j) ==
  /\ phase = "up"
  /\ upload[j] = "enqueued"
  /\ upload' = [upload EXCEPT ![j] = "acked"]
  /\ UNCHANGED <<phase, rowVars, fileVars, del, deleted, prunerVars, workerVars,
                 threadVars, raced, faultVars>>

\* A store or file call of the handler raises: the client gets a 500 and
\* what was done so far stays.
UploadFault(j) ==
  /\ phase = "up"
  /\ upload[j] \in {"staged", "created", "moved", "enqueued"}
  /\ Fault
  /\ upload' = [upload EXCEPT ![j] = "aborted"]
  /\ UNCHANGED <<phase, rowVars, fileVars, del, deleted, prunerVars, workerVars,
                 threadVars, raced>>

-----------------------------------------------------------------------------
(* DELETE /v1/jobs/{id}, for a client that knows the id.                   *)

DeleteCheck(j) ==
  /\ phase = "up"
  /\ upload[j] = "acked"
  /\ del[j] = "idle"
  /\ status[j] # "none"                       \* otherwise 404
  /\ LoopFree
  /\ del' = [del EXCEPT ![j] = "checked"]
  /\ UNCHANGED <<phase, rowVars, fileVars, upload, deleted, prunerVars,
                 workerVars, threadVars, raced, faultVars>>

\* A removal of the row of a job that still runs is remembered in raced.
RemoveRow(j) ==
  /\ status' = [status EXCEPT ![j] = "none"]
  /\ raced' = IF Executing(j) THEN raced \cup {j} ELSE raced
  /\ UNCHANGED <<input, meta, born>>

\* Defect: the report directory is kept.
Rmtree_KeepReport(j) ==
  disk' = [disk EXCEPT ![j] = @ \ {"input", "output"}] /\ UNCHANGED <<raced, faultVars>>

\* rmtree(ignore_errors=True): whatever cannot be removed stays, with the
\* directory that holds it, and nobody is told; raced remembers it.
Rmtree(j) ==
  \/ disk' = [disk EXCEPT ![j] = {}] /\ UNCHANGED <<raced, faultVars>>
  \/ /\ Fault
     /\ \E kept \in SUBSET disk[j] : "dir" \in kept /\ disk' = [disk EXCEPT ![j] = kept]
     /\ raced' = raced \cup {j}

DeleteRow(j) ==
  /\ phase = "up"
  /\ del[j] = "checked"
  /\ del' = [del EXCEPT ![j] = "rowgone"]
  /\ RemoveRow(j)
  /\ UNCHANGED <<phase, fileVars, upload, deleted, prunerVars, workerVars,
                 threadVars, faultVars>>

\* rmtree(workdir, ignore_errors=True), then the answer.
DeleteFiles(j) ==
  /\ phase = "up"
  /\ del[j] = "rowgone"
  /\ del' = [del EXCEPT ![j] = "idle"]
  /\ Rmtree(j)
  /\ deleted' = deleted \cup {j}
  /\ UNCHANGED <<phase, rowVars, staged, upload, prunerVars, workerVars, threadVars>>

-----------------------------------------------------------------------------
(* prune_expired_jobs, one tick at a time.                                 *)

\* list_older_than, then the terminal rows of that snapshot.  Which rows are
\* older than the retention period is the clock's choice; a row is never that
\* old while the request that creates it is still being served.
PruneList ==
  /\ phase = "up"
  /\ prunable = {} /\ pruning = NoJob
  /\ LoopFree
  /\ prunable' \in SUBSET {j \in Jobs : status[j] \in Terminal /\ upload[j] \notin InFlight}
  /\ prunable' # {}
  /\ UNCHANGED <<phase, rowVars, fileVars, webVars, pruning, workerVars,
                 threadVars, raced, faultVars>>

PruneRow(j) ==
  /\ phase = "up"
  /\ pruning = NoJob
  /\ j \in prunable
  /\ prunable' = prunable \ {j}
  /\ pruning' = j
  /\ RemoveRow(j)
  /\ UNCHANGED <<phase, fileVars, webVars, workerVars, threadVars, faultVars>>

PruneFiles ==
  /\ phase = "up"
  /\ pruning # NoJob
  /\ pruning' = NoJob
  /\ Rmtree(pruning)
  /\ UNCHANGED <<phase, rowVars, staged, webVars, prunable, workerVars, threadVars>>

\* store.delete raises: logged, and the tick goes on with the next row.
PruneFault(j) ==
  /\ phase = "up"
  /\ pruning = NoJob
  /\ j \in prunable
  /\ Fault
  /\ prunable' = prunable \ {j}
  /\ UNCHANGED <<phase, rowVars, fileVars, webVars, pruning, workerVars,
                 threadVars, raced>>

-----------------------------------------------------------------------------
(* JobWorker._loop and the runner it awaits (run_job -> _remediate_pdf on  *)
(* its default path; the other kinds have the same shape).                 *)

Goto(w, pc) == wpc' = [wpc EXCEPT ![w] = pc]
Release(w, pc) == Goto(w, pc) /\ wjob' = [wjob EXCEPT ![w] = NoJob]

Dequeue(w) ==
  /\ phase = "up"
  /\ wpc[w] = "idle"
  /\ queue # <<>>
  /\ LoopFree
  /\ Goto(w, "got")
  /\ wjob' = [wjob EXCEPT ![w] = Head(queue)]
  /\ queue' = Tail(queue)
  /\ UNCHANGED <<phase, rowVars, fileVars, webVars, prunerVars, snap, runs,
                 threadVars, raced, faultVars>>

\* store.get: no row, nothing to do.
SkipMissing(w) ==
  /\ wpc[w] = "got"
  /\ status[wjob[w]] = "none"
  /\ Release(w, "idle")
  /\ UNCHANGED <<phase, rowVars, fileVars, webVars, prunerVars, queue, snap,
                 runs, threadVars, raced, faultVars>>

LoadJob(w) ==
  /\ wpc[w] = "got"
  /\ status[wjob[w]] # "none"
  /\ Goto(w, "loaded")
  /\ snap' = [snap EXCEPT ![w] = [input |-> input[wjob[w]], meta |-> wjob[w] \in meta]]
  /\ UNCHANGED <<phase, rowVars, fileVars, webVars, prunerVars, queue, wjob,
                 runs, threadVars, raced, faultVars>>

\* store.update(status="running"), then the runner is entered.
MarkRunning(w) ==
  /\ wpc[w] = "loaded"
  /\ Goto(w, "running")
  /\ SetStatus(wjob[w], "running")
  /\ runs' = [runs EXCEPT ![wjob[w]] = @ + 1]
  /\ UNCHANGED <<phase, input, meta, born, fileVars, webVars, prunerVars, queue,
                 wjob, snap, threadVars, raced, faultVars>>

\* asyncio.to_thread: the call waits for a free executor thread.
Submit(j, stage) ==
  /\ tstage' = [tstage EXCEPT ![j] = stage]
  /\ tstate' = [tstate EXCEPT ![j] = "pending"]

\* workdir.mkdir(parents), stage update, fix_and_verify in a thread.
StartRunner(w) ==
  /\ wpc[w] = "running"
  /\ Goto(w, "fixing")
  /\ disk' = [disk EXCEPT ![wjob[w]] = @ \cup {"dir"}]
  /\ Submit(wjob[w], "fixing")
  /\ UNCHANGED <<phase, rowVars, staged, webVars, prunerVars, queue, wjob, snap,
                 runs, raced, faultVars>>

\* The awaited call returned: on to evaluate_pdf_acceptance, then to
\* generate_document_report, then to the last update.
Advance(w) ==
  /\ wpc[w] \in Stages
  /\ tstate[wjob[w]] = "ok"
  /\ LoopFree
  /\ \/ /\ wpc[w] = "fixing"
        /\ Goto(w, "accepting") /\ Submit(wjob[w], "accepting")
     \/ /\ wpc[w] = "accepting"
        /\ Goto(w, "reporting") /\ Submit(wjob[w], "reporting")
     \/ /\ wpc[w] = "reporting"
        /\ Goto(w, "finishing")
        /\ tstate' = [tstate EXCEPT ![wjob[w]] = "none"]
        /\ UNCHANGED tstage
  /\ UNCHANGED <<phase, rowVars, fileVars, webVars, prunerVars, queue, wjob, snap,
                 runs, raced, faultVars>>

\* A handler may record the failure itself and return (epub conversion, the
\* rebuild tier).
RejectJob(w) ==
  /\ wpc[w] = "accepting"
  /\ tstate[wjob[w]] = "ok"
  /\ LoopFree
  /\ Release(w, "idle")
  /\ SetStatus(wjob[w], "failed")
  /\ tstate' = [tstate EXCEPT ![wjob[w]] = "none"]
  /\ UNCHANGED <<phase, input, meta, born, fileVars, webVars, prunerVars, queue,
                 snap, runs, tstage, raced, faultVars>>

FinishJob(w) ==
  /\ wpc[w] = "finishing"
  /\ Release(w, "idle")
  /\ SetStatus(wjob[w], "done")
  /\ UNCHANGED <<phase, input, meta, born, fileVars, webVars, prunerVars, queue,
                 snap, runs, threadVars, raced, faultVars>>

\* The awaited call raised: the exception reaches _loop.
RunnerRaises(w) ==
  /\ wpc[w] \in Stages
  /\ tstate[wjob[w]] = "raised"
  /\ LoopFree
  /\ Goto(w, "failing")
  /\ tstate' = [tstate EXCEPT ![wjob[w]] = "none"]
  /\ UNCHANGED <<phase, rowVars, fileVars, webVars, prunerVars, queue, wjob, snap,
                 runs, tstage, raced, faultVars>>

\* Defect: an acceptance timeout is treated as a pass.
AfterTimeout_Lenient(stage) == IF stage = "accepting" THEN "finishing" ELSE "failing"

\* TimeoutError becomes a RuntimeError, whatever call it was.
AfterTimeout(stage) == "failing"

\* asyncio.wait_for gives up.  A call still waiting for a thread is cancelled;
\* one that runs goes on without anybody waiting for it.
Timeout(w) ==
  /\ wpc[w] \in Timed
  /\ tstate[wjob[w]] \in {"pending"} \cup Live
  /\ LoopFree
  /\ Goto(w, AfterTimeout(wpc[w]))
  /\ tstate' = IF tstate[wjob[w]] = "pending"
               THEN [tstate EXCEPT ![wjob[w]] = "none"] ELSE tstate
  /\ UNCHANGED <<phase, rowVars, fileVars, webVars, prunerVars, queue, wjob, snap,
                 runs, tstage, raced, faultVars>>

\* except Exception: store.update(status="failed").
FailJob(w) ==
  /\ wpc[w] = "failing"
  /\ Release(w, "idle")
  /\ SetStatus(wjob[w], "failed")
  /\ UNCHANGED <<phase, input, meta, born, fileVars, webVars, prunerVars, queue,
                 snap, runs, threadVars, raced, faultVars>>

\* A store call of the worker or the runner raises before it takes effect;
\* the runner's first one comes after its mkdir.
StoreFault(w) ==
  /\ \/ wpc[w] \in {"got", "loaded", "running", "finishing"}
     \/ wpc[w] \in Stages /\ tstate[wjob[w]] = "ok" /\ LoopFree
  /\ Fault
  /\ Goto(w, "failing")
  /\ tstate' = IF wpc[w] \in Stages
               THEN [tstate EXCEPT ![wjob[w]] = "none"] ELSE tstate
  /\ disk' = IF wpc[w] = "running" THEN [disk EXCEPT ![wjob[w]] = @ \cup {"dir"}]
             ELSE disk
  /\ UNCHANGED <<phase, rowVars, staged, webVars, prunerVars, queue, wjob, snap,
                 runs, tstage, raced>>

\* The update in the except branch raises too: the exception leaves _loop and
\* the task is over.
WorkerDies(w) ==
  /\ wpc[w] = "failing"
  /\ Fault
  /\ Release(w, "dead")
  /\ UNCHANGED <<phase, rowVars, fileVars, webVars, prunerVars, queue, snap, runs,
                 threadVars, raced>>

-----------------------------------------------------------------------------
(* Engine threads.                                                         *)

InputReadable(w) ==
  IF snap[w].input = "final" THEN "input" \in disk[wjob[w]] ELSE wjob[w] \in staged

\* An executor thread picks the call up.  fix_and_verify opens its input first.
ThreadStart(w) ==
  /\ wpc[w] \in Stages
  /\ tstate[wjob[w]] = "pending"
  /\ Cardinality(LiveThreads) < Slots
  /\ tstate' = [tstate EXCEPT ![wjob[w]] =
                  IF wpc[w] = "fixing" /\ ~InputReadable(w) THEN "raised" ELSE "busy"]
  /\ UNCHANGED <<phase, rowVars, fileVars, webVars, prunerVars, workerVars, tstage,
                 raced, faultVars>>

\* The call writes its files, making the directory again if it is gone.
ThreadWrite(j) ==
  /\ tstate[j] = "busy"
  /\ Writes(tstage[j]) # {}
  /\ disk' = [disk EXCEPT ![j] = @ \cup Writes(tstage[j])]
  /\ tstate' = [tstate EXCEPT ![j] = "written"]
  /\ UNCHANGED <<phase, rowVars, staged, webVars, prunerVars, workerVars, tstage,
                 raced, faultVars>>

\* The call returns or raises; nobody sees it when the awaiter has gone.
Outcome(j, result) ==
  /\ tstate' = [tstate EXCEPT ![j] = IF Attached(j) THEN result ELSE "none"]
  /\ UNCHANGED <<phase, rowVars, fileVars, webVars, prunerVars, workerVars, tstage,
                 raced, faultVars>>

ThreadReturns(j) ==
  /\ tstate[j] = IF Writes(tstage[j]) = {} THEN "busy" ELSE "written"
  /\ Outcome(j, "ok")

ThreadRaises(j) ==
  /\ tstate[j] \in Live
  /\ Outcome(j, "raised")

-----------------------------------------------------------------------------

Process == FailRunningJobs \/ RequeueAndStart \/ Shutdown \/ Exit \/ Crash

Request(j) ==
  \/ StageUpload(j) \/ CreateRow(j) \/ MoveInput(j) \/ UpdateRow(j) \/ Enqueue(j)
  \/ Acknowledge(j) \/ UploadFault(j)
  \/ DeleteCheck(j) \/ DeleteRow(j) \/ DeleteFiles(j)

Pruner == PruneList \/ PruneFiles \/ \E j \in Jobs : PruneRow(j) \/ PruneFault(j)

Worker(w) ==
  \/ Dequeue(w) \/ SkipMissing(w) \/ LoadJob(w) \/ MarkRunning(w) \/ StartRunner(w)
  \/ Advance(w) \/ RejectJob(w) \/ FinishJob(w) \/ RunnerRaises(w) \/ Timeout(w)
  \/ FailJob(w) \/ StoreFault(w) \/ WorkerDies(w) \/ ThreadStart(w)

Thread(j) == ThreadWrite(j) \/ ThreadReturns(j) \/ ThreadRaises(j)

Next ==
  \/ Process
  \/ Pruner
  \/ \E j \in Jobs : Request(j) \/ Thread(j)
  \/ \E w \in Workers : Worker(w)

Spec == Init /\ [][Next]_vars

(***************************************************************************)
(* Fairness: systemd restarts the process, the event loop runs every ready *)
(* coroutine, and an engine call ends (or its wait_for gives up; the       *)
(* report call has no timeout, so that it ends is an assumption).          *)
(* Requests, prune ticks, stops, crashes and faults are never promised.    *)
(***************************************************************************)
HandlerStep(j) == CreateRow(j) \/ MoveInput(j) \/ UpdateRow(j) \/ Enqueue(j) \/ Acknowledge(j)
RemovalStep(j) == DeleteRow(j) \/ DeleteFiles(j)
WorkerStep(w)  == Worker(w) /\ UNCHANGED faults

Fairness ==
  /\ WF_vars(FailRunningJobs \/ RequeueAndStart \/ Exit)
  /\ WF_vars(PruneFiles \/ \E j \in Jobs : PruneRow(j))
  /\ \A j \in Jobs : WF_vars(HandlerStep(j)) /\ WF_vars(RemovalStep(j)) /\ WF_vars(Thread(j))
  /\ \A w \in Workers : WF_vars(WorkerStep(w))

FairSpec == Spec /\ Fairness

-----------------------------------------------------------------------------
(* Properties.                                                             *)

\* Every variable keeps its type.
TypeOK ==
  /\ phase \in {"down", "booting", "up", "stopping"}
  /\ status \in [Jobs -> Status]
  /\ input \in [Jobs -> {"none", "staging", "final"}]
  /\ meta \subseteq Jobs
  /\ staged \subseteq Jobs
  /\ disk \in [Jobs -> SUBSET Artifact]
  /\ upload \in [Jobs -> {"idle", "acked", "aborted"} \cup InFlight]
  /\ del \in [Jobs -> {"idle", "checked", "rowgone"}]
  /\ prunable \subseteq Jobs
  /\ pruning \in Jobs \cup {NoJob}
  /\ queue \in Seq(Jobs)
  /\ wpc \in [Workers -> {"off", "idle", "dead"} \cup Segment \cup Stages]
  /\ wjob \in [Workers -> Jobs \cup {NoJob}]
  /\ \A w \in Workers : wjob[w] = NoJob => wpc[w] \in {"off", "idle", "dead"}
  /\ snap \in [Workers -> [input : {"none", "staging", "final"}, meta : BOOLEAN]]
  /\ tstage \in [Jobs -> {"none"} \cup Stages]
  /\ tstate \in [Jobs -> {"none", "pending", "ok", "raised"} \cup Live]
  /\ born \subseteq Jobs
  /\ runs \in [Jobs -> Nat]
  /\ deleted \subseteq Jobs
  /\ raced \subseteq Jobs
  /\ crashes \in 0..MaxCrashes
  /\ faults \in 0..MaxFaults

\* An id is in at most one queue slot or worker's hands: enqueueing at upload
\* and again at startup never hands one job to two workers.
OneOwner ==
  /\ \A i, k \in DOMAIN queue : queue[i] = queue[k] => i = k
  /\ \A i \in DOMAIN queue, w \in Workers : queue[i] # wjob[w]
  /\ \A v, w \in Workers : wjob[v] = wjob[w] /\ wjob[v] # NoJob => v = w

\* The runner is entered at most once for a job, over any number of restarts:
\* a job found running is failed, a job found queued has never been started.
AtMostOneRun == \A j \in Jobs : runs[j] <= 1

\* Unless a store call has failed, a row that is queued or running is always
\* on its way: in its upload handler, in the queue or with a worker.
LiveRowsOwned ==
  phase = "up" /\ faults = 0 =>
    \A j \in Jobs :
      /\ status[j] = "queued" =>
           \/ upload[j] \in {"created", "moved", "updated"}
           \/ InQueue(j)
           \/ \E w \in Workers : wjob[w] = j
      /\ status[j] = "running" => \E w \in Workers : wjob[w] = j

\* A done row has its result and report on disk: GET .../result and .../report
\* never answer 500 for a missing file.
DoneHasArtifacts ==
  \A j \in Jobs : status[j] = "done" => {"dir", "output", "report"} \subseteq disk[j]

\* A result that is served is not being written: no engine thread of the job
\* outlives the update that marks it done.
ServedResultIsStable ==
  \A j \in Jobs : status[j] = "done" => tstate[j] = "none"

\* Once an upload handler has enqueued its job, the row and the worker's
\* snapshot of it have the final input path and the client's metadata.
AcceptedIsComplete ==
  \A j \in Jobs : upload[j] \in {"enqueued", "acked"} =>
    /\ status[j] # "none" => input[j] = "final" /\ j \in meta
    /\ status[j] \in {"queued", "running"} => "input" \in disk[j]
    /\ \A w \in Workers :
         wjob[w] = j /\ wpc[w] \in {"loaded", "running"} \cup Stages
           => snap[w] = [input |-> "final", meta |-> TRUE]

\* A directory without a row is being removed, or its row was removed while
\* the job still ran, or a crash cut the removal short, or rmtree could not
\* remove all of it.
OrphansExplained ==
  \A j \in Jobs : status[j] = "none" /\ disk[j] # {} =>
    del[j] = "rowgone" \/ pruning = j \/ j \in raced

\* A finished job keeps its status until its row is removed: no restart, late
\* thread or second worker changes it.
TerminalIsFinal ==
  [][\A j \in Jobs : status[j] \in Terminal => status'[j] \in {status[j], "none"}]_vars

\* Without store faults, and once the server is no longer stopped, every
\* submitted job ends or its row is removed: whatever stops and crashes came
\* before, no job is left queued or running forever.
EveryJobSettles ==
  <>[](phase = "up") =>
    \A j \in Jobs :
      status[j] \in {"queued", "running"} ~> status[j] \in Terminal \cup {"none"}

\* What a client sees of a job: its row's status, or that there is no row yet
\* or any more.
JobState ==
  [j \in Jobs |-> IF status[j] # "none" THEN status[j]
                  ELSE IF j \in born THEN "gone" ELSE "new"]

Lifecycle == INSTANCE JobLifecycle WITH state <- JobState

\* The queue, the workers, the threads, restarts and both removal paths
\* implement the life of a job that JobLifecycle promises.
ImplementsLifecycle == Lifecycle!Spec

\* README: DELETE removes the job and its on-disk artifacts.
DeleteRemovesArtifacts == \A j \in deleted : disk[j] = {}

\* _finalize_upload_and_enqueue: the worker never sees the row of a request
\* before its metadata is there.
WorkerSeesMetadata ==
  \A w \in Workers : wpc[w] \in {"loaded", "running"} \cup Stages => snap[w].meta

\* remedy-server.service: a graceful stop gives in-flight jobs a chance to
\* finish.  The process does wait for their engine threads before it exits, so
\* no row should then still be running.
GracefulStopSettlesJobs ==
  [][phase = "stopping" /\ phase' = "down" /\ crashes' = crashes
       => \A j \in Jobs : status[j] # "running"]_vars
=============================================================================
