--------------------------- MODULE RemedyJobsProofs ---------------------------
(***************************************************************************)
(* Theorems about RemedyJobs for every set of jobs and workers and every   *)
(* value of the bounds, along the invariants of RemedyJobsInv: first what  *)
(* rows, queue and workers say of each other, then what rows, engine calls *)
(* and files do.  And about the hourly backup of the rows' database.       *)
(***************************************************************************)
EXTENDS RemedyJobsInv, BackupRotation, FiniteSetTheorems, WellFoundedInduction, TLAPS

\* The result of a recovery query is a sequence of ids without repetition.
LEMMA ArrangementsAreSequences ==
  ASSUME NEW S \in SUBSET Jobs, NEW q \in Arrangements(S)
  PROVE  /\ q \in Seq(S)
         /\ \A i, k \in DOMAIN q : q[i] = q[k] => i = k
<1>1. IsFiniteSet(S)
  BY JobsAssumption, FS_Subset
<1>2. Cardinality(S) \in Nat
  BY <1>1, FS_CardinalityType
<1>3. q \in [1..Cardinality(S) -> S]
  BY DEF Arrangements
<1>. QED
  BY <1>2, <1>3 DEF Arrangements

\* A named case per action.
LEMMA NextCases ==
  ASSUME Next
  PROVE  \/ FailRunningJobs \/ RequeueAndStart \/ Shutdown \/ Exit \/ Crash
         \/ PruneList \/ PruneFiles
         \/ \E j \in Jobs :
              \/ StageUpload(j) \/ CreateRow(j) \/ MoveInput(j) \/ UpdateRow(j)
              \/ Enqueue(j) \/ Acknowledge(j) \/ UploadFault(j)
              \/ DeleteCheck(j) \/ DeleteRow(j) \/ DeleteFiles(j)
              \/ PruneRow(j) \/ PruneFault(j)
              \/ ThreadWrite(j) \/ ThreadReturns(j) \/ ThreadRaises(j)
         \/ \E w \in Workers :
              \/ Dequeue(w) \/ SkipMissing(w) \/ LoadJob(w) \/ MarkRunning(w)
              \/ StartRunner(w) \/ Advance(w) \/ RejectJob(w) \/ FinishJob(w)
              \/ RunnerRaises(w) \/ Timeout(w) \/ FailJob(w) \/ StoreFault(w)
              \/ WorkerDies(w) \/ ThreadStart(w)
BY Zenon DEF Next, Process, Pruner, Request, Worker, Thread

\* What rmtree leaves alone, and what it may leave behind.
LEMMA RmtreeRemoves ==
  ASSUME TypeOK, NEW j \in Jobs, Rmtree(j)
  PROVE  /\ disk' \in [Jobs -> SUBSET Artifact]
         /\ \A k \in Jobs \ {j} : disk'[k] = disk[k]
         /\ disk'[j] = {} \/ j \in raced'
         /\ disk'[j] \subseteq disk[j]
         /\ raced \subseteq raced' /\ raced' \subseteq Jobs
         /\ faults' \in 0..MaxFaults /\ faults' >= faults /\ crashes' = crashes
<1>1. CASE disk' = [disk EXCEPT ![j] = {}] /\ UNCHANGED <<raced, faultVars>>
  BY <1>1, JobsAssumption DEF TypeOK, faultVars
<1>2. ASSUME Fault, NEW kept \in SUBSET disk[j], disk' = [disk EXCEPT ![j] = kept],
             raced' = raced \cup {j}
      PROVE  /\ disk' \in [Jobs -> SUBSET Artifact]
             /\ \A k \in Jobs \ {j} : disk'[k] = disk[k]
             /\ disk'[j] \subseteq disk[j]
             /\ faults' \in 0..MaxFaults /\ faults' >= faults /\ crashes' = crashes
  BY <1>2, JobsAssumption DEF TypeOK, Fault
<1> QED
  BY <1>1, <1>2 DEF Rmtree, TypeOK

\* What is left when the directory of one job was removed.
Leaves ==
  /\ \E gone \in Jobs :
       /\ RemovalAfterRow => status[gone] = "none"
       /\ BornFirst => gone \in born
       /\ disk'[gone] = {} \/ gone \in raced'
       /\ \A k \in Jobs : k # gone =>
            disk'[k] = disk[k] /\ del'[k] = del[k] /\ (pruning' = k <=> pruning = k)
  /\ raced \subseteq raced'
  /\ UNCHANGED <<phase, status, input, meta, born, upload, queue, wpc, wjob,
                 snap, tstate, tstage, runs>>

\* DELETE and the pruner end with the directory of one job, whose row has gone.
LEMMA RemovalLeaves ==
  ASSUME TypeOK
  PROVE  PruneFiles \/ (\E j \in Jobs : DeleteFiles(j)) => Leaves
<1> SUFFICES ASSUME PruneFiles \/ \E j \in Jobs : DeleteFiles(j)
             PROVE  Leaves
  OBVIOUS
<1> USE JobsAssumption
<1> DEFINE Removed(gone) ==
      /\ disk'[gone] = {} \/ gone \in raced'
      /\ \A k \in Jobs : k # gone => disk'[k] = disk[k]
      /\ raced \subseteq raced'
<1>1. ASSUME NEW j \in Jobs, Rmtree(j) PROVE Removed(j)
  BY <1>1, RmtreeRemoves
<1>2. ASSUME PruneFiles
      PROVE  /\ pruning \in Jobs /\ Rmtree(pruning) /\ del' = del /\ pruning' = NoJob
             /\ UNCHANGED <<phase, status, input, meta, born, upload, queue, wpc, wjob,
                            snap, tstate, tstage, runs>>
  BY <1>2 DEF PruneFiles, TypeOK, rowVars, webVars, workerVars, threadVars
<1>3. ASSUME NEW j \in Jobs, DeleteFiles(j)
      PROVE  /\ Rmtree(j) /\ del[j] = "rowgone" /\ pruning' = pruning
             /\ \A k \in Jobs : k # j => del'[k] = del[k]
             /\ UNCHANGED <<phase, status, input, meta, born, upload, queue, wpc, wjob,
                            snap, tstate, tstage, runs>>
  BY <1>3 DEF DeleteFiles, TypeOK, rowVars, prunerVars, workerVars, threadVars
<1>4. ASSUME PruneFiles PROVE Leaves
  <2>1. Removed(pruning)
    BY <1>1, <1>2, <1>4
  <2>2. /\ RemovalAfterRow => status[pruning] = "none"
        /\ BornFirst => pruning \in born
    BY <1>2, <1>4 DEF RemovalAfterRow, BornFirst
  <2> QED
    BY <1>2, <1>4, <2>1, <2>2 DEF Leaves
<1>5. ASSUME NEW j \in Jobs, DeleteFiles(j)
      PROVE  /\ RemovalAfterRow => status[j] = "none"
             /\ BornFirst => j \in born
             /\ Removed(j)
  <2>1. Removed(j)
    BY <1>1, <1>3, <1>5
  <2> QED
    BY <1>3, <1>5, <2>1 DEF RemovalAfterRow, BornFirst
<1> QED
  BY <1>3, <1>4, <1>5 DEF Leaves

\* A worker that is past the queue holds a job.
LEMMA WorkerHoldsJob ==
  ASSUME TypeOK, NEW w \in Workers, wpc[w] \in Segment \cup Stages
  PROVE  wjob[w] \in Jobs
BY DEF TypeOK, Segment, Stages

\* JobStore.update changes at most the row it names, and never makes one.
LEMMA SetStatusChanges ==
  ASSUME TypeOK, NEW j \in Jobs, NEW s \in Status, SetStatus(j, s)
  PROVE  /\ status' \in [Jobs -> Status]
         /\ \A k \in Jobs : status'[k] = IF k = j /\ status[j] # "none" THEN s ELSE status[k]
<1>1. CASE status[j] = "none"
  BY <1>1 DEF SetStatus, TypeOK
<1>2. CASE status[j] # "none"
  BY <1>2 DEF SetStatus, TypeOK
<1>. QED
  BY <1>1, <1>2

\* Type correctness.
THEOREM TypeCorrect == Spec => []TypeOK
<1>1. Init => TypeOK
  BY JobsAssumption DEF Init, TypeOK, Status, Segment, Stages, InFlight, Live
<1>2. TypeOK /\ [Next]_vars => TypeOK'
  <2> SUFFICES ASSUME TypeOK, [Next]_vars
               PROVE  TypeOK'
    OBVIOUS
  <2>0. CASE UNCHANGED vars
    BY <2>0, JobsAssumption
    DEF vars, TypeOK, Status, Terminal, Segment, Stages, InFlight, Live,
           Artifact, rowVars, fileVars, webVars, prunerVars, workerVars, threadVars, faultVars
  <2>1. CASE FailRunningJobs
    BY <2>1, JobsAssumption
    DEF FailRunningJobs, AfterRestart, TypeOK, Status, Terminal, Segment, Stages, InFlight, Live,
           Artifact, rowVars, fileVars, webVars, prunerVars, workerVars, threadVars, faultVars
  <2>2. CASE RequeueAndStart
    <3>1. Recoverable \in SUBSET Jobs /\ queue' \in Arrangements(Recoverable)
      BY <2>2 DEF RequeueAndStart, Recoverable
    <3>2. queue' \in Seq(Recoverable)
      BY <3>1, ArrangementsAreSequences
    <3>. QED
      BY <2>2, <3>1, <3>2, JobsAssumption
      DEF RequeueAndStart, TypeOK, Status, Terminal, Segment, Stages, InFlight, Live,
           Artifact, rowVars, fileVars, webVars, prunerVars, workerVars, threadVars, faultVars
  <2>3. CASE Shutdown
    BY <2>3, JobsAssumption
    DEF Shutdown, TypeOK, Status, Terminal, Segment, Stages, InFlight, Live,
           Artifact, rowVars, fileVars, webVars, prunerVars, workerVars, threadVars, faultVars
  <2>4. CASE Exit
    BY <2>4, JobsAssumption
    DEF Exit, TypeOK, Status, Terminal, Segment, Stages, InFlight, Live,
           Artifact, rowVars, fileVars, webVars, prunerVars, workerVars, threadVars, faultVars
  <2>5. CASE Crash
    BY <2>5, JobsAssumption
    DEF Crash, TypeOK, Status, Terminal, Segment, Stages, InFlight, Live,
           Artifact, rowVars, fileVars, webVars, prunerVars, workerVars, threadVars, faultVars
  <2>6. CASE PruneList
    BY <2>6, JobsAssumption
    DEF PruneList, TypeOK, Status, Terminal, Segment, Stages, InFlight, Live,
           Artifact, rowVars, fileVars, webVars, prunerVars, workerVars, threadVars, faultVars
  <2>7. CASE PruneFiles
    BY <2>7, JobsAssumption, RmtreeRemoves
    DEF PruneFiles, TypeOK, Status, Terminal, Segment, Stages, InFlight, Live,
           Artifact, rowVars, fileVars, webVars, prunerVars, workerVars, threadVars, faultVars
  <2>8. ASSUME NEW j \in Jobs, StageUpload(j) PROVE TypeOK'
    BY <2>8, JobsAssumption
    DEF StageUpload, TypeOK, Status, Terminal, Segment, Stages, InFlight, Live,
           Artifact, rowVars, fileVars, webVars, prunerVars, workerVars, threadVars, faultVars
  <2>9. ASSUME NEW j \in Jobs, CreateRow(j) PROVE TypeOK'
    BY <2>9, JobsAssumption
    DEF CreateRow, TypeOK, Status, Terminal, Segment, Stages, InFlight, Live,
           Artifact, rowVars, fileVars, webVars, prunerVars, workerVars, threadVars, faultVars
  <2>10. ASSUME NEW j \in Jobs, MoveInput(j) PROVE TypeOK'
    BY <2>10, JobsAssumption
    DEF MoveInput, TypeOK, Status, Terminal, Segment, Stages, InFlight, Live,
           Artifact, rowVars, fileVars, webVars, prunerVars, workerVars, threadVars, faultVars
  <2>11. ASSUME NEW j \in Jobs, UpdateRow(j) PROVE TypeOK'
    BY <2>11, JobsAssumption
    DEF UpdateRow, Finalise, TypeOK, Status, Terminal, Segment, Stages, InFlight, Live,
           Artifact, rowVars, fileVars, webVars, prunerVars, workerVars, threadVars, faultVars
  <2>12. ASSUME NEW j \in Jobs, Enqueue(j) PROVE TypeOK'
    BY <2>12, JobsAssumption
    DEF Enqueue, Put, TypeOK, Status, Terminal, Segment, Stages, InFlight, Live,
           Artifact, rowVars, fileVars, webVars, prunerVars, workerVars, threadVars, faultVars
  <2>13. ASSUME NEW j \in Jobs, Acknowledge(j) PROVE TypeOK'
    BY <2>13, JobsAssumption
    DEF Acknowledge, TypeOK, Status, Terminal, Segment, Stages, InFlight, Live,
           Artifact, rowVars, fileVars, webVars, prunerVars, workerVars, threadVars, faultVars
  <2>14. ASSUME NEW j \in Jobs, UploadFault(j) PROVE TypeOK'
    BY <2>14, JobsAssumption
    DEF UploadFault, Fault, TypeOK, Status, Terminal, Segment, Stages, InFlight, Live,
           Artifact, rowVars, fileVars, webVars, prunerVars, workerVars, threadVars, faultVars
  <2>15. ASSUME NEW j \in Jobs, DeleteCheck(j) PROVE TypeOK'
    BY <2>15, JobsAssumption
    DEF DeleteCheck, TypeOK, Status, Terminal, Segment, Stages, InFlight, Live,
           Artifact, rowVars, fileVars, webVars, prunerVars, workerVars, threadVars, faultVars
  <2>16. ASSUME NEW j \in Jobs, DeleteRow(j) PROVE TypeOK'
    BY <2>16, JobsAssumption
    DEF DeleteRow, RemoveRow, TypeOK, Status, Terminal, Segment, Stages, InFlight, Live,
           Artifact, rowVars, fileVars, webVars, prunerVars, workerVars, threadVars, faultVars
  <2>17. ASSUME NEW j \in Jobs, DeleteFiles(j) PROVE TypeOK'
    BY <2>17, JobsAssumption, RmtreeRemoves
    DEF DeleteFiles, TypeOK, Status, Terminal, Segment, Stages, InFlight, Live,
           Artifact, rowVars, fileVars, webVars, prunerVars, workerVars, threadVars, faultVars
  <2>18. ASSUME NEW j \in Jobs, ThreadWrite(j) PROVE TypeOK'
    BY <2>18, JobsAssumption
    DEF ThreadWrite, Writes, TypeOK, Status, Terminal, Segment, Stages, InFlight, Live,
           Artifact, rowVars, fileVars, webVars, prunerVars, workerVars, threadVars, faultVars
  <2>19. ASSUME NEW j \in Jobs, ThreadReturns(j) PROVE TypeOK'
    BY <2>19, JobsAssumption
    DEF ThreadReturns, Outcome, TypeOK, Status, Terminal, Segment, Stages, InFlight, Live,
           Artifact, rowVars, fileVars, webVars, prunerVars, workerVars, threadVars, faultVars
  <2>20. ASSUME NEW j \in Jobs, ThreadRaises(j) PROVE TypeOK'
    BY <2>20, JobsAssumption
    DEF ThreadRaises, Outcome, TypeOK, Status, Terminal, Segment, Stages, InFlight, Live,
           Artifact, rowVars, fileVars, webVars, prunerVars, workerVars, threadVars, faultVars
  <2>21. ASSUME NEW j \in Jobs, PruneRow(j) PROVE TypeOK'
    BY <2>21, JobsAssumption
    DEF PruneRow, RemoveRow, TypeOK, Status, Terminal, Segment, Stages, InFlight, Live,
           Artifact, rowVars, fileVars, webVars, prunerVars, workerVars, threadVars, faultVars
  <2>22. ASSUME NEW j \in Jobs, PruneFault(j) PROVE TypeOK'
    BY <2>22, JobsAssumption
    DEF PruneFault, Fault, TypeOK, Status, Terminal, Segment, Stages, InFlight, Live,
           Artifact, rowVars, fileVars, webVars, prunerVars, workerVars, threadVars, faultVars
  <2>23. ASSUME NEW w \in Workers, Dequeue(w) PROVE TypeOK'
    BY <2>23, JobsAssumption
    DEF Dequeue, Goto, TypeOK, Status, Terminal, Segment, Stages, InFlight, Live,
           Artifact, rowVars, fileVars, webVars, prunerVars, workerVars, threadVars, faultVars
  <2>24. ASSUME NEW w \in Workers, SkipMissing(w) PROVE TypeOK'
    <3>1. wjob[w] \in Jobs
      BY <2>24, WorkerHoldsJob DEF SkipMissing, Segment, Stages, Timed
    <3>. QED
      BY <2>24, <3>1, JobsAssumption
      DEF SkipMissing, Goto, Release, TypeOK, Status, Terminal, Segment, Stages, InFlight, Live,
           Artifact, rowVars, fileVars, webVars, prunerVars, workerVars, threadVars, faultVars
  <2>25. ASSUME NEW w \in Workers, LoadJob(w) PROVE TypeOK'
    <3>1. wjob[w] \in Jobs
      BY <2>25, WorkerHoldsJob DEF LoadJob, Segment, Stages, Timed
    <3>. QED
      BY <2>25, <3>1, JobsAssumption
      DEF LoadJob, Goto, TypeOK, Status, Terminal, Segment, Stages, InFlight, Live,
           Artifact, rowVars, fileVars, webVars, prunerVars, workerVars, threadVars, faultVars
  <2>26. ASSUME NEW w \in Workers, MarkRunning(w) PROVE TypeOK'
    <3>1. wjob[w] \in Jobs
      BY <2>26, WorkerHoldsJob DEF MarkRunning, Segment, Stages, Timed
    <3>2. status' \in [Jobs -> Status]
      BY <2>26, <3>1, SetStatusChanges DEF Status, Terminal, MarkRunning
    <3>3. runs' \in [Jobs -> Nat]
      BY <2>26, <3>1 DEF MarkRunning, TypeOK
    <3>4. wpc' \in [Workers -> {"off", "idle", "dead"} \cup Segment \cup Stages]
      BY <2>26 DEF MarkRunning, Goto, TypeOK, Segment
    <3>5. wpc' = [wpc EXCEPT ![w] = "running"]
      BY <2>26 DEF MarkRunning, Goto
    <3>. QED
      BY <2>26, <3>1, <3>2, <3>3, <3>4, <3>5, JobsAssumption
      DEF MarkRunning, TypeOK, Status, Terminal, Segment, Stages, InFlight, Live,
           Artifact, rowVars, fileVars, webVars, prunerVars, workerVars, threadVars, faultVars
  <2>27. ASSUME NEW w \in Workers, StartRunner(w) PROVE TypeOK'
    <3>1. wjob[w] \in Jobs
      BY <2>27, WorkerHoldsJob DEF StartRunner, Segment, Stages, Timed
    <3>. QED
      BY <2>27, <3>1, JobsAssumption
      DEF StartRunner, Goto, Submit, TypeOK, Status, Terminal, Segment, Stages, InFlight, Live,
           Artifact, rowVars, fileVars, webVars, prunerVars, workerVars, threadVars, faultVars
  <2>28. ASSUME NEW w \in Workers, Advance(w) PROVE TypeOK'
    <3>1. wjob[w] \in Jobs
      BY <2>28, WorkerHoldsJob DEF Advance, Segment, Stages, Timed
    <3>2. PICK pc \in Stages \cup {"finishing"} : wpc' = [wpc EXCEPT ![w] = pc]
      BY <2>28 DEF Advance, Goto, Stages
    <3>3. wpc[w] \in Stages
      BY <2>28 DEF Advance
    <3>4. wpc' \in [Workers -> {"off", "idle", "dead"} \cup Segment \cup Stages]
      BY <3>2 DEF TypeOK, Segment
    <3>5. \/ tstage' = tstage
          \/ \E stage \in Stages : tstage' = [tstage EXCEPT ![wjob[w]] = stage]
      BY <2>28 DEF Advance, Submit, Stages
    <3>6. tstage' \in [Jobs -> {"none"} \cup Stages]
      BY <3>1, <3>5 DEF TypeOK
    <3>7. tstate' \in [Jobs -> {"none", "pending", "ok", "raised"} \cup Live]
      BY <2>28, <3>1 DEF Advance, Submit, TypeOK
    <3>. QED
      BY <2>28, <3>2, <3>3, <3>4, <3>6, <3>7
      DEF Advance, TypeOK, Stages, rowVars, fileVars, webVars, prunerVars, faultVars
  <2>29. ASSUME NEW w \in Workers, RejectJob(w) PROVE TypeOK'
    <3>1. wjob[w] \in Jobs
      BY <2>29, WorkerHoldsJob DEF RejectJob, Segment, Stages, Timed
    <3>2. status' \in [Jobs -> Status]
      BY <2>29, <3>1, SetStatusChanges DEF Status, Terminal, RejectJob
    <3>3. tstate' \in [Jobs -> {"none", "pending", "ok", "raised"} \cup Live]
      BY <2>29, <3>1 DEF RejectJob, TypeOK
    <3>4. wpc' = [wpc EXCEPT ![w] = "idle"] /\ wjob' = [wjob EXCEPT ![w] = NoJob]
      BY <2>29 DEF RejectJob, Release, Goto
    <3>. QED
      BY <2>29, <3>2, <3>3, <3>4
      DEF RejectJob, TypeOK, rowVars, fileVars, webVars, prunerVars, faultVars
  <2>30. ASSUME NEW w \in Workers, FinishJob(w) PROVE TypeOK'
    <3>1. wjob[w] \in Jobs
      BY <2>30, WorkerHoldsJob DEF FinishJob, Segment, Stages, Timed
    <3>2. status' \in [Jobs -> Status]
      BY <2>30, <3>1, SetStatusChanges DEF Status, Terminal, FinishJob
    <3>. QED
      BY <2>30, <3>1, <3>2, JobsAssumption
      DEF FinishJob, Goto, Release, TypeOK, Status, Terminal, Segment, Stages, InFlight, Live,
           Artifact, rowVars, fileVars, webVars, prunerVars, workerVars, threadVars, faultVars
  <2>31. ASSUME NEW w \in Workers, RunnerRaises(w) PROVE TypeOK'
    <3>1. wjob[w] \in Jobs
      BY <2>31, WorkerHoldsJob DEF RunnerRaises, Segment, Stages, Timed
    <3>. QED
      BY <2>31, <3>1, JobsAssumption
      DEF RunnerRaises, Goto, TypeOK, Status, Terminal, Segment, Stages, InFlight, Live,
           Artifact, rowVars, fileVars, webVars, prunerVars, workerVars, threadVars, faultVars
  <2>32. ASSUME NEW w \in Workers, Timeout(w) PROVE TypeOK'
    <3>1. wjob[w] \in Jobs
      BY <2>32, WorkerHoldsJob DEF Timeout, Segment, Stages, Timed
    <3>. QED
      BY <2>32, <3>1, JobsAssumption
      DEF Timeout, Goto, AfterTimeout, Timed, TypeOK, Status, Terminal, Segment, Stages, InFlight, Live,
           Artifact, rowVars, fileVars, webVars, prunerVars, workerVars, threadVars, faultVars
  <2>33. ASSUME NEW w \in Workers, FailJob(w) PROVE TypeOK'
    <3>1. wjob[w] \in Jobs
      BY <2>33, WorkerHoldsJob DEF FailJob, Segment, Stages, Timed
    <3>2. status' \in [Jobs -> Status]
      BY <2>33, <3>1, SetStatusChanges DEF Status, Terminal, FailJob
    <3>. QED
      BY <2>33, <3>1, <3>2, JobsAssumption
      DEF FailJob, Goto, Release, TypeOK, Status, Terminal, Segment, Stages, InFlight, Live,
           Artifact, rowVars, fileVars, webVars, prunerVars, workerVars, threadVars, faultVars
  <2>34. ASSUME NEW w \in Workers, StoreFault(w) PROVE TypeOK'
    <3>1. wjob[w] \in Jobs
      BY <2>34, WorkerHoldsJob DEF StoreFault, Segment, Stages, Timed
    <3>. QED
      BY <2>34, <3>1, JobsAssumption
      DEF StoreFault, Goto, Fault, TypeOK, Status, Terminal, Segment, Stages, InFlight, Live,
           Artifact, rowVars, fileVars, webVars, prunerVars, workerVars, threadVars, faultVars
  <2>35. ASSUME NEW w \in Workers, WorkerDies(w) PROVE TypeOK'
    <3>1. wjob[w] \in Jobs
      BY <2>35, WorkerHoldsJob DEF WorkerDies, Segment, Stages, Timed
    <3>. QED
      BY <2>35, <3>1, JobsAssumption
      DEF WorkerDies, Goto, Release, Fault, TypeOK, Status, Terminal, Segment, Stages, InFlight, Live,
           Artifact, rowVars, fileVars, webVars, prunerVars, workerVars, threadVars, faultVars
  <2>36. ASSUME NEW w \in Workers, ThreadStart(w) PROVE TypeOK'
    <3>1. wjob[w] \in Jobs
      BY <2>36, WorkerHoldsJob DEF ThreadStart, Segment, Stages, Timed
    <3>. QED
      BY <2>36, <3>1, JobsAssumption
      DEF ThreadStart, TypeOK, Status, Terminal, Segment, Stages, InFlight, Live,
           Artifact, rowVars, fileVars, webVars, prunerVars, workerVars, threadVars, faultVars
  <2>. QED
    BY NextCases, <2>0, <2>1, <2>2, <2>3, <2>4, <2>5, <2>6, <2>7, <2>8, <2>9, <2>10, <2>11, <2>12, <2>13, <2>14, <2>15, <2>16, <2>17, <2>18, <2>19, <2>20, <2>21, <2>22, <2>23, <2>24, <2>25, <2>26, <2>27, <2>28, <2>29, <2>30, <2>31, <2>32, <2>33, <2>34, <2>35, <2>36
<1>. QED
  BY <1>1, <1>2, PTL DEF Spec

\* Appending to a queue, and taking its head.
LEMMA QueueEnds ==
  ASSUME NEW S, NEW q \in Seq(S), NEW x \in S
  PROVE  /\ Append(q, x) \in Seq(S)
         /\ DOMAIN Append(q, x) = 1..(Len(q) + 1)
         /\ DOMAIN q = 1..Len(q) /\ Len(q) \in Nat
         /\ \A i \in 1..Len(q) : Append(q, x)[i] = q[i]
         /\ Append(q, x)[Len(q) + 1] = x
         /\ q # <<>> =>
              /\ 1 \in DOMAIN q /\ Head(q) = q[1] /\ q[1] \in S
              /\ Tail(q) \in Seq(S)
              /\ DOMAIN Tail(q) = 1..(Len(q) - 1)
              /\ \A i \in 1..(Len(q) - 1) : Tail(q)[i] = q[i + 1] /\ i + 1 \in DOMAIN q
OBVIOUS

\* A worker that lets go of its job makes no second owner.
LEMMA ReleaseKeepsOwners ==
  ASSUME TypeOK, OneOwner, NEW w \in Workers, NEW pc, Release(w, pc), UNCHANGED queue
  PROVE  OneOwner'
<1>1. wjob' = [wjob EXCEPT ![w] = NoJob]
  BY DEF Release
<1>2. \A v \in Workers : wjob'[v] = IF v = w THEN NoJob ELSE wjob[v]
  BY <1>1 DEF TypeOK
<1>3. \A i \in DOMAIN queue : queue[i] \in Jobs
  BY DEF TypeOK
<1>. QED
  BY <1>2, <1>3, JobsAssumption DEF OneOwner

\* A worker step concerns no id that its upload handler still owns.
LEMMA HandlerKeepsOwning ==
  ASSUME HandlerOwns, UNCHANGED <<upload, del, born>>,
         \A j \in Jobs : InQueue(j)' \/ Held(j)' => InQueue(j) \/ Held(j),
         \A j \in Jobs : status'[j] # status[j] \/ runs'[j] # runs[j] => Held(j)
  PROVE  HandlerOwns'
BY DEF HandlerOwns

\* The invariant that ties rows, queue, workers and upload handlers together
\* is preserved by every step.
LEMMA JobInvPreserved == TypeOK /\ TypeOK' /\ JobInv /\ [Next]_vars => JobInv'
<1> SUFFICES ASSUME TypeOK, TypeOK', JobInv, [Next]_vars
             PROVE  JobInv'
  OBVIOUS
<1>. USE DEF rowVars, fileVars, webVars, prunerVars, workerVars, threadVars, faultVars
<1>0. CASE UNCHANGED vars
  BY <1>0 DEF vars, JobInv, MemoryIsEmpty, OneOwner, HandlerOwns, InQueue, Held, BornFirst,
    StatusByPlace
<1>1. CASE FailRunningJobs
  <2>1. MemoryIsEmpty'
    BY <1>1 DEF FailRunningJobs, AfterRestart, JobInv, TypeOK,
      Segment, Stages, InFlight, Terminal, MemoryIsEmpty
  <2>2. HandlerOwns'
    BY <1>1 DEF FailRunningJobs, AfterRestart, JobInv, TypeOK,
      Segment, Stages, InFlight, Terminal, MemoryIsEmpty, HandlerOwns, InQueue, Held
  <2>3. BornFirst'
    BY <1>1 DEF FailRunningJobs, AfterRestart, JobInv, TypeOK,
      Segment, Stages, InFlight, Terminal, BornFirst
  <2>4. StatusByPlace'
    <3>1. queue = <<>> /\ \A w \in Workers : wpc[w] \notin Segment \cup Stages
      BY <1>1, JobsAssumption DEF FailRunningJobs, JobInv, MemoryIsEmpty, TypeOK, Segment, Stages
    <3>2. \A j \in Jobs : status'[j] = "queued" => status[j] = "queued"
      BY <1>1 DEF FailRunningJobs, AfterRestart
    <3>. QED
      BY <1>1, <3>1, <3>2 DEF FailRunningJobs, JobInv, StatusByPlace, Segment
  <2>5. OneOwner'
    BY <1>1 DEF FailRunningJobs, AfterRestart, JobInv, OneOwner
  <2>. QED
    BY <2>1, <2>2, <2>3, <2>4, <2>5 DEF JobInv
<1>2. CASE RequeueAndStart
  <2>1. /\ queue' \in Seq(Recoverable)
        /\ \A i, k \in DOMAIN queue' : queue'[i] = queue'[k] => i = k
        /\ \A i \in DOMAIN queue' : queue'[i] \in Jobs /\ status[queue'[i]] = "queued"
    BY <1>2, ArrangementsAreSequences DEF RequeueAndStart, Recoverable
  <2>2. MemoryIsEmpty'
    BY <1>2, <2>1 DEF RequeueAndStart, JobInv, TypeOK,
      Segment, Stages, InFlight, Terminal, MemoryIsEmpty
  <2>3. OneOwner'
    BY <1>2, <2>1, JobsAssumption DEF RequeueAndStart, JobInv, TypeOK,
      Segment, Stages, InFlight, Terminal, MemoryIsEmpty, OneOwner
  <2>4. HandlerOwns'
    BY <1>2, <2>1 DEF RequeueAndStart, JobInv, TypeOK,
      Segment, Stages, InFlight, Terminal, MemoryIsEmpty, HandlerOwns, InQueue, Held
  <2>5. StatusByPlace'
    BY <1>2, <2>1 DEF RequeueAndStart, JobInv, TypeOK,
      Segment, Stages, InFlight, Terminal, MemoryIsEmpty, StatusByPlace
  <2>6. BornFirst'
    BY <1>2 DEF RequeueAndStart, JobInv, BornFirst
  <2>. QED
    BY <2>2, <2>3, <2>4, <2>5, <2>6 DEF JobInv
<1>3. CASE Shutdown
  <2>1. MemoryIsEmpty'
    BY <1>3 DEF Shutdown, MidSegment, JobInv, TypeOK,
      Segment, Stages, InFlight, Terminal, MemoryIsEmpty
  <2>2. OneOwner'
    BY <1>3 DEF Shutdown, MidSegment, JobInv, TypeOK,
      Segment, Stages, InFlight, Terminal, OneOwner
  <2>3. HandlerOwns'
    BY <1>3, JobsAssumption DEF Shutdown, MidSegment, JobInv, TypeOK,
      Segment, Stages, InFlight, Terminal, HandlerOwns, InQueue, Held
  <2>4. StatusByPlace'
    BY <1>3 DEF Shutdown, MidSegment, JobInv, TypeOK,
      Segment, Stages, InFlight, Terminal, StatusByPlace
  <2>5. BornFirst'
    BY <1>3 DEF Shutdown, MidSegment, JobInv, BornFirst
  <2>. QED
    BY <2>1, <2>2, <2>3, <2>4, <2>5 DEF JobInv
<1>4. CASE Exit
  <2>1. MemoryIsEmpty'
    BY <1>4 DEF Exit, JobInv, TypeOK,
      Segment, Stages, InFlight, Terminal, MemoryIsEmpty
  <2>2. OneOwner' /\ HandlerOwns' /\ BornFirst' /\ StatusByPlace'
    BY <1>4 DEF Exit, JobInv, OneOwner, HandlerOwns, BornFirst, StatusByPlace, InQueue, Held
  <2>. QED
    BY <2>1, <2>2 DEF JobInv
<1>5. CASE Crash
  <2>1. MemoryIsEmpty'
    BY <1>5 DEF Crash, JobInv, TypeOK,
      Segment, Stages, InFlight, Terminal, MemoryIsEmpty
  <2>2. OneOwner'
    BY <1>5 DEF Crash, JobInv, TypeOK,
      Segment, Stages, InFlight, Terminal, OneOwner
  <2>3. HandlerOwns'
    BY <1>5, JobsAssumption DEF Crash, JobInv, TypeOK,
      Segment, Stages, InFlight, Terminal, HandlerOwns, InQueue, Held
  <2>4. BornFirst'
    BY <1>5, JobsAssumption DEF Crash, JobInv, TypeOK,
      Segment, Stages, InFlight, Terminal, BornFirst
  <2>5. StatusByPlace'
    BY <1>5 DEF Crash, JobInv, TypeOK,
      Segment, Stages, InFlight, Terminal, StatusByPlace
  <2>. QED
    BY <2>1, <2>2, <2>3, <2>4, <2>5 DEF JobInv
<1>6. CASE PruneList
  <2>1. BornFirst'
    BY <1>6 DEF PruneList, JobInv, TypeOK,
      Segment, Stages, InFlight, Terminal, BornFirst
  <2>2. MemoryIsEmpty' /\ OneOwner' /\ HandlerOwns' /\ StatusByPlace'
    BY <1>6 DEF PruneList, JobInv, MemoryIsEmpty, OneOwner, HandlerOwns, StatusByPlace, InQueue, Held
  <2>. QED
    BY <2>1, <2>2 DEF JobInv
<1>7. CASE PruneFiles
  <2>1. BornFirst'
    BY <1>7, JobsAssumption DEF PruneFiles, JobInv, TypeOK,
      Segment, Stages, InFlight, Terminal, BornFirst
  <2>2. MemoryIsEmpty' /\ OneOwner' /\ HandlerOwns' /\ StatusByPlace'
    BY <1>7 DEF PruneFiles, JobInv, MemoryIsEmpty, OneOwner, HandlerOwns, StatusByPlace, InQueue, Held
  <2>. QED
    BY <2>1, <2>2 DEF JobInv
<1>8. ASSUME NEW j \in Jobs, StageUpload(j) PROVE JobInv'
  <2>1. MemoryIsEmpty'
    BY <1>8 DEF StageUpload, JobInv, TypeOK,
      Segment, Stages, InFlight, Terminal, MemoryIsEmpty
  <2>2. HandlerOwns'
    BY <1>8 DEF StageUpload, JobInv, TypeOK,
      Segment, Stages, InFlight, Terminal, HandlerOwns, InQueue, Held
  <2>3. OneOwner' /\ BornFirst' /\ StatusByPlace'
    BY <1>8 DEF StageUpload, JobInv, OneOwner, BornFirst, StatusByPlace
  <2>. QED
    BY <2>1, <2>2, <2>3 DEF JobInv
<1>9. ASSUME NEW j \in Jobs, CreateRow(j) PROVE JobInv'
  <2>1. MemoryIsEmpty'
    BY <1>9 DEF CreateRow, JobInv, TypeOK,
      Segment, Stages, InFlight, Terminal, MemoryIsEmpty
  <2>2. HandlerOwns'
    BY <1>9 DEF CreateRow, JobInv, TypeOK,
      Segment, Stages, InFlight, Terminal, HandlerOwns, InQueue, Held
  <2>3. BornFirst'
    BY <1>9 DEF CreateRow, JobInv, TypeOK,
      Segment, Stages, InFlight, Terminal, BornFirst, HandlerOwns, InQueue, Held
  <2>4. StatusByPlace'
    BY <1>9 DEF CreateRow, JobInv, TypeOK,
      Segment, Stages, InFlight, Terminal, HandlerOwns, StatusByPlace, InQueue, Held
  <2>5. OneOwner'
    BY <1>9 DEF CreateRow, JobInv, OneOwner
  <2>. QED
    BY <2>1, <2>2, <2>3, <2>4, <2>5 DEF JobInv
<1>10. ASSUME NEW j \in Jobs, MoveInput(j) PROVE JobInv'
  <2>1. MemoryIsEmpty'
    BY <1>10 DEF MoveInput, JobInv, TypeOK,
      Segment, Stages, InFlight, Terminal, MemoryIsEmpty
  <2>2. HandlerOwns'
    BY <1>10 DEF MoveInput, JobInv, TypeOK,
      Segment, Stages, InFlight, Terminal, HandlerOwns, InQueue, Held
  <2>3. OneOwner' /\ BornFirst' /\ StatusByPlace'
    BY <1>10 DEF MoveInput, JobInv, OneOwner, BornFirst, StatusByPlace
  <2>. QED
    BY <2>1, <2>2, <2>3 DEF JobInv
<1>11. ASSUME NEW j \in Jobs, UpdateRow(j) PROVE JobInv'
  <2>1. MemoryIsEmpty'
    BY <1>11 DEF UpdateRow, JobInv, TypeOK,
      Segment, Stages, InFlight, Terminal, MemoryIsEmpty
  <2>2. HandlerOwns'
    BY <1>11 DEF UpdateRow, JobInv, TypeOK,
      Segment, Stages, InFlight, Terminal, HandlerOwns, InQueue, Held
  <2>3. OneOwner' /\ BornFirst' /\ StatusByPlace'
    BY <1>11 DEF UpdateRow, JobInv, OneOwner, BornFirst, StatusByPlace
  <2>. QED
    BY <2>1, <2>2, <2>3 DEF JobInv
<1>12. ASSUME NEW j \in Jobs, Enqueue(j) PROVE JobInv'
  <2>1. MemoryIsEmpty'
    BY <1>12, QueueEnds DEF Enqueue, Put, JobInv, TypeOK,
      Segment, Stages, InFlight, Terminal, MemoryIsEmpty
  <2>2. OneOwner'
    BY <1>12, QueueEnds, SMTT(30) DEF Enqueue, Put, JobInv, TypeOK,
      Segment, Stages, InFlight, Terminal, OneOwner, HandlerOwns, InQueue, Held
  <2>3. HandlerOwns'
    BY <1>12, QueueEnds DEF Enqueue, Put, JobInv, TypeOK,
      Segment, Stages, InFlight, Terminal, HandlerOwns, InQueue, Held
  <2>4. StatusByPlace'
    BY <1>12, QueueEnds DEF Enqueue, Put, JobInv, TypeOK,
      Segment, Stages, InFlight, Terminal, HandlerOwns, StatusByPlace, InQueue, Held
  <2>5. BornFirst'
    BY <1>12 DEF Enqueue, Put, JobInv, BornFirst
  <2>. QED
    BY <2>1, <2>2, <2>3, <2>4, <2>5 DEF JobInv
<1>13. ASSUME NEW j \in Jobs, Acknowledge(j) PROVE JobInv'
  <2>1. MemoryIsEmpty'
    BY <1>13 DEF Acknowledge, JobInv, TypeOK,
      Segment, Stages, InFlight, Terminal, MemoryIsEmpty
  <2>2. HandlerOwns'
    BY <1>13 DEF Acknowledge, JobInv, TypeOK,
      Segment, Stages, InFlight, Terminal, HandlerOwns, InQueue, Held
  <2>3. OneOwner' /\ BornFirst' /\ StatusByPlace'
    BY <1>13 DEF Acknowledge, JobInv, OneOwner, BornFirst, StatusByPlace
  <2>. QED
    BY <2>1, <2>2, <2>3 DEF JobInv
<1>14. ASSUME NEW j \in Jobs, UploadFault(j) PROVE JobInv'
  <2>1. MemoryIsEmpty'
    BY <1>14 DEF UploadFault, JobInv, TypeOK,
      Segment, Stages, InFlight, Terminal, MemoryIsEmpty
  <2>2. HandlerOwns'
    BY <1>14 DEF UploadFault, JobInv, TypeOK,
      Segment, Stages, InFlight, Terminal, HandlerOwns, InQueue, Held
  <2>3. OneOwner' /\ BornFirst' /\ StatusByPlace'
    BY <1>14 DEF UploadFault, JobInv, OneOwner, BornFirst, StatusByPlace
  <2>. QED
    BY <2>1, <2>2, <2>3 DEF JobInv
<1>15. ASSUME NEW j \in Jobs, DeleteCheck(j) PROVE JobInv'
  <2>1. HandlerOwns'
    BY <1>15 DEF DeleteCheck, JobInv, TypeOK,
      Segment, Stages, InFlight, Terminal, HandlerOwns, InQueue, Held
  <2>2. BornFirst'
    BY <1>15 DEF DeleteCheck, JobInv, TypeOK,
      Segment, Stages, InFlight, Terminal, BornFirst
  <2>3. MemoryIsEmpty' /\ OneOwner' /\ StatusByPlace'
    BY <1>15 DEF DeleteCheck, JobInv, MemoryIsEmpty, OneOwner, StatusByPlace
  <2>. QED
    BY <2>1, <2>2, <2>3 DEF JobInv
<1>16. ASSUME NEW j \in Jobs, DeleteRow(j) PROVE JobInv'
  <2>1. HandlerOwns'
    BY <1>16 DEF DeleteRow, RemoveRow, JobInv, TypeOK,
      Segment, Stages, InFlight, Terminal, HandlerOwns, InQueue, Held
  <2>2. BornFirst'
    BY <1>16 DEF DeleteRow, RemoveRow, JobInv, TypeOK,
      Segment, Stages, InFlight, Terminal, BornFirst
  <2>3. StatusByPlace'
    BY <1>16 DEF DeleteRow, RemoveRow, JobInv, TypeOK,
      Segment, Stages, InFlight, Terminal, StatusByPlace
  <2>4. MemoryIsEmpty' /\ OneOwner'
    BY <1>16 DEF DeleteRow, RemoveRow, JobInv, MemoryIsEmpty, OneOwner
  <2>. QED
    BY <2>1, <2>2, <2>3, <2>4 DEF JobInv
<1>17. ASSUME NEW j \in Jobs, DeleteFiles(j) PROVE JobInv'
  <2>1. HandlerOwns'
    BY <1>17 DEF DeleteFiles, JobInv, TypeOK,
      Segment, Stages, InFlight, Terminal, HandlerOwns, InQueue, Held
  <2>2. BornFirst'
    BY <1>17 DEF DeleteFiles, JobInv, TypeOK,
      Segment, Stages, InFlight, Terminal, BornFirst
  <2>3. MemoryIsEmpty' /\ OneOwner' /\ StatusByPlace'
    BY <1>17 DEF DeleteFiles, JobInv, MemoryIsEmpty, OneOwner, StatusByPlace
  <2>. QED
    BY <2>1, <2>2, <2>3 DEF JobInv
<1>18. ASSUME NEW j \in Jobs, PruneRow(j) PROVE JobInv'
  <2>1. HandlerOwns'
    <3>1. status[j] \notin {"queued"} /\ j \in born
      BY <1>18 DEF PruneRow, JobInv, BornFirst, Terminal
    <3>2. \A k \in Jobs : status'[k] = IF k = j THEN "none" ELSE status[k]
      BY <1>18 DEF PruneRow, RemoveRow, TypeOK
    <3>. QED
      BY <1>18, <3>1, <3>2 DEF PruneRow, RemoveRow, JobInv, HandlerOwns, InQueue, Held
  <2>2. BornFirst'
    BY <1>18 DEF PruneRow, RemoveRow, JobInv, TypeOK,
      Segment, Stages, InFlight, Terminal, BornFirst
  <2>3. StatusByPlace'
    BY <1>18 DEF PruneRow, RemoveRow, JobInv, TypeOK,
      Segment, Stages, InFlight, Terminal, StatusByPlace
  <2>4. MemoryIsEmpty' /\ OneOwner'
    BY <1>18 DEF PruneRow, RemoveRow, JobInv, MemoryIsEmpty, OneOwner
  <2>. QED
    BY <2>1, <2>2, <2>3, <2>4 DEF JobInv
<1>19. ASSUME NEW j \in Jobs, PruneFault(j) PROVE JobInv'
  <2>1. BornFirst'
    BY <1>19 DEF PruneFault, JobInv, TypeOK,
      Segment, Stages, InFlight, Terminal, BornFirst
  <2>2. MemoryIsEmpty' /\ OneOwner' /\ HandlerOwns' /\ StatusByPlace'
    BY <1>19 DEF PruneFault, JobInv, MemoryIsEmpty, OneOwner, HandlerOwns, StatusByPlace, InQueue, Held
  <2>. QED
    BY <2>1, <2>2 DEF JobInv
<1>20. ASSUME NEW j \in Jobs, ThreadWrite(j) PROVE JobInv'
  BY <1>20 DEF ThreadWrite, JobInv, MemoryIsEmpty, OneOwner, HandlerOwns, BornFirst, StatusByPlace, InQueue, Held
<1>21. ASSUME NEW j \in Jobs, ThreadReturns(j) PROVE JobInv'
  BY <1>21 DEF ThreadReturns, Outcome, JobInv, MemoryIsEmpty, OneOwner, HandlerOwns, BornFirst, StatusByPlace, InQueue, Held
<1>22. ASSUME NEW j \in Jobs, ThreadRaises(j) PROVE JobInv'
  BY <1>22 DEF ThreadRaises, Outcome, JobInv, MemoryIsEmpty, OneOwner, HandlerOwns, BornFirst, StatusByPlace, InQueue, Held
<1>23. ASSUME NEW w \in Workers, Dequeue(w) PROVE JobInv'
  <2>1. /\ queue # <<>> /\ queue \in Seq(Jobs) /\ Head(queue) \in Jobs /\ queue' = Tail(queue)
        /\ wjob' = [wjob EXCEPT ![w] = Head(queue)]
    BY <1>23, QueueEnds DEF Dequeue, TypeOK
  <2>2. MemoryIsEmpty'
    BY <1>23, <2>1, QueueEnds DEF Dequeue, Goto, JobInv, TypeOK,
      Segment, Stages, InFlight, Terminal, MemoryIsEmpty
  <2>3. OneOwner'
    <3>1. /\ 1 \in DOMAIN queue /\ Head(queue) = queue[1] /\ Len(queue) \in Nat
          /\ DOMAIN queue = 1..Len(queue) /\ DOMAIN queue' = 1..(Len(queue) - 1)
          /\ \A k \in DOMAIN queue' : queue'[k] = queue[k + 1] /\ k + 1 \in DOMAIN queue
      BY <2>1, QueueEnds
    <3>2. wjob'[w] = queue[1] /\ \A v \in Workers : v # w => wjob'[v] = wjob[v]
      BY <2>1, <3>1 DEF TypeOK
    <3>3. OneOwner
      BY DEF JobInv
    <3>4. \A k, l \in DOMAIN queue' : queue'[k] = queue'[l] => k = l
      BY <3>1, <3>3 DEF OneOwner
    <3>5. \A k \in DOMAIN queue', v \in Workers : queue'[k] # wjob'[v]
      BY <3>1, <3>2, <3>3 DEF OneOwner
    <3>6. \A v, u \in Workers : wjob'[v] = wjob'[u] /\ wjob'[v] # NoJob => v = u
      BY <3>1, <3>2, <3>3 DEF OneOwner
    <3>. QED
      BY <3>4, <3>5, <3>6 DEF OneOwner
  <2>4. HandlerOwns'
    BY <1>23, <2>1, QueueEnds DEF Dequeue, Goto, JobInv, TypeOK,
      Segment, Stages, InFlight, Terminal, HandlerOwns, InQueue, Held
  <2>5. StatusByPlace'
    BY <1>23, <2>1, QueueEnds DEF Dequeue, Goto, JobInv, TypeOK,
      Segment, Stages, InFlight, Terminal, OneOwner, StatusByPlace
  <2>6. BornFirst'
    BY <1>23 DEF Dequeue, Goto, JobInv, BornFirst
  <2>. QED
    BY <2>2, <2>3, <2>4, <2>5, <2>6 DEF JobInv
<1>24. ASSUME NEW w \in Workers, SkipMissing(w) PROVE JobInv'
  <2>1. wjob[w] \in Jobs
    BY <1>24, WorkerHoldsJob DEF SkipMissing, Segment, Stages, Timed
  <2>2. MemoryIsEmpty'
    BY <1>24, <2>1 DEF SkipMissing, Goto, Release, JobInv, TypeOK,
      Segment, Stages, InFlight, Terminal, MemoryIsEmpty
  <2>3. OneOwner'
    BY <1>24, ReleaseKeepsOwners DEF SkipMissing, JobInv
  <2>4. HandlerOwns'
    <3>1. \A j \in Jobs : InQueue(j)' \/ Held(j)' => InQueue(j) \/ Held(j)
      BY <1>24, <2>1, JobsAssumption DEF SkipMissing, Goto, Release, InQueue, Held, TypeOK
    <3>2. \A j \in Jobs : status'[j] # status[j] \/ runs'[j] # runs[j] => Held(j)
      BY <1>24, <2>1 DEF SkipMissing, Held, TypeOK
    <3>. QED
      BY <1>24, <3>1, <3>2, HandlerKeepsOwning DEF SkipMissing, JobInv
  <2>5. StatusByPlace'
    BY <1>24, <2>1 DEF SkipMissing, Goto, Release, JobInv, TypeOK,
      Segment, Stages, InFlight, Terminal, StatusByPlace
  <2>6. BornFirst'
    BY <1>24 DEF SkipMissing, Goto, Release, JobInv, BornFirst
  <2>. QED
    BY <2>2, <2>3, <2>4, <2>5, <2>6 DEF JobInv
<1>25. ASSUME NEW w \in Workers, LoadJob(w) PROVE JobInv'
  <2>1. wjob[w] \in Jobs
    BY <1>25, WorkerHoldsJob DEF LoadJob, Segment, Stages, Timed
  <2>2. StatusByPlace'
    BY <1>25, <2>1 DEF LoadJob, Goto, JobInv, TypeOK,
      Segment, Stages, InFlight, Terminal, StatusByPlace
  <2>3. MemoryIsEmpty' /\ OneOwner' /\ HandlerOwns' /\ BornFirst'
    BY <1>25 DEF LoadJob, Goto, JobInv, MemoryIsEmpty, OneOwner, HandlerOwns, BornFirst, InQueue, Held
  <2>. QED
    BY <2>2, <2>3 DEF JobInv
<1>26. ASSUME NEW w \in Workers, MarkRunning(w) PROVE JobInv'
  <2>1. wjob[w] \in Jobs
    BY <1>26, WorkerHoldsJob DEF MarkRunning, Segment, Stages, Timed
  <2>2. \A k \in Jobs :
          status'[k] = IF k = wjob[w] /\ status[k] # "none" THEN "running" ELSE status[k]
    BY <1>26, <2>1, SetStatusChanges DEF MarkRunning, Status, Terminal
  <2>3. HandlerOwns'
    <3>1. \A j \in Jobs : InQueue(j)' \/ Held(j)' => InQueue(j) \/ Held(j)
      BY <1>26, <2>1, <2>2, JobsAssumption DEF MarkRunning, Goto, InQueue, Held, TypeOK
    <3>2. \A j \in Jobs : status'[j] # status[j] \/ runs'[j] # runs[j] => Held(j)
      BY <1>26, <2>1, <2>2 DEF MarkRunning, Held, TypeOK
    <3>. QED
      BY <1>26, <3>1, <3>2, HandlerKeepsOwning DEF MarkRunning, JobInv
  <2>4. BornFirst'
    <3>1. status[wjob[w]] \in {"queued", "none"}
      BY <1>26 DEF MarkRunning, JobInv, StatusByPlace
    <3>. QED
      BY <1>26, <2>1, <2>2, <3>1 DEF MarkRunning, JobInv, TypeOK, BornFirst, Terminal
  <2>5. StatusByPlace'
    <3>1. \A i \in DOMAIN queue : queue[i] \in Jobs /\ queue[i] # wjob[w]
      BY DEF JobInv, OneOwner, TypeOK
    <3>2. \A v \in Workers : v # w => wjob[v] # wjob[w] /\ wpc'[v] = wpc[v] /\ wjob'[v] = wjob[v]
      BY <1>26, <2>1, <2>2, JobsAssumption DEF MarkRunning, Goto, JobInv, OneOwner, TypeOK
    <3>3. \A j \in Jobs : runs'[j] \in {0, 1} /\ (status'[j] = "queued" => runs'[j] = 0)
      BY <1>26, <2>1, <2>2 DEF MarkRunning, JobInv, StatusByPlace, TypeOK
    <3>4. \A i \in DOMAIN queue' :
            runs'[queue'[i]] = 0 /\ status'[queue'[i]] \in {"queued", "none"}
      BY <1>26, <2>1, <2>2, <3>1 DEF MarkRunning, JobInv, StatusByPlace, TypeOK
    <3>5. \A v \in Workers :
            /\ wpc'[v] \in {"got", "loaded"} =>
                 runs'[wjob'[v]] = 0 /\ status'[wjob'[v]] \in {"queued", "none"}
            /\ wpc'[v] \in {"running", "finishing"} \cup Stages =>
                 status'[wjob'[v]] \in {"running", "none"}
            /\ wpc'[v] = "failing" => status'[wjob'[v]] \in {"queued", "running", "none"}
      <4> SUFFICES ASSUME NEW v \in Workers PROVE <3>5!(v)
        OBVIOUS
      <4>1. CASE v = w
        BY <1>26, <2>1, <2>2, <4>1 DEF MarkRunning, Goto, JobInv, StatusByPlace, TypeOK, Stages
      <4>2. CASE v # w
        <5>1. wpc[v] \in Segment \cup Stages => wjob[v] \in Jobs
          BY WorkerHoldsJob
        <5>. QED
          BY <1>26, <2>1, <2>2, <4>2, <3>2, <5>1 DEF MarkRunning, JobInv, StatusByPlace, TypeOK, Segment, Stages
      <4>. QED
        BY <4>1, <4>2
    <3>. QED
      BY <3>3, <3>4, <3>5 DEF StatusByPlace
  <2>6. MemoryIsEmpty' /\ OneOwner'
    BY <1>26 DEF MarkRunning, Goto, JobInv, MemoryIsEmpty, OneOwner
  <2>. QED
    BY <2>3, <2>4, <2>5, <2>6 DEF JobInv
<1>27. ASSUME NEW w \in Workers, StartRunner(w) PROVE JobInv'
  <2>1. wjob[w] \in Jobs
    BY <1>27, WorkerHoldsJob DEF StartRunner, Segment, Stages, Timed
  <2>2. StatusByPlace'
    BY <1>27, <2>1 DEF StartRunner, Goto, JobInv, TypeOK,
      Segment, Stages, InFlight, Terminal, StatusByPlace
  <2>3. MemoryIsEmpty' /\ OneOwner' /\ HandlerOwns' /\ BornFirst'
    BY <1>27 DEF StartRunner, Goto, JobInv, MemoryIsEmpty, OneOwner, HandlerOwns, BornFirst, InQueue, Held
  <2>. QED
    BY <2>2, <2>3 DEF JobInv
<1>28. ASSUME NEW w \in Workers, Advance(w) PROVE JobInv'
  <2>1. wjob[w] \in Jobs
    BY <1>28, WorkerHoldsJob DEF Advance, Segment, Stages, Timed
  <2>2. StatusByPlace'
    BY <1>28, <2>1 DEF Advance, Goto, JobInv, TypeOK,
      Segment, Stages, InFlight, Terminal, StatusByPlace
  <2>3. MemoryIsEmpty' /\ OneOwner' /\ HandlerOwns' /\ BornFirst'
    BY <1>28 DEF Advance, Goto, JobInv, MemoryIsEmpty, OneOwner, HandlerOwns, BornFirst, InQueue, Held
  <2>. QED
    BY <2>2, <2>3 DEF JobInv
<1>29. ASSUME NEW w \in Workers, RejectJob(w) PROVE JobInv'
  <2>1. wjob[w] \in Jobs
    BY <1>29, WorkerHoldsJob DEF RejectJob, Segment, Stages, Timed
  <2>2. \A k \in Jobs :
          status'[k] = IF k = wjob[w] /\ status[k] # "none" THEN "failed" ELSE status[k]
    BY <1>29, <2>1, SetStatusChanges DEF RejectJob, Status, Terminal
  <2>3. MemoryIsEmpty'
    BY <1>29, <2>1, <2>2 DEF RejectJob, Goto, Release, JobInv, TypeOK,
      Segment, Stages, InFlight, Terminal, MemoryIsEmpty
  <2>4. OneOwner'
    BY <1>29, ReleaseKeepsOwners DEF RejectJob, JobInv
  <2>5. HandlerOwns'
    <3>1. \A j \in Jobs : InQueue(j)' \/ Held(j)' => InQueue(j) \/ Held(j)
      BY <1>29, <2>1, <2>2, JobsAssumption DEF RejectJob, Goto, Release, InQueue, Held, TypeOK
    <3>2. \A j \in Jobs : status'[j] # status[j] \/ runs'[j] # runs[j] => Held(j)
      BY <1>29, <2>1, <2>2 DEF RejectJob, Held, TypeOK
    <3>. QED
      BY <1>29, <3>1, <3>2, HandlerKeepsOwning DEF RejectJob, JobInv
  <2>6. BornFirst'
    BY <1>29, <2>1, <2>2 DEF RejectJob, Goto, Release, JobInv, TypeOK,
      Segment, Stages, InFlight, Terminal, BornFirst, StatusByPlace
  <2>7. StatusByPlace'
    <3>1. \A i \in DOMAIN queue : queue[i] \in Jobs /\ queue[i] # wjob[w]
      BY DEF JobInv, OneOwner, TypeOK
    <3>2. \A v \in Workers : v # w => wjob[v] # wjob[w] /\ wpc'[v] = wpc[v] /\ wjob'[v] = wjob[v]
      BY <1>29, <2>1, <2>2, JobsAssumption DEF RejectJob, Goto, Release, JobInv, OneOwner, TypeOK
    <3>3. \A j \in Jobs : runs'[j] \in {0, 1} /\ (status'[j] = "queued" => runs'[j] = 0)
      BY <1>29, <2>1, <2>2 DEF RejectJob, JobInv, StatusByPlace, TypeOK
    <3>4. \A i \in DOMAIN queue' :
            runs'[queue'[i]] = 0 /\ status'[queue'[i]] \in {"queued", "none"}
      BY <1>29, <2>1, <2>2, <3>1 DEF RejectJob, JobInv, StatusByPlace, TypeOK
    <3>5. \A v \in Workers :
            /\ wpc'[v] \in {"got", "loaded"} =>
                 runs'[wjob'[v]] = 0 /\ status'[wjob'[v]] \in {"queued", "none"}
            /\ wpc'[v] \in {"running", "finishing"} \cup Stages =>
                 status'[wjob'[v]] \in {"running", "none"}
            /\ wpc'[v] = "failing" => status'[wjob'[v]] \in {"queued", "running", "none"}
      <4> SUFFICES ASSUME NEW v \in Workers PROVE <3>5!(v)
        OBVIOUS
      <4>1. CASE v = w
        BY <1>29, <2>1, <2>2, <4>1 DEF RejectJob, Goto, Release, JobInv, StatusByPlace, TypeOK, Stages
      <4>2. CASE v # w
        <5>1. wpc[v] \in Segment \cup Stages => wjob[v] \in Jobs
          BY WorkerHoldsJob
        <5>. QED
          BY <1>29, <2>1, <2>2, <4>2, <3>2, <5>1 DEF RejectJob, JobInv, StatusByPlace, TypeOK, Segment, Stages
      <4>. QED
        BY <4>1, <4>2
    <3>. QED
      BY <3>3, <3>4, <3>5 DEF StatusByPlace
  <2>. QED
    BY <2>3, <2>4, <2>5, <2>6, <2>7 DEF JobInv
<1>30. ASSUME NEW w \in Workers, FinishJob(w) PROVE JobInv'
  <2>1. wjob[w] \in Jobs
    BY <1>30, WorkerHoldsJob DEF FinishJob, Segment, Stages, Timed
  <2>2. \A k \in Jobs :
          status'[k] = IF k = wjob[w] /\ status[k] # "none" THEN "done" ELSE status[k]
    BY <1>30, <2>1, SetStatusChanges DEF FinishJob, Status, Terminal
  <2>3. MemoryIsEmpty'
    BY <1>30, <2>1, <2>2 DEF FinishJob, Goto, Release, JobInv, TypeOK,
      Segment, Stages, InFlight, Terminal, MemoryIsEmpty
  <2>4. OneOwner'
    BY <1>30, ReleaseKeepsOwners DEF FinishJob, JobInv
  <2>5. HandlerOwns'
    <3>1. \A j \in Jobs : InQueue(j)' \/ Held(j)' => InQueue(j) \/ Held(j)
      BY <1>30, <2>1, <2>2, JobsAssumption DEF FinishJob, Goto, Release, InQueue, Held, TypeOK
    <3>2. \A j \in Jobs : status'[j] # status[j] \/ runs'[j] # runs[j] => Held(j)
      BY <1>30, <2>1, <2>2 DEF FinishJob, Held, TypeOK
    <3>. QED
      BY <1>30, <3>1, <3>2, HandlerKeepsOwning DEF FinishJob, JobInv
  <2>6. BornFirst'
    BY <1>30, <2>1, <2>2 DEF FinishJob, Goto, Release, JobInv, TypeOK,
      Segment, Stages, InFlight, Terminal, BornFirst, StatusByPlace
  <2>7. StatusByPlace'
    <3>1. \A i \in DOMAIN queue : queue[i] \in Jobs /\ queue[i] # wjob[w]
      BY DEF JobInv, OneOwner, TypeOK
    <3>2. \A v \in Workers : v # w => wjob[v] # wjob[w] /\ wpc'[v] = wpc[v] /\ wjob'[v] = wjob[v]
      BY <1>30, <2>1, <2>2, JobsAssumption DEF FinishJob, Goto, Release, JobInv, OneOwner, TypeOK
    <3>3. \A j \in Jobs : runs'[j] \in {0, 1} /\ (status'[j] = "queued" => runs'[j] = 0)
      BY <1>30, <2>1, <2>2 DEF FinishJob, JobInv, StatusByPlace, TypeOK
    <3>4. \A i \in DOMAIN queue' :
            runs'[queue'[i]] = 0 /\ status'[queue'[i]] \in {"queued", "none"}
      BY <1>30, <2>1, <2>2, <3>1 DEF FinishJob, JobInv, StatusByPlace, TypeOK
    <3>5. \A v \in Workers :
            /\ wpc'[v] \in {"got", "loaded"} =>
                 runs'[wjob'[v]] = 0 /\ status'[wjob'[v]] \in {"queued", "none"}
            /\ wpc'[v] \in {"running", "finishing"} \cup Stages =>
                 status'[wjob'[v]] \in {"running", "none"}
            /\ wpc'[v] = "failing" => status'[wjob'[v]] \in {"queued", "running", "none"}
      <4> SUFFICES ASSUME NEW v \in Workers PROVE <3>5!(v)
        OBVIOUS
      <4>1. CASE v = w
        BY <1>30, <2>1, <2>2, <4>1 DEF FinishJob, Goto, Release, JobInv, StatusByPlace, TypeOK, Stages
      <4>2. CASE v # w
        <5>1. wpc[v] \in Segment \cup Stages => wjob[v] \in Jobs
          BY WorkerHoldsJob
        <5>. QED
          BY <1>30, <2>1, <2>2, <4>2, <3>2, <5>1 DEF FinishJob, JobInv, StatusByPlace, TypeOK, Segment, Stages
      <4>. QED
        BY <4>1, <4>2
    <3>. QED
      BY <3>3, <3>4, <3>5 DEF StatusByPlace
  <2>. QED
    BY <2>3, <2>4, <2>5, <2>6, <2>7 DEF JobInv
<1>31. ASSUME NEW w \in Workers, RunnerRaises(w) PROVE JobInv'
  <2>1. wjob[w] \in Jobs
    BY <1>31, WorkerHoldsJob DEF RunnerRaises, Segment, Stages, Timed
  <2>2. StatusByPlace'
    BY <1>31, <2>1 DEF RunnerRaises, Goto, JobInv, TypeOK,
      Segment, Stages, InFlight, Terminal, StatusByPlace
  <2>3. MemoryIsEmpty' /\ OneOwner' /\ HandlerOwns' /\ BornFirst'
    BY <1>31 DEF RunnerRaises, Goto, JobInv, MemoryIsEmpty, OneOwner, HandlerOwns, BornFirst, InQueue, Held
  <2>. QED
    BY <2>2, <2>3 DEF JobInv
<1>32. ASSUME NEW w \in Workers, Timeout(w) PROVE JobInv'
  <2>1. wjob[w] \in Jobs
    BY <1>32, WorkerHoldsJob DEF Timeout, Segment, Stages, Timed
  <2>2. StatusByPlace'
    BY <1>32, <2>1 DEF Timeout, Goto, AfterTimeout, Timed, JobInv, TypeOK,
      Segment, Stages, InFlight, Terminal, StatusByPlace
  <2>3. MemoryIsEmpty' /\ OneOwner' /\ HandlerOwns' /\ BornFirst'
    BY <1>32 DEF Timeout, Goto, AfterTimeout, Timed, JobInv, MemoryIsEmpty, OneOwner, HandlerOwns, BornFirst, InQueue, Held
  <2>. QED
    BY <2>2, <2>3 DEF JobInv
<1>33. ASSUME NEW w \in Workers, FailJob(w) PROVE JobInv'
  <2>1. wjob[w] \in Jobs
    BY <1>33, WorkerHoldsJob DEF FailJob, Segment, Stages, Timed
  <2>2. \A k \in Jobs :
          status'[k] = IF k = wjob[w] /\ status[k] # "none" THEN "failed" ELSE status[k]
    BY <1>33, <2>1, SetStatusChanges DEF FailJob, Status, Terminal
  <2>3. MemoryIsEmpty'
    BY <1>33, <2>1, <2>2 DEF FailJob, Goto, Release, JobInv, TypeOK,
      Segment, Stages, InFlight, Terminal, MemoryIsEmpty
  <2>4. OneOwner'
    BY <1>33, ReleaseKeepsOwners DEF FailJob, JobInv
  <2>5. HandlerOwns'
    <3>1. \A j \in Jobs : InQueue(j)' \/ Held(j)' => InQueue(j) \/ Held(j)
      BY <1>33, <2>1, <2>2, JobsAssumption DEF FailJob, Goto, Release, InQueue, Held, TypeOK
    <3>2. \A j \in Jobs : status'[j] # status[j] \/ runs'[j] # runs[j] => Held(j)
      BY <1>33, <2>1, <2>2 DEF FailJob, Held, TypeOK
    <3>. QED
      BY <1>33, <3>1, <3>2, HandlerKeepsOwning DEF FailJob, JobInv
  <2>6. BornFirst'
    BY <1>33, <2>1, <2>2 DEF FailJob, Goto, Release, JobInv, TypeOK,
      Segment, Stages, InFlight, Terminal, BornFirst, StatusByPlace
  <2>7. StatusByPlace'
    <3>1. \A i \in DOMAIN queue : queue[i] \in Jobs /\ queue[i] # wjob[w]
      BY DEF JobInv, OneOwner, TypeOK
    <3>2. \A v \in Workers : v # w => wjob[v] # wjob[w] /\ wpc'[v] = wpc[v] /\ wjob'[v] = wjob[v]
      BY <1>33, <2>1, <2>2, JobsAssumption DEF FailJob, Goto, Release, JobInv, OneOwner, TypeOK
    <3>3. \A j \in Jobs : runs'[j] \in {0, 1} /\ (status'[j] = "queued" => runs'[j] = 0)
      BY <1>33, <2>1, <2>2 DEF FailJob, JobInv, StatusByPlace, TypeOK
    <3>4. \A i \in DOMAIN queue' :
            runs'[queue'[i]] = 0 /\ status'[queue'[i]] \in {"queued", "none"}
      BY <1>33, <2>1, <2>2, <3>1 DEF FailJob, JobInv, StatusByPlace, TypeOK
    <3>5. \A v \in Workers :
            /\ wpc'[v] \in {"got", "loaded"} =>
                 runs'[wjob'[v]] = 0 /\ status'[wjob'[v]] \in {"queued", "none"}
            /\ wpc'[v] \in {"running", "finishing"} \cup Stages =>
                 status'[wjob'[v]] \in {"running", "none"}
            /\ wpc'[v] = "failing" => status'[wjob'[v]] \in {"queued", "running", "none"}
      <4> SUFFICES ASSUME NEW v \in Workers PROVE <3>5!(v)
        OBVIOUS
      <4>1. CASE v = w
        BY <1>33, <2>1, <2>2, <4>1 DEF FailJob, Goto, Release, JobInv, StatusByPlace, TypeOK, Stages
      <4>2. CASE v # w
        <5>1. wpc[v] \in Segment \cup Stages => wjob[v] \in Jobs
          BY WorkerHoldsJob
        <5>. QED
          BY <1>33, <2>1, <2>2, <4>2, <3>2, <5>1 DEF FailJob, JobInv, StatusByPlace, TypeOK, Segment, Stages
      <4>. QED
        BY <4>1, <4>2
    <3>. QED
      BY <3>3, <3>4, <3>5 DEF StatusByPlace
  <2>. QED
    BY <2>3, <2>4, <2>5, <2>6, <2>7 DEF JobInv
<1>34. ASSUME NEW w \in Workers, StoreFault(w) PROVE JobInv'
  <2>1. wjob[w] \in Jobs
    BY <1>34, WorkerHoldsJob DEF StoreFault, Segment, Stages, Timed
  <2>2. StatusByPlace'
    BY <1>34, <2>1 DEF StoreFault, Goto, JobInv, TypeOK,
      Segment, Stages, InFlight, Terminal, StatusByPlace
  <2>3. MemoryIsEmpty' /\ OneOwner' /\ HandlerOwns' /\ BornFirst'
    BY <1>34 DEF StoreFault, Goto, JobInv, MemoryIsEmpty, OneOwner, HandlerOwns, BornFirst, InQueue, Held
  <2>. QED
    BY <2>2, <2>3 DEF JobInv
<1>35. ASSUME NEW w \in Workers, WorkerDies(w) PROVE JobInv'
  <2>1. wjob[w] \in Jobs
    BY <1>35, WorkerHoldsJob DEF WorkerDies, Segment, Stages, Timed
  <2>2. MemoryIsEmpty'
    BY <1>35, <2>1 DEF WorkerDies, Goto, Release, JobInv, TypeOK,
      Segment, Stages, InFlight, Terminal, MemoryIsEmpty
  <2>3. OneOwner'
    BY <1>35, ReleaseKeepsOwners DEF WorkerDies, JobInv
  <2>4. HandlerOwns'
    <3>1. \A j \in Jobs : InQueue(j)' \/ Held(j)' => InQueue(j) \/ Held(j)
      BY <1>35, <2>1, JobsAssumption DEF WorkerDies, Goto, Release, InQueue, Held, TypeOK
    <3>2. \A j \in Jobs : status'[j] # status[j] \/ runs'[j] # runs[j] => Held(j)
      BY <1>35, <2>1 DEF WorkerDies, Held, TypeOK
    <3>. QED
      BY <1>35, <3>1, <3>2, HandlerKeepsOwning DEF WorkerDies, JobInv
  <2>5. StatusByPlace'
    BY <1>35, <2>1 DEF WorkerDies, Goto, Release, JobInv, TypeOK,
      Segment, Stages, InFlight, Terminal, StatusByPlace
  <2>6. BornFirst'
    BY <1>35 DEF WorkerDies, Goto, Release, JobInv, BornFirst
  <2>. QED
    BY <2>2, <2>3, <2>4, <2>5, <2>6 DEF JobInv
<1>36. ASSUME NEW w \in Workers, ThreadStart(w) PROVE JobInv'
  BY <1>36 DEF ThreadStart, JobInv, MemoryIsEmpty, OneOwner, HandlerOwns, BornFirst, StatusByPlace, InQueue, Held
<1>. QED
  BY NextCases, <1>0, <1>1, <1>2, <1>3, <1>4, <1>5, <1>6, <1>7, <1>8, <1>9, <1>10, <1>11, <1>12, <1>13, <1>14, <1>15, <1>16, <1>17, <1>18, <1>19, <1>20, <1>21, <1>22, <1>23, <1>24, <1>25, <1>26, <1>27, <1>28, <1>29, <1>30, <1>31, <1>32, <1>33, <1>34, <1>35, <1>36

\* The ownership invariant holds in every reachable state.
THEOREM JobInvHolds == Spec => []JobInv
<1>1. Init => JobInv
  BY JobsAssumption DEF Init, JobInv, MemoryIsEmpty, OneOwner, HandlerOwns, BornFirst,
    StatusByPlace, InQueue, Held, InFlight, Stages, Terminal
<1>. QED
  BY <1>1, TypeCorrect, JobInvPreserved, PTL DEF Spec

\* No id is ever in two places: two queue slots, two workers, or both.  Upload
\* and recovery both enqueue, and neither enqueues what the other has.
THEOREM NoJobHasTwoOwners == Spec => []OneOwner
<1>1. JobInv => OneOwner
  BY DEF JobInv
<1>. QED
  BY <1>1, JobInvHolds, PTL

\* The runner is entered at most once for a job over all restarts.
THEOREM NoJobRunsTwice == Spec => []AtMostOneRun
<1>1. JobInv => AtMostOneRun
  BY DEF JobInv, StatusByPlace, AtMostOneRun
<1>. QED
  BY <1>1, JobInvHolds, PTL

-----------------------------------------------------------------------------
(* Refinement of JobLifecycle.                                             *)

\* What a step does to the client's view of a job, from what it does to rows.
LEMMA JobStateMoves ==
  ASSUME NEW j \in Jobs, NEW s, \A k \in Jobs : status'[k] = IF k = j THEN s ELSE status[k]
  PROVE  /\ s # "none" /\ born' \in {born, born \cup {j}}
              => JobState' = [JobState EXCEPT ![j] = s]
         /\ s = "none" /\ UNCHANGED born /\ j \in born
              => JobState' = [JobState EXCEPT ![j] = "gone"]
         /\ JobState[j] = IF status[j] # "none" THEN status[j]
                          ELSE IF j \in born THEN "gone" ELSE "new"
BY DEF JobState

\* Every step of the server is a step of JobLifecycle or leaves the client's
\* view as it was.
LEMMA StepRefinesLifecycle ==
  TypeOK /\ JobInv /\ [Next]_vars => [Lifecycle!Next]_JobState
<1> SUFFICES ASSUME TypeOK, JobInv, [Next]_vars
             PROVE  Lifecycle!Next \/ UNCHANGED JobState
  OBVIOUS
<1>. USE DEF rowVars
<1>0. CASE UNCHANGED vars
  BY <1>0 DEF vars, JobState
<1>1. PruneList \/ PruneFiles \/ RequeueAndStart \/ Shutdown \/ Exit \/ Crash => UNCHANGED JobState
  BY DEF PruneList, PruneFiles, RequeueAndStart, Shutdown, Exit, Crash, JobState
<1>2. ASSUME NEW j \in Jobs,
       \/ StageUpload(j) \/ MoveInput(j) \/ UpdateRow(j) \/ Enqueue(j) \/ Acknowledge(j)
       \/ UploadFault(j) \/ DeleteCheck(j) \/ DeleteFiles(j) \/ PruneFault(j) \/ ThreadWrite(j)
       \/ ThreadReturns(j) \/ ThreadRaises(j)
      PROVE  UNCHANGED JobState
  BY <1>2 DEF StageUpload, MoveInput, UpdateRow, Enqueue, Acknowledge, UploadFault, DeleteCheck, DeleteFiles, PruneFault, ThreadWrite, ThreadReturns, ThreadRaises, Outcome, JobState
<1>3. ASSUME NEW w \in Workers,
       \/ Dequeue(w) \/ SkipMissing(w) \/ LoadJob(w) \/ StartRunner(w) \/ Advance(w)
       \/ RunnerRaises(w) \/ Timeout(w) \/ StoreFault(w) \/ WorkerDies(w) \/ ThreadStart(w)
      PROVE  UNCHANGED JobState
  BY <1>3 DEF Dequeue, SkipMissing, LoadJob, StartRunner, Advance, RunnerRaises, Timeout, StoreFault, WorkerDies, ThreadStart, JobState
<1>4. ASSUME FailRunningJobs PROVE Lifecycle!Interrupt
  BY <1>4 DEF FailRunningJobs, AfterRestart, Lifecycle!Interrupt, JobState
<1>5. ASSUME NEW j \in Jobs, CreateRow(j) PROVE Lifecycle!Accept(j)
  <2>1. j \notin born /\ status[j] = "none"
    BY <1>5 DEF CreateRow, JobInv, HandlerOwns
  <2>2. \A k \in Jobs : status'[k] = IF k = j THEN "queued" ELSE status[k]
    BY <1>5 DEF CreateRow, TypeOK
  <2>. QED
    BY <1>5, <2>1, <2>2, JobStateMoves DEF CreateRow, Lifecycle!Accept, Lifecycle!Move
<1>6. ASSUME NEW j \in Jobs, DeleteRow(j) \/ PruneRow(j)
      PROVE  Lifecycle!Remove(j) \/ UNCHANGED JobState
  <2>1. j \in born /\ UNCHANGED born
    BY <1>6 DEF DeleteRow, PruneRow, RemoveRow, JobInv, BornFirst
  <2>2. \A k \in Jobs : status'[k] = IF k = j THEN "none" ELSE status[k]
    BY <1>6 DEF DeleteRow, PruneRow, RemoveRow, TypeOK
  <2>3. CASE status[j] = "none"
    BY <2>1, <2>2, <2>3 DEF JobState
  <2>4. CASE status[j] # "none"
    <3>1. status[j] \in Lifecycle!Open \cup Lifecycle!Closed
      BY <2>4 DEF TypeOK, Status, Terminal, Lifecycle!Open, Lifecycle!Closed
    <3>. QED
      BY <2>1, <2>2, <2>4, <3>1, JobStateMoves DEF Lifecycle!Remove, Lifecycle!Move
  <2>. QED
    BY <2>3, <2>4
<1>7. ASSUME NEW w \in Workers, MarkRunning(w)
      PROVE  Lifecycle!Start(wjob[w]) \/ UNCHANGED JobState
  <2>1. wjob[w] \in Jobs /\ UNCHANGED born
    BY <1>7, WorkerHoldsJob DEF MarkRunning, Segment, Stages
  <2>2. \A k \in Jobs :
          status'[k] = IF k = wjob[w] /\ status[k] # "none" THEN "running" ELSE status[k]
    BY <1>7, <2>1, SetStatusChanges DEF MarkRunning, Status, Terminal
  <2>3. status[wjob[w]] \in {"queued"} \cup {"none"}
    BY <1>7 DEF MarkRunning, JobInv, StatusByPlace, Stages
  <2>4. CASE status[wjob[w]] = "none"
    BY <2>1, <2>2, <2>4 DEF JobState
  <2>5. CASE status[wjob[w]] # "none"
    <3>1. \A k \in Jobs : status'[k] = IF k = wjob[w] THEN "running" ELSE status[k]
      BY <2>2, <2>5
    <3>. QED
      BY <2>1, <2>3, <2>5, <3>1, JobStateMoves DEF Lifecycle!Start, Lifecycle!Move, Lifecycle!Open
  <2>. QED
    BY <2>4, <2>5
<1>8. ASSUME NEW w \in Workers, FinishJob(w)
      PROVE  Lifecycle!Finish(wjob[w]) \/ UNCHANGED JobState
  <2>1. wjob[w] \in Jobs /\ UNCHANGED born
    BY <1>8, WorkerHoldsJob DEF FinishJob, Segment, Stages
  <2>2. \A k \in Jobs :
          status'[k] = IF k = wjob[w] /\ status[k] # "none" THEN "done" ELSE status[k]
    BY <1>8, <2>1, SetStatusChanges DEF FinishJob, Status, Terminal
  <2>3. status[wjob[w]] \in {"running"} \cup {"none"}
    BY <1>8 DEF FinishJob, JobInv, StatusByPlace, Stages
  <2>4. CASE status[wjob[w]] = "none"
    BY <2>1, <2>2, <2>4 DEF JobState
  <2>5. CASE status[wjob[w]] # "none"
    <3>1. \A k \in Jobs : status'[k] = IF k = wjob[w] THEN "done" ELSE status[k]
      BY <2>2, <2>5
    <3>. QED
      BY <2>1, <2>3, <2>5, <3>1, JobStateMoves DEF Lifecycle!Finish, Lifecycle!Move, Lifecycle!Open
  <2>. QED
    BY <2>4, <2>5
<1>9. ASSUME NEW w \in Workers, RejectJob(w)
      PROVE  Lifecycle!Fail(wjob[w]) \/ UNCHANGED JobState
  <2>1. wjob[w] \in Jobs /\ UNCHANGED born
    BY <1>9, WorkerHoldsJob DEF RejectJob, Segment, Stages
  <2>2. \A k \in Jobs :
          status'[k] = IF k = wjob[w] /\ status[k] # "none" THEN "failed" ELSE status[k]
    BY <1>9, <2>1, SetStatusChanges DEF RejectJob, Status, Terminal
  <2>3. status[wjob[w]] \in {"running"} \cup {"none"}
    BY <1>9 DEF RejectJob, JobInv, StatusByPlace, Stages
  <2>4. CASE status[wjob[w]] = "none"
    BY <2>1, <2>2, <2>4 DEF JobState
  <2>5. CASE status[wjob[w]] # "none"
    <3>1. \A k \in Jobs : status'[k] = IF k = wjob[w] THEN "failed" ELSE status[k]
      BY <2>2, <2>5
    <3>. QED
      BY <2>1, <2>3, <2>5, <3>1, JobStateMoves DEF Lifecycle!Fail, Lifecycle!Move, Lifecycle!Open
  <2>. QED
    BY <2>4, <2>5
<1>10. ASSUME NEW w \in Workers, FailJob(w)
      PROVE  Lifecycle!Fail(wjob[w]) \/ UNCHANGED JobState
  <2>1. wjob[w] \in Jobs /\ UNCHANGED born
    BY <1>10, WorkerHoldsJob DEF FailJob, Segment, Stages
  <2>2. \A k \in Jobs :
          status'[k] = IF k = wjob[w] /\ status[k] # "none" THEN "failed" ELSE status[k]
    BY <1>10, <2>1, SetStatusChanges DEF FailJob, Status, Terminal
  <2>3. status[wjob[w]] \in {"queued", "running"} \cup {"none"}
    BY <1>10 DEF FailJob, JobInv, StatusByPlace, Stages
  <2>4. CASE status[wjob[w]] = "none"
    BY <2>1, <2>2, <2>4 DEF JobState
  <2>5. CASE status[wjob[w]] # "none"
    <3>1. \A k \in Jobs : status'[k] = IF k = wjob[w] THEN "failed" ELSE status[k]
      BY <2>2, <2>5
    <3>. QED
      BY <2>1, <2>3, <2>5, <3>1, JobStateMoves DEF Lifecycle!Fail, Lifecycle!Move, Lifecycle!Open
  <2>. QED
    BY <2>4, <2>5
<1>11. ASSUME NEW w \in Workers,
              MarkRunning(w) \/ FinishJob(w) \/ RejectJob(w) \/ FailJob(w)
       PROVE  wjob[w] \in Jobs
  BY <1>11, WorkerHoldsJob DEF MarkRunning, FinishJob, RejectJob, FailJob, Segment, Stages
<1>. QED
  BY NextCases, <1>0, <1>1, <1>2, <1>3, <1>4, <1>5, <1>6, <1>7, <1>8, <1>9, <1>10, <1>11
  DEF Lifecycle!Next, Lifecycle!Step

\* The server implements the life of a job that JobLifecycle promises.
THEOREM ServerImplementsLifecycle == Spec => ImplementsLifecycle
<1>1. Init => Lifecycle!Init
  BY DEF Init, Lifecycle!Init, JobState
<1>. QED
  BY <1>1, StepRefinesLifecycle, TypeCorrect, JobInvHolds, PTL
  DEF Spec, ImplementsLifecycle, Lifecycle!Spec

\* A finished job keeps its status until its row is removed: JobLifecycle lets
\* a closed job only go.
THEOREM FinishedJobsStayFinished == Spec => TerminalIsFinal
<1>1. TypeOK /\ TypeOK' /\ JobInv /\ [Next]_vars =>
        \A j \in Jobs : status[j] \in Terminal => status'[j] \in {status[j], "none"}
  <2> SUFFICES ASSUME TypeOK, TypeOK', JobInv, [Next]_vars,
                      NEW j \in Jobs, status[j] \in Terminal
               PROVE  status'[j] \in {status[j], "none"}
    OBVIOUS
  <2>1. /\ JobState \in [Jobs -> {"new", "gone"} \cup Status]
        /\ JobState[j] = status[j]
        /\ JobState'[j] = IF status'[j] # "none" THEN status'[j]
                          ELSE IF j \in born' THEN "gone" ELSE "new"
    BY DEF JobState, TypeOK, Terminal
  <2>2. JobState'[j] \in {JobState[j], "gone"}
    <3>1. CASE UNCHANGED JobState
      BY <3>1
    <3>2. CASE Lifecycle!Next
      BY <2>1, <3>2 DEF Lifecycle!Next, Lifecycle!Step, Lifecycle!Accept, Lifecycle!Start,
        Lifecycle!Finish, Lifecycle!Fail, Lifecycle!Remove, Lifecycle!Move, Lifecycle!Open,
        Lifecycle!Closed, Lifecycle!Interrupt, Terminal
    <3>. QED
      BY <3>1, <3>2, StepRefinesLifecycle
  <2>. QED
    BY <2>1, <2>2, ZenonT(30) DEF TypeOK, Status, Terminal
<1>2. TypeOK /\ TypeOK' /\ JobInv /\ [Next]_vars =>
        [\A j \in Jobs : status[j] \in Terminal => status'[j] \in {status[j], "none"}]_vars
  BY <1>1
<1>. QED
  BY <1>2, TypeCorrect, JobInvHolds, PTL DEF Spec, TerminalIsFinal

-----------------------------------------------------------------------------
(* Artifacts: a served result exists and is not being written, a directory *)
(* without a row has an explanation, a live row is on its way and an       *)
(* accepted job is complete.                                               *)

\* What ThreadByPlace says of a worker and of the job in its hands.
CallOf(w, j) ==
  /\ wpc[w] \in Stages => tstage[j] = wpc[w] /\ tstate[j] # "none"
  /\ wpc[w] \in {"running", "finishing"} => tstate[j] = "none"
  /\ wpc[w] \in {"running", "finishing"} \cup Stages => wjob[w] = j /\ runs[j] = 1
  /\ runs[j] = 0 => tstate[j] = "none"
  /\ tstate[j] \in {"pending", "ok", "raised"} => wpc[w] \in Stages
  /\ tstate[j] \in Live => tstage[j] \in Stages
  /\ tstate[j] = "written" => Writes(tstage[j]) # {}

\* A worker past the queue holds a job, and no other worker holds it.
LEMMA OnlyHolder ==
  ASSUME TypeOK, JobInv, NEW w \in Workers, wpc[w] \in Segment \cup Stages
  PROVE  wjob[w] \in Jobs /\ \A v \in Workers \ {w} : wjob[v] # wjob[w]
<1>1. wjob[w] \in Jobs
  BY WorkerHoldsJob
<1>2. wjob[w] # NoJob
  BY <1>1, JobsAssumption
<1> QED
  BY <1>1, <1>2 DEF JobInv, OneOwner

\* A step of a worker keeps ThreadByPlace if it keeps it for the job in its hands.
LEMMA WorkerMoves ==
  ASSUME TypeOK, TypeOK', ThreadByPlace, NEW w \in Workers, NEW j \in Jobs,
         wjob[w] = j \/ wpc[w] \notin Stages,
         \A v \in Workers \ {w} : wjob[v] # j /\ wpc'[v] = wpc[v] /\ wjob'[v] = wjob[v],
         \A k \in Jobs \ {j} :
           tstage'[k] = tstage[k] /\ tstate'[k] = tstate[k] /\ runs'[k] = runs[k],
         CallOf(w, j)'
  PROVE  ThreadByPlace'
<1>1. ASSUME NEW v \in Workers \ {w}
      PROVE  /\ wpc'[v] \in Stages => tstage'[wjob'[v]] = wpc'[v] /\ tstate'[wjob'[v]] # "none"
             /\ wpc'[v] \in {"running", "finishing"} => tstate'[wjob'[v]] = "none"
             /\ wpc'[v] \in {"running", "finishing"} \cup Stages => runs'[wjob'[v]] = 1
  <2>1. CASE wpc[v] \in Segment \cup Stages
    <3>1. wjob[v] \in Jobs \ {j}
      BY <2>1, WorkerHoldsJob
    <3> QED
      BY <3>1 DEF ThreadByPlace
  <2>2. CASE wpc[v] \notin Segment \cup Stages
    BY <2>2 DEF Segment
  <2> QED
    BY <2>1, <2>2
<1>2. /\ wpc'[w] \in Stages => tstage'[wjob'[w]] = wpc'[w] /\ tstate'[wjob'[w]] # "none"
      /\ wpc'[w] \in {"running", "finishing"} => tstate'[wjob'[w]] = "none"
      /\ wpc'[w] \in {"running", "finishing"} \cup Stages => runs'[wjob'[w]] = 1
  BY DEF CallOf
<1>3. ASSUME NEW k \in Jobs
      PROVE  /\ runs'[k] = 0 => tstate'[k] = "none"
             /\ tstate'[k] \in Live => tstage'[k] \in Stages
             /\ tstate'[k] = "written" => Writes(tstage'[k]) # {}
  BY DEF ThreadByPlace, CallOf
<1>4. ASSUME NEW k \in Jobs, tstate'[k] \in {"pending", "ok", "raised"}
      PROVE  \E v \in Workers : wjob'[v] = k /\ wpc'[v] \in Stages
  BY <1>4 DEF ThreadByPlace, CallOf, Attached
<1> QED
  BY <1>1, <1>2, <1>3, <1>4 DEF ThreadByPlace, Attached

\* So does a step of a running thread.
LEMMA ThreadMoves ==
  ASSUME TypeOK, TypeOK', ThreadByPlace, NEW j \in Jobs, NEW x, tstate[j] \in Live,
         tstate' = [tstate EXCEPT ![j] = x], UNCHANGED <<wpc, wjob, tstage, runs>>,
         x = "none" => ~Attached(j),
         x \in {"ok", "raised"} => Attached(j),
         x = "written" => Writes(tstage[j]) # {},
         x # "pending"
  PROVE  ThreadByPlace'
<1>1. \A w \in Workers : wpc[w] \in {"running", "finishing"} => wjob[w] # j
  BY DEF ThreadByPlace, Live
<1>2. runs[j] # 0
  BY DEF ThreadByPlace, Live
<1>3. \A k \in Jobs : tstate'[k] = IF k = j THEN x ELSE tstate[k]
  BY DEF TypeOK
<1>4. \A w \in Workers :
        /\ wpc[w] \in Stages => tstage[wjob[w]] = wpc[w] /\ tstate'[wjob[w]] # "none"
        /\ wpc[w] \in {"running", "finishing"} => tstate'[wjob[w]] = "none"
        /\ wpc[w] \in {"running", "finishing"} \cup Stages => runs[wjob[w]] = 1
  BY <1>1, <1>3, WorkerHoldsJob DEF ThreadByPlace, Attached, Segment
<1>5. \A k \in Jobs :
        /\ runs[k] = 0 => tstate'[k] = "none"
        /\ tstate'[k] \in {"pending", "ok", "raised"} => Attached(k)
        /\ tstate'[k] \in Live => tstage[k] \in Stages
        /\ tstate'[k] = "written" => Writes(tstage[k]) # {}
  BY <1>2, <1>3 DEF ThreadByPlace
<1>6. \A k \in Jobs : Attached(k)' <=> Attached(k)
  BY DEF Attached
<1> QED
  BY <1>4, <1>5, <1>6 DEF ThreadByPlace

\* Whoever may still empty a directory has removed the row first.
LEMMA RemovalAfterRowPreserved ==
  ASSUME TypeOK, TypeOK', JobInv, RemovalAfterRow, [Next]_vars
  PROVE  RemovalAfterRow'
<1> USE JobsAssumption DEF rowVars, fileVars, webVars, prunerVars, workerVars,
      threadVars, faultVars, TypeOK, Segment, Stages, RemovalAfterRow, JobInv,
      HandlerOwns, BornFirst
<1>1. CASE FailRunningJobs
  BY <1>1 DEF FailRunningJobs, AfterRestart
<1>2. CASE Crash
  BY <1>2 DEF Crash
<1>3. CASE PruneFiles
  <2>1. Leaves
    BY <1>3, RemovalLeaves
  <2> HIDE DEF TypeOK
  <2> QED
    BY <2>1 DEF Leaves
<1>4. ASSUME NEW j \in Jobs, CreateRow(j) PROVE RemovalAfterRow'
  BY <1>4 DEF CreateRow
<1>5. ASSUME NEW j \in Jobs, DeleteCheck(j) PROVE RemovalAfterRow'
  BY <1>5 DEF DeleteCheck
<1>6. ASSUME NEW j \in Jobs, DeleteRow(j) PROVE RemovalAfterRow'
  BY <1>6 DEF DeleteRow, RemoveRow
<1>7. ASSUME NEW j \in Jobs, DeleteFiles(j) PROVE RemovalAfterRow'
  <2>1. Leaves
    BY <1>7, RemovalLeaves
  <2> HIDE DEF TypeOK
  <2> QED
    BY <2>1 DEF Leaves
<1>8. ASSUME NEW j \in Jobs, PruneRow(j) PROVE RemovalAfterRow'
  BY <1>8 DEF PruneRow, RemoveRow
<1>9. ASSUME NEW w \in Workers, MarkRunning(w) PROVE RemovalAfterRow'
  BY <1>9 DEF MarkRunning, Goto, SetStatus
<1>10. ASSUME NEW w \in Workers, RejectJob(w) PROVE RemovalAfterRow'
  BY <1>10 DEF RejectJob, Release, Goto, SetStatus
<1>11. ASSUME NEW w \in Workers, FinishJob(w) PROVE RemovalAfterRow'
  BY <1>11 DEF FinishJob, Release, Goto, SetStatus
<1>12. ASSUME NEW w \in Workers, FailJob(w) PROVE RemovalAfterRow'
  BY <1>12 DEF FailJob, Release, Goto, SetStatus
<1>13. ASSUME \/ RequeueAndStart \/ Shutdown \/ Exit \/ PruneList
      PROVE  RemovalAfterRow'
  <2>1. UNCHANGED <<del, pruning, status>>
    BY <1>13 DEF RequeueAndStart, Shutdown, Exit, PruneList
  <2> QED
    BY <2>1
<1>14. ASSUME NEW j \in Jobs,
             \/ StageUpload(j) \/ MoveInput(j) \/ UpdateRow(j) \/ Enqueue(j)
             \/ Acknowledge(j) \/ UploadFault(j) \/ PruneFault(j) \/ ThreadWrite(j)
             \/ ThreadReturns(j) \/ ThreadRaises(j)
      PROVE  RemovalAfterRow'
  <2>1. UNCHANGED <<del, pruning, status>>
    BY <1>14 DEF StageUpload, MoveInput, UpdateRow, Enqueue, Acknowledge, UploadFault,
              PruneFault, ThreadWrite, ThreadReturns, ThreadRaises, Fault, Finalise,
              Outcome, Put
  <2> QED
    BY <2>1
<1>15. ASSUME NEW w \in Workers,
             \/ Dequeue(w) \/ SkipMissing(w) \/ LoadJob(w) \/ StartRunner(w)
             \/ Advance(w) \/ RunnerRaises(w) \/ Timeout(w) \/ StoreFault(w)
             \/ WorkerDies(w) \/ ThreadStart(w)
      PROVE  RemovalAfterRow'
  <2>1. UNCHANGED <<del, pruning, status>>
    BY <1>15 DEF Dequeue, SkipMissing, LoadJob, StartRunner, Advance, RunnerRaises,
              Timeout, StoreFault, WorkerDies, ThreadStart, AfterTimeout, Fault,
              Goto, Release, Submit, Timed
  <2> QED
    BY <2>1
<1>16. CASE UNCHANGED vars
  BY <1>16 DEF vars
<1> HIDE DEF TypeOK, RemovalAfterRow, JobInv, HandlerOwns, BornFirst
<1> QED
  BY NextCases,
     <1>1, <1>2, <1>3, <1>4, <1>5, <1>6, <1>7, <1>8, <1>9, <1>10, <1>11, <1>12,
     <1>13, <1>14, <1>15, <1>16

\* Every step keeps the bond between a worker and the call it awaits.
LEMMA ThreadByPlacePreserved ==
  ASSUME TypeOK, TypeOK', JobInv, ThreadByPlace, [Next]_vars
  PROVE  ThreadByPlace'
<1> USE JobsAssumption DEF rowVars, fileVars, webVars, prunerVars, workerVars,
      threadVars, faultVars
<1>1. CASE RequeueAndStart
  <2>1. \A j \in Jobs : ~Attached(j)
    BY <1>1, JobsAssumption DEF RequeueAndStart, JobInv, MemoryIsEmpty, Attached
  <2> QED
    BY <1>1, <2>1 DEF RequeueAndStart, ThreadByPlace, Attached, Stages
<1>2. CASE Shutdown
  BY <1>2 DEF Shutdown, ThreadByPlace, Attached, Stages, Live
<1>3. CASE Crash
  BY <1>3 DEF Crash, ThreadByPlace, Attached, Stages, Live
<1>4. ASSUME NEW j \in Jobs, ThreadWrite(j) PROVE ThreadByPlace'
  BY <1>4, ThreadMoves DEF ThreadWrite, Live
<1>5. ASSUME NEW j \in Jobs, ThreadReturns(j) PROVE ThreadByPlace'
  <2>1. PICK x \in {"ok", "none"} : x = IF Attached(j) THEN "ok" ELSE "none"
    OBVIOUS
  <2>2. /\ tstate[j] \in Live /\ tstate' = [tstate EXCEPT ![j] = x]
        /\ UNCHANGED <<wpc, wjob, tstage, runs>>
    BY <1>5, <2>1 DEF ThreadReturns, Outcome, Live
  <2> QED
    BY <2>1, <2>2, ThreadMoves
<1>6. ASSUME NEW j \in Jobs, ThreadRaises(j) PROVE ThreadByPlace'
  <2>1. PICK x \in {"raised", "none"} : x = IF Attached(j) THEN "raised" ELSE "none"
    OBVIOUS
  <2>2. /\ tstate[j] \in Live /\ tstate' = [tstate EXCEPT ![j] = x]
        /\ UNCHANGED <<wpc, wjob, tstage, runs>>
    BY <1>6, <2>1 DEF ThreadRaises, Outcome, Live
  <2> QED
    BY <2>1, <2>2, ThreadMoves
<1>7. ASSUME NEW w \in Workers, Dequeue(w) PROVE ThreadByPlace'
  <2>1. PICK j \in Jobs : j = Head(queue) /\ runs[j] = 0 /\ \A v \in Workers : wjob[v] # j
    <3>1. queue \in Seq(Jobs) /\ queue # <<>>
      BY <1>7 DEF Dequeue, TypeOK
    <3> QED
      BY <3>1, QueueEnds DEF JobInv, OneOwner, StatusByPlace
  <2>2. wpc[w] = "idle" /\ wpc'[w] = "got" /\ wjob'[w] = j
    BY <1>7, <2>1 DEF Dequeue, Goto, TypeOK
  <2>3. UNCHANGED <<tstage, tstate, runs>>
    BY <1>7 DEF Dequeue
  <2>4. CallOf(w, j)'
    BY <2>1, <2>2, <2>3 DEF CallOf, ThreadByPlace, Live, Stages
  <2>5. \A v \in Workers \ {w} : wpc'[v] = wpc[v] /\ wjob'[v] = wjob[v]
    BY <1>7 DEF Dequeue, Goto, TypeOK
  <2> QED
    BY <2>1, <2>2, <2>3, <2>4, <2>5, WorkerMoves DEF Stages
<1>8. ASSUME NEW w \in Workers, SkipMissing(w) PROVE ThreadByPlace'
  <2>1. PICK j \in Jobs : j = wjob[w] /\ \A v \in Workers \ {w} : wjob[v] # j
    BY <1>8, OnlyHolder DEF SkipMissing, Segment, Stages
  <2>2. CallOf(w, j)'
    BY <1>8, <2>1 DEF SkipMissing, Release, Goto, CallOf, TypeOK, JobInv, StatusByPlace,
      ThreadByPlace, Attached, Live, Stages
  <2> QED
    BY <1>8, <2>1, <2>2, WorkerMoves DEF SkipMissing, Release, Goto, TypeOK
<1>9. ASSUME NEW w \in Workers, LoadJob(w) PROVE ThreadByPlace'
  <2>1. PICK j \in Jobs : j = wjob[w] /\ \A v \in Workers \ {w} : wjob[v] # j
    BY <1>9, OnlyHolder DEF LoadJob, Segment, Stages
  <2>2. CallOf(w, j)'
    BY <1>9, <2>1 DEF LoadJob, Goto, CallOf, TypeOK, JobInv, StatusByPlace,
      ThreadByPlace, Attached, Live, Stages
  <2> QED
    BY <1>9, <2>1, <2>2, WorkerMoves DEF LoadJob, Goto, TypeOK
<1>10. ASSUME NEW w \in Workers, MarkRunning(w) PROVE ThreadByPlace'
  <2>1. PICK j \in Jobs : j = wjob[w] /\ \A v \in Workers \ {w} : wjob[v] # j
    BY <1>10, OnlyHolder DEF MarkRunning, Segment, Stages
  <2>2. CallOf(w, j)'
    BY <1>10, <2>1 DEF MarkRunning, Goto, CallOf, TypeOK, JobInv, StatusByPlace,
      ThreadByPlace, Attached, Live, Stages
  <2> QED
    BY <1>10, <2>1, <2>2, WorkerMoves DEF MarkRunning, Goto, TypeOK
<1>11. ASSUME NEW w \in Workers, StartRunner(w) PROVE ThreadByPlace'
  <2>1. PICK j \in Jobs : j = wjob[w] /\ \A v \in Workers \ {w} : wjob[v] # j
    BY <1>11, OnlyHolder DEF StartRunner, Segment, Stages
  <2>2. CallOf(w, j)'
    BY <1>11, <2>1 DEF StartRunner, Goto, Submit, CallOf, TypeOK, JobInv, StatusByPlace,
      ThreadByPlace, Attached, Live, Stages
  <2> QED
    BY <1>11, <2>1, <2>2, WorkerMoves DEF StartRunner, Goto, Submit, TypeOK
<1>12. ASSUME NEW w \in Workers, Advance(w) PROVE ThreadByPlace'
  <2>1. PICK j \in Jobs : j = wjob[w] /\ \A v \in Workers \ {w} : wjob[v] # j
    BY <1>12, OnlyHolder DEF Advance, Segment, Stages
  <2>2. CallOf(w, j)'
    BY <1>12, <2>1 DEF Advance, Goto, Submit, CallOf, TypeOK, JobInv, StatusByPlace,
      ThreadByPlace, Attached, Live, Stages
  <2>3. \A v \in Workers \ {w} : wpc'[v] = wpc[v] /\ wjob'[v] = wjob[v]
    BY <1>12 DEF Advance, Goto, TypeOK
  <2>4. \A k \in Jobs \ {j} :
           tstage'[k] = tstage[k] /\ tstate'[k] = tstate[k] /\ runs'[k] = runs[k]
    BY <1>12, <2>1 DEF Advance, Submit, TypeOK
  <2> QED
    BY <2>1, <2>2, <2>3, <2>4, WorkerMoves
<1>13. ASSUME NEW w \in Workers, RejectJob(w) PROVE ThreadByPlace'
  <2>1. PICK j \in Jobs : j = wjob[w] /\ \A v \in Workers \ {w} : wjob[v] # j
    BY <1>13, OnlyHolder DEF RejectJob, Segment, Stages
  <2>2. CallOf(w, j)'
    BY <1>13, <2>1 DEF RejectJob, Release, Goto, CallOf, TypeOK, JobInv, StatusByPlace,
      ThreadByPlace, Attached, Live, Stages
  <2> QED
    BY <1>13, <2>1, <2>2, WorkerMoves DEF RejectJob, Release, Goto, TypeOK
<1>14. ASSUME NEW w \in Workers, FinishJob(w) PROVE ThreadByPlace'
  <2>1. PICK j \in Jobs : j = wjob[w] /\ \A v \in Workers \ {w} : wjob[v] # j
    BY <1>14, OnlyHolder DEF FinishJob, Segment, Stages
  <2>2. CallOf(w, j)'
    BY <1>14, <2>1 DEF FinishJob, Release, Goto, CallOf, TypeOK, JobInv, StatusByPlace,
      ThreadByPlace, Attached, Live, Stages
  <2> QED
    BY <1>14, <2>1, <2>2, WorkerMoves DEF FinishJob, Release, Goto, TypeOK
<1>15. ASSUME NEW w \in Workers, RunnerRaises(w) PROVE ThreadByPlace'
  <2>1. PICK j \in Jobs : j = wjob[w] /\ \A v \in Workers \ {w} : wjob[v] # j
    BY <1>15, OnlyHolder DEF RunnerRaises, Segment, Stages
  <2>2. CallOf(w, j)'
    BY <1>15, <2>1 DEF RunnerRaises, Goto, CallOf, TypeOK, JobInv, StatusByPlace,
      ThreadByPlace, Attached, Live, Stages
  <2> QED
    BY <1>15, <2>1, <2>2, WorkerMoves DEF RunnerRaises, Goto, TypeOK
<1>16. ASSUME NEW w \in Workers, Timeout(w) PROVE ThreadByPlace'
  <2>1. PICK j \in Jobs : j = wjob[w] /\ \A v \in Workers \ {w} : wjob[v] # j
    BY <1>16, OnlyHolder DEF Timeout, Segment, Stages, Timed
  <2>2. CallOf(w, j)'
    BY <1>16, <2>1 DEF Timeout, Goto, AfterTimeout, Timed, CallOf, TypeOK, JobInv,
      StatusByPlace,
      ThreadByPlace, Attached, Live, Stages
  <2> QED
    BY <1>16, <2>1, <2>2, WorkerMoves DEF Timeout, Goto, AfterTimeout, Timed, TypeOK
<1>17. ASSUME NEW w \in Workers, FailJob(w) PROVE ThreadByPlace'
  <2>1. PICK j \in Jobs : j = wjob[w] /\ \A v \in Workers \ {w} : wjob[v] # j
    BY <1>17, OnlyHolder DEF FailJob, Segment, Stages
  <2>2. CallOf(w, j)'
    BY <1>17, <2>1 DEF FailJob, Release, Goto, CallOf, TypeOK, JobInv, StatusByPlace,
      ThreadByPlace, Attached, Live, Stages
  <2> QED
    BY <1>17, <2>1, <2>2, WorkerMoves DEF FailJob, Release, Goto, TypeOK
<1>18. ASSUME NEW w \in Workers, StoreFault(w) PROVE ThreadByPlace'
  <2>1. PICK j \in Jobs : j = wjob[w] /\ \A v \in Workers \ {w} : wjob[v] # j
    BY <1>18, OnlyHolder DEF StoreFault, Segment, Stages
  <2>2. CallOf(w, j)'
    BY <1>18, <2>1 DEF StoreFault, Goto, CallOf, TypeOK, JobInv, StatusByPlace,
      ThreadByPlace, Attached, Live, Stages
  <2> QED
    BY <1>18, <2>1, <2>2, WorkerMoves DEF StoreFault, Goto, TypeOK
<1>19. ASSUME NEW w \in Workers, WorkerDies(w) PROVE ThreadByPlace'
  <2>1. PICK j \in Jobs : j = wjob[w] /\ \A v \in Workers \ {w} : wjob[v] # j
    BY <1>19, OnlyHolder DEF WorkerDies, Segment, Stages
  <2>2. CallOf(w, j)'
    BY <1>19, <2>1 DEF WorkerDies, Release, Goto, CallOf, TypeOK, JobInv, StatusByPlace,
      ThreadByPlace, Attached, Live, Stages
  <2> QED
    BY <1>19, <2>1, <2>2, WorkerMoves DEF WorkerDies, Release, Goto, TypeOK
<1>20. ASSUME NEW w \in Workers, ThreadStart(w) PROVE ThreadByPlace'
  <2>1. PICK j \in Jobs : j = wjob[w] /\ \A v \in Workers \ {w} : wjob[v] # j
    BY <1>20, OnlyHolder DEF ThreadStart, Segment, Stages
  <2>2. CallOf(w, j)'
    BY <1>20, <2>1 DEF ThreadStart, CallOf, TypeOK, JobInv, StatusByPlace,
      ThreadByPlace, Attached, Live, Stages
  <2> QED
    BY <1>20, <2>1, <2>2, WorkerMoves DEF ThreadStart, TypeOK
<1>21. ASSUME \/ FailRunningJobs \/ Exit \/ PruneList \/ PruneFiles
      PROVE  ThreadByPlace'
  <2>1. UNCHANGED <<runs, tstage, tstate, wjob, wpc>>
    BY <1>21 DEF FailRunningJobs, Exit, PruneList, PruneFiles, AfterRestart, Rmtree, Fault
  <2> QED
    BY <2>1 DEF ThreadByPlace, Attached
<1>22. ASSUME NEW j \in Jobs,
             \/ StageUpload(j) \/ CreateRow(j) \/ MoveInput(j) \/ UpdateRow(j)
             \/ Enqueue(j) \/ Acknowledge(j) \/ UploadFault(j) \/ DeleteCheck(j)
             \/ DeleteRow(j) \/ DeleteFiles(j) \/ PruneRow(j) \/ PruneFault(j)
      PROVE  ThreadByPlace'
  <2>1. UNCHANGED <<runs, tstage, tstate, wjob, wpc>>
    BY <1>22 DEF StageUpload, CreateRow, MoveInput, UpdateRow, Enqueue, Acknowledge,
              UploadFault, DeleteCheck, DeleteRow, DeleteFiles, PruneRow, PruneFault,
              Fault, Finalise, Put, RemoveRow, Rmtree
  <2> QED
    BY <2>1 DEF ThreadByPlace, Attached
<1>23. CASE UNCHANGED vars
  BY <1>23 DEF vars, ThreadByPlace, Attached
<1> QED
  BY NextCases,
     <1>1, <1>2, <1>3, <1>4, <1>5, <1>6, <1>7, <1>8, <1>9, <1>10, <1>11, <1>12,
     <1>13, <1>14, <1>15, <1>16, <1>17, <1>18, <1>19, <1>20, <1>21, <1>22, <1>23

\* What a finished call left on disk stays while the row is there.
LEMMA FilesByPlacePreserved ==
  ASSUME TypeOK, TypeOK', JobInv, ThreadByPlace, RemovalAfterRow, FilesByPlace,
          [Next]_vars
  PROVE  FilesByPlace'
<1> USE JobsAssumption DEF rowVars, fileVars, webVars, prunerVars, workerVars,
      threadVars, faultVars, TypeOK, Segment, Stages, JobInv, StatusByPlace,
      OneOwner, MemoryIsEmpty, ThreadByPlace, RemovalAfterRow, FilesByPlace,
      HandlerOwns, BornFirst, Held, Writes, Live
<1>1. CASE FailRunningJobs
  <2>1. \A w \in Workers : wpc'[w] \notin Segment \cup Stages
    <3>1. \A w \in Workers : wjob[w] = NoJob
      BY <1>1 DEF FailRunningJobs
    <3>2. UNCHANGED wpc
      BY <1>1 DEF FailRunningJobs
    <3> HIDE DEF TypeOK, JobInv, ThreadByPlace, FilesByPlace
    <3> QED
      BY <3>1, <3>2, WorkerHoldsJob
  <2> QED
    BY <2>1
<1>2. CASE RequeueAndStart
  BY <1>2 DEF RequeueAndStart
<1>3. CASE Shutdown
  BY <1>3 DEF Shutdown
<1>4. CASE Crash
  BY <1>4 DEF Crash
<1>5. CASE PruneFiles
  <2>1. Leaves
    BY <1>5, RemovalLeaves
  <2>2. \A w \in Workers : wpc[w] \in Stages \cup {"finishing"} => wjob[w] \in Jobs
    BY WorkerHoldsJob
  <2> HIDE DEF TypeOK, JobInv, ThreadByPlace, Writes, Stages
  <2>3. RemovalAfterRow
    OBVIOUS
  <2> HIDE DEF RemovalAfterRow
  <2> QED
    BY <2>1, <2>2, <2>3 DEF Leaves
<1>6. ASSUME NEW j \in Jobs, CreateRow(j) PROVE FilesByPlace'
  BY <1>6 DEF CreateRow
<1>7. ASSUME NEW j \in Jobs, MoveInput(j) PROVE FilesByPlace'
  BY <1>7 DEF MoveInput
<1>8. ASSUME NEW j \in Jobs, DeleteRow(j) PROVE FilesByPlace'
  BY <1>8 DEF DeleteRow, RemoveRow
<1>9. ASSUME NEW j \in Jobs, DeleteFiles(j) PROVE FilesByPlace'
  <2>1. Leaves
    BY <1>9, RemovalLeaves
  <2>2. \A w \in Workers : wpc[w] \in Stages \cup {"finishing"} => wjob[w] \in Jobs
    BY WorkerHoldsJob
  <2> HIDE DEF TypeOK, JobInv, ThreadByPlace, Writes, Stages
  <2>3. RemovalAfterRow
    OBVIOUS
  <2> HIDE DEF RemovalAfterRow
  <2> QED
    BY <2>1, <2>2, <2>3 DEF Leaves
<1>10. ASSUME NEW j \in Jobs, PruneRow(j) PROVE FilesByPlace'
  BY <1>10 DEF PruneRow, RemoveRow
<1>11. ASSUME NEW j \in Jobs, ThreadWrite(j) PROVE FilesByPlace'
  BY <1>11 DEF ThreadWrite
<1>12. ASSUME NEW j \in Jobs, ThreadReturns(j) PROVE FilesByPlace'
  <2>1. ASSUME NEW w \in Workers, wjob[w] = j, wpc[w] \in {"fixing", "reporting"}
        PROVE  tstate[j] = "written"
    BY <1>12, <2>1 DEF ThreadReturns, ThreadByPlace
  <2>2. /\ UNCHANGED <<wpc, wjob, status, disk>>
        /\ \A k \in Jobs \ {j} : tstate'[k] = tstate[k]
    BY <1>12 DEF ThreadReturns, Outcome
  <2> HIDE DEF TypeOK, JobInv, ThreadByPlace
  <2> QED
    BY <2>1, <2>2, WorkerHoldsJob
<1>13. ASSUME NEW j \in Jobs, ThreadRaises(j) PROVE FilesByPlace'
  BY <1>13 DEF ThreadRaises, Outcome
<1>14. ASSUME NEW w \in Workers, Dequeue(w) PROVE FilesByPlace'
  BY <1>14 DEF Dequeue, Goto
<1>15. ASSUME NEW w \in Workers, SkipMissing(w) PROVE FilesByPlace'
  BY <1>15 DEF SkipMissing, Release, Goto
<1>16. ASSUME NEW w \in Workers, LoadJob(w) PROVE FilesByPlace'
  BY <1>16 DEF LoadJob, Goto
<1>17. ASSUME NEW w \in Workers, MarkRunning(w) PROVE FilesByPlace'
  BY <1>17 DEF MarkRunning, Goto, SetStatus
<1>18. ASSUME NEW w \in Workers, StartRunner(w) PROVE FilesByPlace'
  BY <1>18 DEF StartRunner, Goto, Submit
<1>19. ASSUME NEW w \in Workers, Advance(w) PROVE FilesByPlace'
  <2>1. PICK j \in Jobs : j = wjob[w] /\ \A v \in Workers \ {w} : wjob[v] # j
    BY <1>19, OnlyHolder DEF Advance
  <2>2. /\ UNCHANGED <<wjob, status, disk>>
        /\ \A v \in Workers \ {w} : wpc'[v] = wpc[v]
        /\ \A k \in Jobs \ {j} : tstate'[k] = tstate[k]
    BY <1>19, <2>1 DEF Advance, Goto, Submit
  <2>3. /\ tstate[j] = "ok"
        /\ \/ wpc[w] = "fixing" /\ wpc'[w] = "accepting"
           \/ wpc[w] = "accepting" /\ wpc'[w] = "reporting" /\ tstate'[j] = "pending"
           \/ wpc[w] = "reporting" /\ wpc'[w] = "finishing"
    BY <1>19, <2>1 DEF Advance, Goto, Submit
  <2> HIDE DEF TypeOK, JobInv, ThreadByPlace
  <2> QED
    BY <2>1, <2>2, <2>3, WorkerHoldsJob
<1>20. ASSUME NEW w \in Workers, RejectJob(w) PROVE FilesByPlace'
  BY <1>20 DEF RejectJob, Release, Goto, SetStatus
<1>21. ASSUME NEW w \in Workers, FinishJob(w) PROVE FilesByPlace'
  BY <1>21 DEF FinishJob, Release, Goto, SetStatus
<1>22. ASSUME NEW w \in Workers, RunnerRaises(w) PROVE FilesByPlace'
  BY <1>22 DEF RunnerRaises, Goto
<1>23. ASSUME NEW w \in Workers, Timeout(w) PROVE FilesByPlace'
  BY <1>23 DEF Timeout, Goto, AfterTimeout, Timed
<1>24. ASSUME NEW w \in Workers, FailJob(w) PROVE FilesByPlace'
  BY <1>24 DEF FailJob, Release, Goto, SetStatus
<1>25. ASSUME NEW w \in Workers, StoreFault(w) PROVE FilesByPlace'
  BY <1>25 DEF StoreFault, Fault, Goto
<1>26. ASSUME NEW w \in Workers, WorkerDies(w) PROVE FilesByPlace'
  BY <1>26 DEF WorkerDies, Fault, Release, Goto
<1>27. ASSUME NEW w \in Workers, ThreadStart(w) PROVE FilesByPlace'
  BY <1>27 DEF ThreadStart
<1>28. ASSUME \/ Exit \/ PruneList
      PROVE  FilesByPlace'
  <2>1. UNCHANGED <<disk, status, tstate, wjob, wpc>>
    BY <1>28 DEF Exit, PruneList
  <2> HIDE DEF TypeOK, JobInv, ThreadByPlace
  <2> QED
    BY <2>1
<1>29. ASSUME NEW j \in Jobs,
             \/ StageUpload(j) \/ UpdateRow(j) \/ Enqueue(j) \/ Acknowledge(j)
             \/ UploadFault(j) \/ DeleteCheck(j) \/ PruneFault(j)
      PROVE  FilesByPlace'
  <2>1. UNCHANGED <<disk, status, tstate, wjob, wpc>>
    BY <1>29 DEF StageUpload, UpdateRow, Enqueue, Acknowledge, UploadFault, DeleteCheck,
              PruneFault, Fault, Finalise, Put
  <2> HIDE DEF TypeOK, JobInv, ThreadByPlace
  <2> QED
    BY <2>1
<1>30. CASE UNCHANGED vars
  BY <1>30 DEF vars
<1> HIDE DEF TypeOK, JobInv, StatusByPlace, OneOwner, MemoryIsEmpty, ThreadByPlace,
      RemovalAfterRow, FilesByPlace, HandlerOwns, BornFirst, Held, Writes, Live
<1> QED
  BY NextCases,
     <1>1, <1>2, <1>3, <1>4, <1>5, <1>6, <1>7, <1>8, <1>9, <1>10, <1>11, <1>12,
     <1>13, <1>14, <1>15, <1>16, <1>17, <1>18, <1>19, <1>20, <1>21, <1>22, <1>23,
     <1>24, <1>25, <1>26, <1>27, <1>28, <1>29, <1>30

\* A done row keeps its files: only those who removed the row remove them.
LEMMA DoneHasArtifactsPreserved ==
  ASSUME TypeOK, TypeOK', JobInv, RemovalAfterRow, FilesByPlace, DoneHasArtifacts,
          [Next]_vars
  PROVE  DoneHasArtifacts'
<1> USE JobsAssumption DEF rowVars, fileVars, webVars, prunerVars, workerVars,
      threadVars, faultVars, TypeOK, Segment, Stages, JobInv, StatusByPlace,
      RemovalAfterRow, FilesByPlace, DoneHasArtifacts
<1>1. CASE FailRunningJobs
  BY <1>1 DEF FailRunningJobs, AfterRestart
<1>2. CASE PruneFiles
  <2>1. Leaves
    BY <1>2, RemovalLeaves
  <2> HIDE DEF TypeOK
  <2> QED
    BY <2>1 DEF Leaves
<1>3. ASSUME NEW j \in Jobs, CreateRow(j) PROVE DoneHasArtifacts'
  BY <1>3 DEF CreateRow
<1>4. ASSUME NEW j \in Jobs, MoveInput(j) PROVE DoneHasArtifacts'
  BY <1>4 DEF MoveInput
<1>5. ASSUME NEW j \in Jobs, DeleteRow(j) PROVE DoneHasArtifacts'
  BY <1>5 DEF DeleteRow, RemoveRow
<1>6. ASSUME NEW j \in Jobs, DeleteFiles(j) PROVE DoneHasArtifacts'
  <2>1. Leaves
    BY <1>6, RemovalLeaves
  <2> HIDE DEF TypeOK
  <2> QED
    BY <2>1 DEF Leaves
<1>7. ASSUME NEW j \in Jobs, PruneRow(j) PROVE DoneHasArtifacts'
  BY <1>7 DEF PruneRow, RemoveRow
<1>8. ASSUME NEW j \in Jobs, ThreadWrite(j) PROVE DoneHasArtifacts'
  BY <1>8 DEF ThreadWrite
<1>9. ASSUME NEW w \in Workers, MarkRunning(w) PROVE DoneHasArtifacts'
  BY <1>9 DEF MarkRunning, Goto, SetStatus
<1>10. ASSUME NEW w \in Workers, StartRunner(w) PROVE DoneHasArtifacts'
  BY <1>10 DEF StartRunner, Goto, Submit
<1>11. ASSUME NEW w \in Workers, RejectJob(w) PROVE DoneHasArtifacts'
  BY <1>11 DEF RejectJob, Release, Goto, SetStatus
<1>12. ASSUME NEW w \in Workers, FinishJob(w) PROVE DoneHasArtifacts'
  BY <1>12 DEF FinishJob, Release, Goto, SetStatus
<1>13. ASSUME NEW w \in Workers, FailJob(w) PROVE DoneHasArtifacts'
  BY <1>13 DEF FailJob, Release, Goto, SetStatus
<1>14. ASSUME NEW w \in Workers, StoreFault(w) PROVE DoneHasArtifacts'
  BY <1>14 DEF StoreFault, Fault, Goto
<1>15. ASSUME \/ RequeueAndStart \/ Shutdown \/ Exit \/ Crash
             \/ PruneList
      PROVE  DoneHasArtifacts'
  <2>1. UNCHANGED <<disk, status>>
    BY <1>15 DEF RequeueAndStart, Shutdown, Exit, Crash, PruneList
  <2> QED
    BY <2>1
<1>16. ASSUME NEW j \in Jobs,
             \/ StageUpload(j) \/ UpdateRow(j) \/ Enqueue(j) \/ Acknowledge(j)
             \/ UploadFault(j) \/ DeleteCheck(j) \/ PruneFault(j) \/ ThreadReturns(j)
             \/ ThreadRaises(j)
      PROVE  DoneHasArtifacts'
  <2>1. UNCHANGED <<disk, status>>
    BY <1>16 DEF StageUpload, UpdateRow, Enqueue, Acknowledge, UploadFault, DeleteCheck,
              PruneFault, ThreadReturns, ThreadRaises, Fault, Finalise, Outcome, Put
  <2> QED
    BY <2>1
<1>17. ASSUME NEW w \in Workers,
             \/ Dequeue(w) \/ SkipMissing(w) \/ LoadJob(w) \/ Advance(w)
             \/ RunnerRaises(w) \/ Timeout(w) \/ WorkerDies(w) \/ ThreadStart(w)
      PROVE  DoneHasArtifacts'
  <2>1. UNCHANGED <<disk, status>>
    BY <1>17 DEF Dequeue, SkipMissing, LoadJob, Advance, RunnerRaises, Timeout,
              WorkerDies, ThreadStart, AfterTimeout, Fault, Goto, Release, Submit,
              Timed
  <2> QED
    BY <2>1
<1>18. CASE UNCHANGED vars
  BY <1>18 DEF vars
<1> HIDE DEF TypeOK, JobInv, StatusByPlace, RemovalAfterRow, FilesByPlace,
      DoneHasArtifacts
<1> QED
  BY NextCases,
     <1>1, <1>2, <1>3, <1>4, <1>5, <1>6, <1>7, <1>8, <1>9, <1>10, <1>11, <1>12,
     <1>13, <1>14, <1>15, <1>16, <1>17, <1>18

\* A job becomes done only after its last call was received.
LEMMA ServedResultIsStablePreserved ==
  ASSUME TypeOK, TypeOK', JobInv, ThreadByPlace, ServedResultIsStable, [Next]_vars
  PROVE  ServedResultIsStable'
<1> USE JobsAssumption DEF rowVars, fileVars, webVars, prunerVars, workerVars,
      threadVars, faultVars, TypeOK, Segment, Stages, JobInv, StatusByPlace,
      ThreadByPlace, ServedResultIsStable, Live
<1>1. CASE FailRunningJobs
  BY <1>1 DEF FailRunningJobs, AfterRestart
<1>2. CASE Shutdown
  BY <1>2 DEF Shutdown
<1>3. CASE Crash
  BY <1>3 DEF Crash
<1>4. ASSUME NEW j \in Jobs, CreateRow(j) PROVE ServedResultIsStable'
  BY <1>4 DEF CreateRow
<1>5. ASSUME NEW j \in Jobs, DeleteRow(j) PROVE ServedResultIsStable'
  BY <1>5 DEF DeleteRow, RemoveRow
<1>6. ASSUME NEW j \in Jobs, PruneRow(j) PROVE ServedResultIsStable'
  BY <1>6 DEF PruneRow, RemoveRow
<1>7. ASSUME NEW j \in Jobs, ThreadWrite(j) PROVE ServedResultIsStable'
  BY <1>7 DEF ThreadWrite
<1>8. ASSUME NEW j \in Jobs, ThreadReturns(j) PROVE ServedResultIsStable'
  BY <1>8 DEF ThreadReturns, Outcome
<1>9. ASSUME NEW j \in Jobs, ThreadRaises(j) PROVE ServedResultIsStable'
  BY <1>9 DEF ThreadRaises, Outcome
<1>10. ASSUME NEW w \in Workers, MarkRunning(w) PROVE ServedResultIsStable'
  BY <1>10 DEF MarkRunning, Goto, SetStatus
<1>11. ASSUME NEW w \in Workers, StartRunner(w) PROVE ServedResultIsStable'
  <2>1. wjob[w] \in Jobs /\ status[wjob[w]] # "done"
    BY <1>11, WorkerHoldsJob DEF StartRunner
  <2>2. UNCHANGED status /\ \A j \in Jobs \ {wjob[w]} : tstate'[j] = tstate[j]
    BY <1>11, <2>1 DEF StartRunner, Goto, Submit
  <2> QED
    BY <2>1, <2>2
<1>12. ASSUME NEW w \in Workers, Advance(w) PROVE ServedResultIsStable'
  BY <1>12 DEF Advance, Goto, Submit
<1>13. ASSUME NEW w \in Workers, RejectJob(w) PROVE ServedResultIsStable'
  BY <1>13 DEF RejectJob, Release, Goto, SetStatus
<1>14. ASSUME NEW w \in Workers, FinishJob(w) PROVE ServedResultIsStable'
  BY <1>14 DEF FinishJob, Release, Goto, SetStatus
<1>15. ASSUME NEW w \in Workers, RunnerRaises(w) PROVE ServedResultIsStable'
  BY <1>15 DEF RunnerRaises, Goto
<1>16. ASSUME NEW w \in Workers, Timeout(w) PROVE ServedResultIsStable'
  BY <1>16 DEF Timeout, Goto, AfterTimeout, Timed
<1>17. ASSUME NEW w \in Workers, FailJob(w) PROVE ServedResultIsStable'
  BY <1>17 DEF FailJob, Release, Goto, SetStatus
<1>18. ASSUME NEW w \in Workers, StoreFault(w) PROVE ServedResultIsStable'
  BY <1>18 DEF StoreFault, Fault, Goto
<1>19. ASSUME NEW w \in Workers, ThreadStart(w) PROVE ServedResultIsStable'
  BY <1>19 DEF ThreadStart
<1>20. ASSUME \/ RequeueAndStart \/ Exit \/ PruneList \/ PruneFiles
      PROVE  ServedResultIsStable'
  <2>1. UNCHANGED <<status, tstate>>
    BY <1>20 DEF RequeueAndStart, Exit, PruneList, PruneFiles, Rmtree, Fault
  <2> QED
    BY <2>1
<1>21. ASSUME NEW j \in Jobs,
             \/ StageUpload(j) \/ MoveInput(j) \/ UpdateRow(j) \/ Enqueue(j)
             \/ Acknowledge(j) \/ UploadFault(j) \/ DeleteCheck(j) \/ DeleteFiles(j)
             \/ PruneFault(j)
      PROVE  ServedResultIsStable'
  <2>1. UNCHANGED <<status, tstate>>
    BY <1>21 DEF StageUpload, MoveInput, UpdateRow, Enqueue, Acknowledge, UploadFault,
              DeleteCheck, DeleteFiles, PruneFault, Fault, Finalise, Put, Rmtree
  <2> QED
    BY <2>1
<1>22. ASSUME NEW w \in Workers,
             \/ Dequeue(w) \/ SkipMissing(w) \/ LoadJob(w) \/ WorkerDies(w)
      PROVE  ServedResultIsStable'
  <2>1. UNCHANGED <<status, tstate>>
    BY <1>22 DEF Dequeue, SkipMissing, LoadJob, WorkerDies, Fault, Goto, Release
  <2> QED
    BY <2>1
<1>23. CASE UNCHANGED vars
  BY <1>23 DEF vars
<1> HIDE DEF TypeOK, JobInv, StatusByPlace, ThreadByPlace, ServedResultIsStable, Live
<1> QED
  BY NextCases,
     <1>1, <1>2, <1>3, <1>4, <1>5, <1>6, <1>7, <1>8, <1>9, <1>10, <1>11, <1>12,
     <1>13, <1>14, <1>15, <1>16, <1>17, <1>18, <1>19, <1>20, <1>21, <1>22, <1>23

\* Nothing happens to an id on disk or in memory before it has a row.
LEMMA NothingBeforeBirthPreserved ==
  ASSUME TypeOK, TypeOK', JobInv, ThreadByPlace, NothingBeforeBirth, [Next]_vars
  PROVE  NothingBeforeBirth'
<1> USE JobsAssumption DEF rowVars, fileVars, webVars, prunerVars, workerVars,
      threadVars, faultVars, TypeOK, Segment, Stages, NothingBeforeBirth, JobInv,
      HandlerOwns, BornFirst, StatusByPlace, Live, ThreadByPlace, Held, InQueue
<1>1. CASE RequeueAndStart
  <2>1. \A i \in DOMAIN queue' : status[queue'[i]] = "queued"
    <3>1. Recoverable \in SUBSET Jobs /\ queue' \in Arrangements(Recoverable)
      BY <1>1 DEF RequeueAndStart, Recoverable
    <3>2. queue' \in Seq(Recoverable)
      BY <3>1, ArrangementsAreSequences
    <3> QED
      BY <3>2 DEF Recoverable
  <2> QED
    BY <1>1, <2>1 DEF RequeueAndStart
<1>2. CASE Shutdown
  BY <1>2 DEF Shutdown
<1>3. CASE Crash
  BY <1>3 DEF Crash
<1>4. CASE PruneFiles
  <2>1. Leaves
    BY <1>4, RemovalLeaves
  <2> HIDE DEF TypeOK
  <2> QED
    BY <2>1 DEF Leaves
<1>5. ASSUME NEW j \in Jobs, CreateRow(j) PROVE NothingBeforeBirth'
  BY <1>5 DEF CreateRow
<1>6. ASSUME NEW j \in Jobs, MoveInput(j) PROVE NothingBeforeBirth'
  BY <1>6 DEF MoveInput
<1>7. ASSUME NEW j \in Jobs, Enqueue(j) PROVE NothingBeforeBirth'
  BY <1>7 DEF Enqueue, Put
<1>8. ASSUME NEW j \in Jobs, DeleteFiles(j) PROVE NothingBeforeBirth'
  <2>1. Leaves
    BY <1>8, RemovalLeaves
  <2> HIDE DEF TypeOK
  <2> QED
    BY <2>1 DEF Leaves
<1>9. ASSUME NEW j \in Jobs, ThreadWrite(j) PROVE NothingBeforeBirth'
  BY <1>9 DEF ThreadWrite
<1>10. ASSUME NEW w \in Workers, Dequeue(w) PROVE NothingBeforeBirth'
  BY <1>10 DEF Dequeue, Goto
<1>11. ASSUME NEW w \in Workers, SkipMissing(w) PROVE NothingBeforeBirth'
  BY <1>11 DEF SkipMissing, Release, Goto
<1>12. ASSUME NEW w \in Workers, MarkRunning(w) PROVE NothingBeforeBirth'
  BY <1>12 DEF MarkRunning, Goto, SetStatus
<1>13. ASSUME NEW w \in Workers, StartRunner(w) PROVE NothingBeforeBirth'
  BY <1>13 DEF StartRunner, Goto, Submit
<1>14. ASSUME NEW w \in Workers, RejectJob(w) PROVE NothingBeforeBirth'
  BY <1>14 DEF RejectJob, Release, Goto, SetStatus
<1>15. ASSUME NEW w \in Workers, FinishJob(w) PROVE NothingBeforeBirth'
  BY <1>15 DEF FinishJob, Release, Goto, SetStatus
<1>16. ASSUME NEW w \in Workers, FailJob(w) PROVE NothingBeforeBirth'
  BY <1>16 DEF FailJob, Release, Goto, SetStatus
<1>17. ASSUME NEW w \in Workers, StoreFault(w) PROVE NothingBeforeBirth'
  BY <1>17 DEF StoreFault, Fault, Goto
<1>18. ASSUME NEW w \in Workers, WorkerDies(w) PROVE NothingBeforeBirth'
  BY <1>18 DEF WorkerDies, Fault, Release, Goto
<1>19. ASSUME \/ FailRunningJobs \/ Exit \/ PruneList
      PROVE  NothingBeforeBirth'
  <2>1. UNCHANGED <<born, disk, queue, runs, wjob>>
    BY <1>19 DEF FailRunningJobs, Exit, PruneList, AfterRestart
  <2> QED
    BY <2>1
<1>20. ASSUME NEW j \in Jobs,
             \/ StageUpload(j) \/ UpdateRow(j) \/ Acknowledge(j) \/ UploadFault(j)
             \/ DeleteCheck(j) \/ DeleteRow(j) \/ PruneRow(j) \/ PruneFault(j)
             \/ ThreadReturns(j) \/ ThreadRaises(j)
      PROVE  NothingBeforeBirth'
  <2>1. UNCHANGED <<born, disk, queue, runs, wjob>>
    BY <1>20 DEF StageUpload, UpdateRow, Acknowledge, UploadFault, DeleteCheck,
              DeleteRow, PruneRow, PruneFault, ThreadReturns, ThreadRaises, Fault,
              Finalise, Outcome, RemoveRow
  <2> QED
    BY <2>1
<1>21. ASSUME NEW w \in Workers,
             \/ LoadJob(w) \/ Advance(w) \/ RunnerRaises(w) \/ Timeout(w)
             \/ ThreadStart(w)
      PROVE  NothingBeforeBirth'
  <2>1. UNCHANGED <<born, disk, queue, runs, wjob>>
    BY <1>21 DEF LoadJob, Advance, RunnerRaises, Timeout, ThreadStart, AfterTimeout,
              Goto, Submit, Timed
  <2> QED
    BY <2>1
<1>22. CASE UNCHANGED vars
  BY <1>22 DEF vars
<1> HIDE DEF TypeOK, NothingBeforeBirth, JobInv, HandlerOwns, BornFirst,
      StatusByPlace, Live, ThreadByPlace, Held, InQueue
<1> QED
  BY NextCases,
     <1>1, <1>2, <1>3, <1>4, <1>5, <1>6, <1>7, <1>8, <1>9, <1>10, <1>11, <1>12,
     <1>13, <1>14, <1>15, <1>16, <1>17, <1>18, <1>19, <1>20, <1>21, <1>22

\* A removal during a run is remembered, and nobody runs without a row otherwise.
LEMMA RacedRememberedPreserved ==
  ASSUME TypeOK, TypeOK', JobInv, RacedRemembered, [Next]_vars
  PROVE  RacedRemembered'
<1> USE JobsAssumption DEF rowVars, fileVars, webVars, prunerVars, workerVars,
      threadVars, faultVars, TypeOK, Segment, Stages, RacedRemembered, Executing,
      Live, JobInv, OneOwner, HandlerOwns, MemoryIsEmpty
<1>1. CASE FailRunningJobs
  BY <1>1 DEF FailRunningJobs, AfterRestart
<1>2. CASE RequeueAndStart
  BY <1>2 DEF RequeueAndStart
<1>3. CASE Shutdown
  BY <1>3 DEF Shutdown
<1>4. CASE Crash
  BY <1>4 DEF Crash
<1>5. ASSUME NEW j \in Jobs, CreateRow(j) PROVE RacedRemembered'
  BY <1>5 DEF CreateRow
<1>6. ASSUME NEW j \in Jobs, DeleteRow(j) PROVE RacedRemembered'
  BY <1>6 DEF DeleteRow, RemoveRow
<1>7. ASSUME NEW j \in Jobs, PruneRow(j) PROVE RacedRemembered'
  BY <1>7 DEF PruneRow, RemoveRow
<1>8. ASSUME NEW j \in Jobs, ThreadWrite(j) PROVE RacedRemembered'
  BY <1>8 DEF ThreadWrite
<1>9. ASSUME NEW j \in Jobs, ThreadReturns(j) PROVE RacedRemembered'
  BY <1>9 DEF ThreadReturns, Outcome
<1>10. ASSUME NEW j \in Jobs, ThreadRaises(j) PROVE RacedRemembered'
  BY <1>10 DEF ThreadRaises, Outcome
<1>11. ASSUME NEW w \in Workers, Dequeue(w) PROVE RacedRemembered'
  BY <1>11 DEF Dequeue, Goto
<1>12. ASSUME NEW w \in Workers, SkipMissing(w) PROVE RacedRemembered'
  BY <1>12 DEF SkipMissing, Release, Goto
<1>13. ASSUME NEW w \in Workers, LoadJob(w) PROVE RacedRemembered'
  BY <1>13 DEF LoadJob, Goto
<1>14. ASSUME NEW w \in Workers, MarkRunning(w) PROVE RacedRemembered'
  BY <1>14 DEF MarkRunning, Goto, SetStatus
<1>15. ASSUME NEW w \in Workers, StartRunner(w) PROVE RacedRemembered'
  BY <1>15 DEF StartRunner, Goto, Submit
<1>16. ASSUME NEW w \in Workers, Advance(w) PROVE RacedRemembered'
  BY <1>16 DEF Advance, Goto, Submit
<1>17. ASSUME NEW w \in Workers, RejectJob(w) PROVE RacedRemembered'
  BY <1>17 DEF RejectJob, Release, Goto, SetStatus
<1>18. ASSUME NEW w \in Workers, FinishJob(w) PROVE RacedRemembered'
  BY <1>18 DEF FinishJob, Release, Goto, SetStatus
<1>19. ASSUME NEW w \in Workers, RunnerRaises(w) PROVE RacedRemembered'
  BY <1>19 DEF RunnerRaises, Goto
<1>20. ASSUME NEW w \in Workers, Timeout(w) PROVE RacedRemembered'
  BY <1>20 DEF Timeout, Goto, AfterTimeout, Timed
<1>21. ASSUME NEW w \in Workers, FailJob(w) PROVE RacedRemembered'
  BY <1>21 DEF FailJob, Release, Goto, SetStatus
<1>22. ASSUME NEW w \in Workers, StoreFault(w) PROVE RacedRemembered'
  BY <1>22 DEF StoreFault, Fault, Goto
<1>23. ASSUME NEW w \in Workers, WorkerDies(w) PROVE RacedRemembered'
  BY <1>23 DEF WorkerDies, Fault, Release, Goto
<1>24. ASSUME NEW w \in Workers, ThreadStart(w) PROVE RacedRemembered'
  BY <1>24 DEF ThreadStart
<1>25. ASSUME \/ Exit \/ PruneList \/ PruneFiles
      PROVE  RacedRemembered'
  <2>1. UNCHANGED <<status, tstate, wjob, wpc>> /\ raced \subseteq raced'
    BY <1>25 DEF Exit, PruneList, PruneFiles, Rmtree, Fault
  <2> QED
    BY <2>1
<1>26. ASSUME NEW j \in Jobs,
             \/ StageUpload(j) \/ MoveInput(j) \/ UpdateRow(j) \/ Enqueue(j)
             \/ Acknowledge(j) \/ UploadFault(j) \/ DeleteCheck(j) \/ DeleteFiles(j)
             \/ PruneFault(j)
      PROVE  RacedRemembered'
  <2>1. UNCHANGED <<status, tstate, wjob, wpc>> /\ raced \subseteq raced'
    BY <1>26 DEF StageUpload, MoveInput, UpdateRow, Enqueue, Acknowledge, UploadFault,
              DeleteCheck, DeleteFiles, PruneFault, Fault, Finalise, Put, Rmtree
  <2> QED
    BY <2>1
<1>27. CASE UNCHANGED vars
  BY <1>27 DEF vars
<1> HIDE DEF TypeOK, RacedRemembered, Executing, Live, JobInv, OneOwner, HandlerOwns,
      MemoryIsEmpty
<1> QED
  BY NextCases,
     <1>1, <1>2, <1>3, <1>4, <1>5, <1>6, <1>7, <1>8, <1>9, <1>10, <1>11, <1>12,
     <1>13, <1>14, <1>15, <1>16, <1>17, <1>18, <1>19, <1>20, <1>21, <1>22, <1>23,
     <1>24, <1>25, <1>26, <1>27

\* A directory loses its row only to a removal that goes on to empty it, or races.
LEMMA OrphansExplainedPreserved ==
  ASSUME TypeOK, TypeOK', JobInv, RacedRemembered, OrphansExplained,
          NothingBeforeBirth, [Next]_vars
  PROVE  OrphansExplained'
<1> USE JobsAssumption DEF rowVars, fileVars, webVars, prunerVars, workerVars,
      threadVars, faultVars, TypeOK, Segment, Stages, RacedRemembered,
      OrphansExplained, Executing, Live, JobInv, HandlerOwns, BornFirst, Held,
      NothingBeforeBirth, Writes
<1>1. CASE FailRunningJobs
  BY <1>1 DEF FailRunningJobs, AfterRestart
<1>2. CASE Crash
  BY <1>2 DEF Crash
<1>3. CASE PruneFiles
  <2>1. Leaves
    BY <1>3, RemovalLeaves
  <2> HIDE DEF TypeOK
  <2> QED
    BY <2>1 DEF Leaves
<1>4. ASSUME NEW j \in Jobs, CreateRow(j) PROVE OrphansExplained'
  BY <1>4 DEF CreateRow
<1>5. ASSUME NEW j \in Jobs, MoveInput(j) PROVE OrphansExplained'
  BY <1>5 DEF MoveInput
<1>6. ASSUME NEW j \in Jobs, DeleteCheck(j) PROVE OrphansExplained'
  BY <1>6 DEF DeleteCheck
<1>7. ASSUME NEW j \in Jobs, DeleteRow(j) PROVE OrphansExplained'
  BY <1>7 DEF DeleteRow, RemoveRow
<1>8. ASSUME NEW j \in Jobs, DeleteFiles(j) PROVE OrphansExplained'
  <2>1. Leaves
    BY <1>8, RemovalLeaves
  <2> HIDE DEF TypeOK
  <2> QED
    BY <2>1 DEF Leaves
<1>9. ASSUME NEW j \in Jobs, PruneRow(j) PROVE OrphansExplained'
  <2>1. /\ pruning = NoJob /\ pruning' = j /\ UNCHANGED <<disk, del>>
        /\ \A k \in Jobs \ {j} : status'[k] = status[k] /\ (k \in raced => k \in raced')
    BY <1>9 DEF PruneRow, RemoveRow
  <2>2. \A k \in Jobs : pruning # k
    BY <2>1, JobsAssumption
  <2> HIDE DEF TypeOK, JobInv, RacedRemembered
  <2> QED
    BY <2>1, <2>2
<1>10. ASSUME NEW j \in Jobs, ThreadWrite(j) PROVE OrphansExplained'
  BY <1>10 DEF ThreadWrite
<1>11. ASSUME NEW w \in Workers, MarkRunning(w) PROVE OrphansExplained'
  BY <1>11 DEF MarkRunning, Goto, SetStatus
<1>12. ASSUME NEW w \in Workers, StartRunner(w) PROVE OrphansExplained'
  BY <1>12 DEF StartRunner, Goto, Submit
<1>13. ASSUME NEW w \in Workers, RejectJob(w) PROVE OrphansExplained'
  BY <1>13 DEF RejectJob, Release, Goto, SetStatus
<1>14. ASSUME NEW w \in Workers, FinishJob(w) PROVE OrphansExplained'
  BY <1>14 DEF FinishJob, Release, Goto, SetStatus
<1>15. ASSUME NEW w \in Workers, FailJob(w) PROVE OrphansExplained'
  BY <1>15 DEF FailJob, Release, Goto, SetStatus
<1>16. ASSUME NEW w \in Workers, StoreFault(w) PROVE OrphansExplained'
  BY <1>16 DEF StoreFault, Fault, Goto
<1>17. ASSUME \/ RequeueAndStart \/ Shutdown \/ Exit \/ PruneList
      PROVE  OrphansExplained'
  <2>1. UNCHANGED <<del, disk, pruning, raced, status>>
    BY <1>17 DEF RequeueAndStart, Shutdown, Exit, PruneList
  <2> QED
    BY <2>1
<1>18. ASSUME NEW j \in Jobs,
             \/ StageUpload(j) \/ UpdateRow(j) \/ Enqueue(j) \/ Acknowledge(j)
             \/ UploadFault(j) \/ PruneFault(j) \/ ThreadReturns(j) \/ ThreadRaises(j)
      PROVE  OrphansExplained'
  <2>1. UNCHANGED <<del, disk, pruning, raced, status>>
    BY <1>18 DEF StageUpload, UpdateRow, Enqueue, Acknowledge, UploadFault, PruneFault,
              ThreadReturns, ThreadRaises, Fault, Finalise, Outcome, Put
  <2> QED
    BY <2>1
<1>19. ASSUME NEW w \in Workers,
             \/ Dequeue(w) \/ SkipMissing(w) \/ LoadJob(w) \/ Advance(w)
             \/ RunnerRaises(w) \/ Timeout(w) \/ WorkerDies(w) \/ ThreadStart(w)
      PROVE  OrphansExplained'
  <2>1. UNCHANGED <<del, disk, pruning, raced, status>>
    BY <1>19 DEF Dequeue, SkipMissing, LoadJob, Advance, RunnerRaises, Timeout,
              WorkerDies, ThreadStart, AfterTimeout, Fault, Goto, Release, Submit,
              Timed
  <2> QED
    BY <2>1
<1>20. CASE UNCHANGED vars
  BY <1>20 DEF vars
<1> HIDE DEF TypeOK, RacedRemembered, OrphansExplained, Executing, Live, JobInv,
      HandlerOwns, BornFirst, Held, NothingBeforeBirth, Writes
<1> QED
  BY NextCases,
     <1>1, <1>2, <1>3, <1>4, <1>5, <1>6, <1>7, <1>8, <1>9, <1>10, <1>11, <1>12,
     <1>13, <1>14, <1>15, <1>16, <1>17, <1>18, <1>19, <1>20

\* Startup fails the running rows before anything can run.
LEMMA NoneRunsAtBootPreserved ==
  ASSUME TypeOK, TypeOK', JobInv, NoneRunsAtBoot, [Next]_vars
  PROVE  NoneRunsAtBoot'
<1> USE JobsAssumption DEF rowVars, fileVars, webVars, prunerVars, workerVars,
      threadVars, faultVars, TypeOK, Segment, Stages, NoneRunsAtBoot, JobInv,
      MemoryIsEmpty
<1>1. CASE FailRunningJobs
  BY <1>1 DEF FailRunningJobs, AfterRestart
<1>2. CASE RequeueAndStart
  BY <1>2 DEF RequeueAndStart
<1>3. CASE Shutdown
  BY <1>3 DEF Shutdown
<1>4. CASE Exit
  BY <1>4 DEF Exit
<1>5. CASE Crash
  BY <1>5 DEF Crash
<1>6. ASSUME NEW j \in Jobs, CreateRow(j) PROVE NoneRunsAtBoot'
  BY <1>6 DEF CreateRow
<1>7. ASSUME NEW j \in Jobs, DeleteRow(j) PROVE NoneRunsAtBoot'
  BY <1>7 DEF DeleteRow, RemoveRow
<1>8. ASSUME NEW j \in Jobs, PruneRow(j) PROVE NoneRunsAtBoot'
  BY <1>8 DEF PruneRow, RemoveRow
<1>9. ASSUME NEW w \in Workers, MarkRunning(w) PROVE NoneRunsAtBoot'
  BY <1>9 DEF MarkRunning, Goto, SetStatus
<1>10. ASSUME NEW w \in Workers, RejectJob(w) PROVE NoneRunsAtBoot'
  BY <1>10 DEF RejectJob, Release, Goto, SetStatus
<1>11. ASSUME NEW w \in Workers, FinishJob(w) PROVE NoneRunsAtBoot'
  BY <1>11 DEF FinishJob, Release, Goto, SetStatus
<1>12. ASSUME NEW w \in Workers, FailJob(w) PROVE NoneRunsAtBoot'
  BY <1>12 DEF FailJob, Release, Goto, SetStatus
<1>13. ASSUME \/ PruneList \/ PruneFiles
      PROVE  NoneRunsAtBoot'
  <2>1. UNCHANGED <<phase, status>>
    BY <1>13 DEF PruneList, PruneFiles, Rmtree, Fault
  <2> QED
    BY <2>1
<1>14. ASSUME NEW j \in Jobs,
             \/ StageUpload(j) \/ MoveInput(j) \/ UpdateRow(j) \/ Enqueue(j)
             \/ Acknowledge(j) \/ UploadFault(j) \/ DeleteCheck(j) \/ DeleteFiles(j)
             \/ PruneFault(j) \/ ThreadWrite(j) \/ ThreadReturns(j) \/ ThreadRaises(j)
      PROVE  NoneRunsAtBoot'
  <2>1. UNCHANGED <<phase, status>>
    BY <1>14 DEF StageUpload, MoveInput, UpdateRow, Enqueue, Acknowledge, UploadFault,
              DeleteCheck, DeleteFiles, PruneFault, ThreadWrite, ThreadReturns,
              ThreadRaises, Fault, Finalise, Outcome, Put, Rmtree
  <2> QED
    BY <2>1
<1>15. ASSUME NEW w \in Workers,
             \/ Dequeue(w) \/ SkipMissing(w) \/ LoadJob(w) \/ StartRunner(w)
             \/ Advance(w) \/ RunnerRaises(w) \/ Timeout(w) \/ StoreFault(w)
             \/ WorkerDies(w) \/ ThreadStart(w)
      PROVE  NoneRunsAtBoot'
  <2>1. UNCHANGED <<phase, status>>
    BY <1>15 DEF Dequeue, SkipMissing, LoadJob, StartRunner, Advance, RunnerRaises,
              Timeout, StoreFault, WorkerDies, ThreadStart, AfterTimeout, Fault,
              Goto, Release, Submit, Timed
  <2> QED
    BY <2>1
<1>16. CASE UNCHANGED vars
  BY <1>16 DEF vars
<1> HIDE DEF TypeOK, NoneRunsAtBoot, JobInv, MemoryIsEmpty
<1> QED
  BY NextCases,
     <1>1, <1>2, <1>3, <1>4, <1>5, <1>6, <1>7, <1>8, <1>9, <1>10, <1>11, <1>12,
     <1>13, <1>14, <1>15, <1>16

\* A worker lets go of its job when it leaves it.
LEMMA IdleHoldsNonePreserved ==
  ASSUME TypeOK, TypeOK', JobInv, IdleHoldsNone, [Next]_vars
  PROVE  IdleHoldsNone'
<1> USE JobsAssumption DEF rowVars, fileVars, webVars, prunerVars, workerVars,
      threadVars, faultVars, TypeOK, Segment, Stages, IdleHoldsNone, JobInv,
      MemoryIsEmpty
<1>1. CASE RequeueAndStart
  BY <1>1 DEF RequeueAndStart
<1>2. CASE Shutdown
  BY <1>2 DEF Shutdown
<1>3. CASE Crash
  BY <1>3 DEF Crash
<1>4. ASSUME NEW w \in Workers, Dequeue(w) PROVE IdleHoldsNone'
  BY <1>4 DEF Dequeue, Goto
<1>5. ASSUME NEW w \in Workers, SkipMissing(w) PROVE IdleHoldsNone'
  BY <1>5 DEF SkipMissing, Release, Goto
<1>6. ASSUME NEW w \in Workers, LoadJob(w) PROVE IdleHoldsNone'
  BY <1>6 DEF LoadJob, Goto
<1>7. ASSUME NEW w \in Workers, MarkRunning(w) PROVE IdleHoldsNone'
  BY <1>7 DEF MarkRunning, Goto, SetStatus
<1>8. ASSUME NEW w \in Workers, StartRunner(w) PROVE IdleHoldsNone'
  BY <1>8 DEF StartRunner, Goto, Submit
<1>9. ASSUME NEW w \in Workers, Advance(w) PROVE IdleHoldsNone'
  BY <1>9 DEF Advance, Goto, Submit
<1>10. ASSUME NEW w \in Workers, RejectJob(w) PROVE IdleHoldsNone'
  BY <1>10 DEF RejectJob, Release, Goto, SetStatus
<1>11. ASSUME NEW w \in Workers, FinishJob(w) PROVE IdleHoldsNone'
  BY <1>11 DEF FinishJob, Release, Goto, SetStatus
<1>12. ASSUME NEW w \in Workers, RunnerRaises(w) PROVE IdleHoldsNone'
  BY <1>12 DEF RunnerRaises, Goto
<1>13. ASSUME NEW w \in Workers, Timeout(w) PROVE IdleHoldsNone'
  BY <1>13 DEF Timeout, Goto, AfterTimeout, Timed
<1>14. ASSUME NEW w \in Workers, FailJob(w) PROVE IdleHoldsNone'
  BY <1>14 DEF FailJob, Release, Goto, SetStatus
<1>15. ASSUME NEW w \in Workers, StoreFault(w) PROVE IdleHoldsNone'
  BY <1>15 DEF StoreFault, Fault, Goto
<1>16. ASSUME NEW w \in Workers, WorkerDies(w) PROVE IdleHoldsNone'
  BY <1>16 DEF WorkerDies, Fault, Release, Goto
<1>17. ASSUME \/ FailRunningJobs \/ Exit \/ PruneList \/ PruneFiles
      PROVE  IdleHoldsNone'
  <2>1. UNCHANGED <<wjob, wpc>>
    BY <1>17 DEF FailRunningJobs, Exit, PruneList, PruneFiles, AfterRestart, Rmtree, Fault
  <2> QED
    BY <2>1
<1>18. ASSUME NEW j \in Jobs,
             \/ StageUpload(j) \/ CreateRow(j) \/ MoveInput(j) \/ UpdateRow(j)
             \/ Enqueue(j) \/ Acknowledge(j) \/ UploadFault(j) \/ DeleteCheck(j)
             \/ DeleteRow(j) \/ DeleteFiles(j) \/ PruneRow(j) \/ PruneFault(j)
             \/ ThreadWrite(j) \/ ThreadReturns(j) \/ ThreadRaises(j)
      PROVE  IdleHoldsNone'
  <2>1. UNCHANGED <<wjob, wpc>>
    BY <1>18 DEF StageUpload, CreateRow, MoveInput, UpdateRow, Enqueue, Acknowledge,
              UploadFault, DeleteCheck, DeleteRow, DeleteFiles, PruneRow, PruneFault,
              ThreadWrite, ThreadReturns, ThreadRaises, Fault, Finalise, Outcome,
              Put, RemoveRow, Rmtree
  <2> QED
    BY <2>1
<1>19. ASSUME NEW w \in Workers,
             \/ ThreadStart(w)
      PROVE  IdleHoldsNone'
  <2>1. UNCHANGED <<wjob, wpc>>
    BY <1>19 DEF ThreadStart
  <2> QED
    BY <2>1
<1>20. CASE UNCHANGED vars
  BY <1>20 DEF vars
<1> HIDE DEF TypeOK, IdleHoldsNone, JobInv, MemoryIsEmpty
<1> QED
  BY NextCases,
     <1>1, <1>2, <1>3, <1>4, <1>5, <1>6, <1>7, <1>8, <1>9, <1>10, <1>11, <1>12,
     <1>13, <1>14, <1>15, <1>16, <1>17, <1>18, <1>19, <1>20

\* A row is handed on without a gap: upload, queue, worker.
LEMMA LiveRowsOwnedPreserved ==
  ASSUME TypeOK, TypeOK', JobInv, IdleHoldsNone, NoneRunsAtBoot, LiveRowsOwned,
          [Next]_vars
  PROVE  LiveRowsOwned'
<1> USE JobsAssumption DEF rowVars, fileVars, webVars, prunerVars, workerVars,
      threadVars, faultVars, TypeOK, Segment, Stages, IdleHoldsNone,
      NoneRunsAtBoot, LiveRowsOwned, JobInv, StatusByPlace, InQueue
<1>1. CASE FailRunningJobs
  BY <1>1 DEF FailRunningJobs, AfterRestart
<1>2. CASE RequeueAndStart
  <2>1. \A j \in Recoverable : \E i \in DOMAIN queue' : queue'[i] = j
    <3>1. queue' \in Arrangements(Recoverable)
      BY <1>2 DEF RequeueAndStart
    <3> HIDE DEF TypeOK, JobInv, LiveRowsOwned, Recoverable
    <3> QED
      BY <3>1 DEF Arrangements
  <2> QED
    BY <1>2, <2>1 DEF RequeueAndStart, Recoverable
<1>3. CASE Shutdown
  BY <1>3 DEF Shutdown
<1>4. CASE Exit
  BY <1>4 DEF Exit
<1>5. CASE Crash
  BY <1>5 DEF Crash
<1>6. ASSUME NEW j \in Jobs, StageUpload(j) PROVE LiveRowsOwned'
  BY <1>6 DEF StageUpload
<1>7. ASSUME NEW j \in Jobs, CreateRow(j) PROVE LiveRowsOwned'
  BY <1>7 DEF CreateRow
<1>8. ASSUME NEW j \in Jobs, MoveInput(j) PROVE LiveRowsOwned'
  BY <1>8 DEF MoveInput
<1>9. ASSUME NEW j \in Jobs, UpdateRow(j) PROVE LiveRowsOwned'
  BY <1>9 DEF UpdateRow, Finalise
<1>10. ASSUME NEW j \in Jobs, Enqueue(j) PROVE LiveRowsOwned'
  <2>1. queue \in Seq(Jobs) /\ queue' = Append(queue, j)
    BY <1>10 DEF Enqueue, Put
  <2>2. InQueue(j)' /\ \A k \in Jobs : InQueue(k) => InQueue(k)'
    <3> HIDE DEF TypeOK, JobInv, LiveRowsOwned
    <3>1. /\ DOMAIN queue' = 1..(Len(queue) + 1) /\ DOMAIN queue = 1..Len(queue)
          /\ Len(queue) \in Nat
          /\ \A i \in 1..Len(queue) : queue'[i] = queue[i]
          /\ queue'[Len(queue) + 1] = j
      BY <2>1, QueueEnds
    <3> QED
      BY <3>1
  <2>3. /\ UNCHANGED <<phase, faults, status, wjob>>
        /\ \A k \in Jobs \ {j} : upload'[k] = upload[k]
    BY <1>10 DEF Enqueue
  <2> HIDE DEF InQueue, JobInv, TypeOK
  <2> QED
    BY <1>10, <2>2, <2>3 DEF Enqueue
<1>11. ASSUME NEW j \in Jobs, Acknowledge(j) PROVE LiveRowsOwned'
  BY <1>11 DEF Acknowledge
<1>12. ASSUME NEW j \in Jobs, UploadFault(j) PROVE LiveRowsOwned'
  BY <1>12 DEF UploadFault, Fault
<1>13. ASSUME NEW j \in Jobs, DeleteRow(j) PROVE LiveRowsOwned'
  BY <1>13 DEF DeleteRow, RemoveRow
<1>14. ASSUME NEW j \in Jobs, PruneRow(j) PROVE LiveRowsOwned'
  BY <1>14 DEF PruneRow, RemoveRow
<1>15. ASSUME NEW j \in Jobs, PruneFault(j) PROVE LiveRowsOwned'
  BY <1>15 DEF PruneFault, Fault
<1>16. ASSUME NEW w \in Workers, Dequeue(w) PROVE LiveRowsOwned'
  <2>1. queue \in Seq(Jobs) /\ queue # <<>> /\ queue' = Tail(queue)
    BY <1>16 DEF Dequeue
  <2>2. \A k \in Jobs : InQueue(k) => InQueue(k)' \/ k = Head(queue)
    <3>1. ASSUME NEW i \in 2..Len(queue)
          PROVE  i - 1 \in DOMAIN queue' /\ queue'[i - 1] = queue[i]
      BY <2>1, <3>1
    <3> HIDE DEF JobInv, TypeOK, LiveRowsOwned, InQueue
    <3>2. \A i \in DOMAIN queue : i = 1 \/ i \in 2..Len(queue)
      BY <2>1
    <3>3. Head(queue) = queue[1]
      BY <2>1
    <3> QED
      BY <3>1, <3>2, <3>3 DEF InQueue
  <2>3. UNCHANGED <<phase, faults, status, upload>> /\ wjob' = [wjob EXCEPT ![w] = Head(queue)]
    BY <1>16 DEF Dequeue
  <2>4. status[Head(queue)] # "running"
    <3>1. 1 \in DOMAIN queue /\ Head(queue) = queue[1]
      BY <2>1
    <3> HIDE DEF TypeOK, LiveRowsOwned
    <3> QED
      BY <3>1
  <2>5. wjob[w] \notin Jobs
    BY <1>16 DEF Dequeue
  <2>6. wjob'[w] = Head(queue) /\ \A v \in Workers \ {w} : wjob'[v] = wjob[v]
    BY <2>3
  <2>7. UNCHANGED <<phase, faults, status, upload>>
    BY <2>3
  <2> HIDE DEF InQueue, JobInv, TypeOK, NoneRunsAtBoot, IdleHoldsNone
  <2> QED
    BY <2>2, <2>4, <2>5, <2>6, <2>7
<1>17. ASSUME NEW w \in Workers, SkipMissing(w) PROVE LiveRowsOwned'
  BY <1>17 DEF SkipMissing, Release, Goto
<1>18. ASSUME NEW w \in Workers, MarkRunning(w) PROVE LiveRowsOwned'
  BY <1>18 DEF MarkRunning, Goto, SetStatus
<1>19. ASSUME NEW w \in Workers, RejectJob(w) PROVE LiveRowsOwned'
  BY <1>19 DEF RejectJob, Release, Goto, SetStatus
<1>20. ASSUME NEW w \in Workers, FinishJob(w) PROVE LiveRowsOwned'
  BY <1>20 DEF FinishJob, Release, Goto, SetStatus
<1>21. ASSUME NEW w \in Workers, FailJob(w) PROVE LiveRowsOwned'
  BY <1>21 DEF FailJob, Release, Goto, SetStatus
<1>22. ASSUME NEW w \in Workers, StoreFault(w) PROVE LiveRowsOwned'
  BY <1>22 DEF StoreFault, Fault, Goto
<1>23. ASSUME NEW w \in Workers, WorkerDies(w) PROVE LiveRowsOwned'
  BY <1>23 DEF WorkerDies, Fault, Release, Goto
<1>24. ASSUME \/ PruneList \/ PruneFiles
      PROVE  LiveRowsOwned'
  <2>1. UNCHANGED <<phase, queue, status, upload, wjob>> /\ (faults' = 0 => faults = 0)
    BY <1>24 DEF PruneList, PruneFiles, Rmtree, Fault
  <2> QED
    BY <2>1
<1>25. ASSUME NEW j \in Jobs,
             \/ DeleteCheck(j) \/ DeleteFiles(j) \/ ThreadWrite(j) \/ ThreadReturns(j)
             \/ ThreadRaises(j)
      PROVE  LiveRowsOwned'
  <2>1. UNCHANGED <<phase, queue, status, upload, wjob>> /\ (faults' = 0 => faults = 0)
    BY <1>25 DEF DeleteCheck, DeleteFiles, ThreadWrite, ThreadReturns, ThreadRaises,
              Outcome, Rmtree, Fault
  <2> QED
    BY <2>1
<1>26. ASSUME NEW w \in Workers,
             \/ LoadJob(w) \/ StartRunner(w) \/ Advance(w) \/ RunnerRaises(w)
             \/ Timeout(w) \/ ThreadStart(w)
      PROVE  LiveRowsOwned'
  <2>1. UNCHANGED <<faults, phase, queue, status, upload, wjob>>
    BY <1>26 DEF LoadJob, StartRunner, Advance, RunnerRaises, Timeout, ThreadStart,
              AfterTimeout, Goto, Submit, Timed
  <2> QED
    BY <2>1
<1>27. CASE UNCHANGED vars
  BY <1>27 DEF vars
<1> HIDE DEF TypeOK, IdleHoldsNone, NoneRunsAtBoot, LiveRowsOwned, JobInv,
      StatusByPlace, InQueue
<1> QED
  BY NextCases,
     <1>1, <1>2, <1>3, <1>4, <1>5, <1>6, <1>7, <1>8, <1>9, <1>10, <1>11, <1>12,
     <1>13, <1>14, <1>15, <1>16, <1>17, <1>18, <1>19, <1>20, <1>21, <1>22, <1>23,
     <1>24, <1>25, <1>26, <1>27

\* The handler moves the file and completes the row before it enqueues.
LEMMA UploadsInOrderPreserved ==
  ASSUME TypeOK, TypeOK', JobInv, RemovalAfterRow, UploadsInOrder, [Next]_vars
  PROVE  UploadsInOrder'
<1> USE JobsAssumption DEF rowVars, fileVars, webVars, prunerVars, workerVars,
      threadVars, faultVars, TypeOK, Segment, Stages, UploadsInOrder, JobInv,
      HandlerOwns, RemovalAfterRow
<1>1. CASE Crash
  BY <1>1 DEF Crash
<1>2. CASE PruneFiles
  <2>1. Leaves
    BY <1>2, RemovalLeaves
  <2> HIDE DEF TypeOK
  <2> QED
    BY <2>1 DEF Leaves
<1>3. ASSUME NEW j \in Jobs, StageUpload(j) PROVE UploadsInOrder'
  BY <1>3 DEF StageUpload
<1>4. ASSUME NEW j \in Jobs, CreateRow(j) PROVE UploadsInOrder'
  BY <1>4 DEF CreateRow
<1>5. ASSUME NEW j \in Jobs, MoveInput(j) PROVE UploadsInOrder'
  BY <1>5 DEF MoveInput
<1>6. ASSUME NEW j \in Jobs, UpdateRow(j) PROVE UploadsInOrder'
  BY <1>6 DEF UpdateRow, Finalise
<1>7. ASSUME NEW j \in Jobs, Enqueue(j) PROVE UploadsInOrder'
  BY <1>7 DEF Enqueue, Put
<1>8. ASSUME NEW j \in Jobs, Acknowledge(j) PROVE UploadsInOrder'
  BY <1>8 DEF Acknowledge
<1>9. ASSUME NEW j \in Jobs, UploadFault(j) PROVE UploadsInOrder'
  BY <1>9 DEF UploadFault, Fault
<1>10. ASSUME NEW j \in Jobs, DeleteFiles(j) PROVE UploadsInOrder'
  <2>1. Leaves
    BY <1>10, RemovalLeaves
  <2> HIDE DEF TypeOK
  <2> QED
    BY <2>1 DEF Leaves
<1>11. ASSUME NEW j \in Jobs, ThreadWrite(j) PROVE UploadsInOrder'
  BY <1>11 DEF ThreadWrite
<1>12. ASSUME NEW w \in Workers, StartRunner(w) PROVE UploadsInOrder'
  BY <1>12 DEF StartRunner, Goto, Submit
<1>13. ASSUME NEW w \in Workers, StoreFault(w) PROVE UploadsInOrder'
  BY <1>13 DEF StoreFault, Fault, Goto
<1>14. ASSUME \/ FailRunningJobs \/ RequeueAndStart \/ Shutdown \/ Exit
             \/ PruneList
      PROVE  UploadsInOrder'
  <2>1. UNCHANGED <<disk, input, meta, upload>>
    BY <1>14 DEF FailRunningJobs, RequeueAndStart, Shutdown, Exit, PruneList,
              AfterRestart
  <2> QED
    BY <2>1
<1>15. ASSUME NEW j \in Jobs,
             \/ DeleteCheck(j) \/ DeleteRow(j) \/ PruneRow(j) \/ PruneFault(j)
             \/ ThreadReturns(j) \/ ThreadRaises(j)
      PROVE  UploadsInOrder'
  <2>1. UNCHANGED <<disk, input, meta, upload>>
    BY <1>15 DEF DeleteCheck, DeleteRow, PruneRow, PruneFault, ThreadReturns,
              ThreadRaises, Fault, Outcome, RemoveRow
  <2> QED
    BY <2>1
<1>16. ASSUME NEW w \in Workers,
             \/ Dequeue(w) \/ SkipMissing(w) \/ LoadJob(w) \/ MarkRunning(w)
             \/ Advance(w) \/ RejectJob(w) \/ FinishJob(w) \/ RunnerRaises(w)
             \/ Timeout(w) \/ FailJob(w) \/ WorkerDies(w) \/ ThreadStart(w)
      PROVE  UploadsInOrder'
  <2>1. UNCHANGED <<disk, input, meta, upload>>
    BY <1>16 DEF Dequeue, SkipMissing, LoadJob, MarkRunning, Advance, RejectJob,
              FinishJob, RunnerRaises, Timeout, FailJob, WorkerDies, ThreadStart,
              AfterTimeout, Fault, Goto, Release, SetStatus, Submit, Timed
  <2> QED
    BY <2>1
<1>17. CASE UNCHANGED vars
  BY <1>17 DEF vars
<1> HIDE DEF TypeOK, UploadsInOrder, JobInv, HandlerOwns, RemovalAfterRow
<1> QED
  BY NextCases,
     <1>1, <1>2, <1>3, <1>4, <1>5, <1>6, <1>7, <1>8, <1>9, <1>10, <1>11, <1>12,
     <1>13, <1>14, <1>15, <1>16, <1>17

\* Nobody sees the row of an enqueued job without its file and metadata.
LEMMA AcceptedIsCompletePreserved ==
  ASSUME TypeOK, TypeOK', JobInv, RemovalAfterRow, UploadsInOrder,
          AcceptedIsComplete, [Next]_vars
  PROVE  AcceptedIsComplete'
<1> USE JobsAssumption DEF rowVars, fileVars, webVars, prunerVars, workerVars,
      threadVars, faultVars, TypeOK, Segment, Stages, UploadsInOrder, JobInv,
      HandlerOwns, RemovalAfterRow, AcceptedIsComplete, Held, InFlight
<1>1. CASE FailRunningJobs
  BY <1>1 DEF FailRunningJobs, AfterRestart
<1>2. CASE RequeueAndStart
  BY <1>2 DEF RequeueAndStart
<1>3. CASE Shutdown
  BY <1>3 DEF Shutdown
<1>4. CASE Crash
  BY <1>4 DEF Crash
<1>5. CASE PruneFiles
  <2>1. Leaves
    BY <1>5, RemovalLeaves
  <2> HIDE DEF TypeOK
  <2> QED
    BY <2>1 DEF Leaves
<1>6. ASSUME NEW j \in Jobs, StageUpload(j) PROVE AcceptedIsComplete'
  BY <1>6 DEF StageUpload
<1>7. ASSUME NEW j \in Jobs, CreateRow(j) PROVE AcceptedIsComplete'
  BY <1>7 DEF CreateRow
<1>8. ASSUME NEW j \in Jobs, MoveInput(j) PROVE AcceptedIsComplete'
  BY <1>8 DEF MoveInput
<1>9. ASSUME NEW j \in Jobs, UpdateRow(j) PROVE AcceptedIsComplete'
  BY <1>9 DEF UpdateRow, Finalise
<1>10. ASSUME NEW j \in Jobs, Enqueue(j) PROVE AcceptedIsComplete'
  BY <1>10 DEF Enqueue, Put
<1>11. ASSUME NEW j \in Jobs, Acknowledge(j) PROVE AcceptedIsComplete'
  BY <1>11 DEF Acknowledge
<1>12. ASSUME NEW j \in Jobs, UploadFault(j) PROVE AcceptedIsComplete'
  BY <1>12 DEF UploadFault, Fault
<1>13. ASSUME NEW j \in Jobs, DeleteRow(j) PROVE AcceptedIsComplete'
  BY <1>13 DEF DeleteRow, RemoveRow
<1>14. ASSUME NEW j \in Jobs, DeleteFiles(j) PROVE AcceptedIsComplete'
  <2>1. Leaves
    BY <1>14, RemovalLeaves
  <2> HIDE DEF TypeOK
  <2> QED
    BY <2>1 DEF Leaves
<1>15. ASSUME NEW j \in Jobs, PruneRow(j) PROVE AcceptedIsComplete'
  BY <1>15 DEF PruneRow, RemoveRow
<1>16. ASSUME NEW j \in Jobs, ThreadWrite(j) PROVE AcceptedIsComplete'
  BY <1>16 DEF ThreadWrite
<1>17. ASSUME NEW w \in Workers, Dequeue(w) PROVE AcceptedIsComplete'
  BY <1>17 DEF Dequeue, Goto
<1>18. ASSUME NEW w \in Workers, SkipMissing(w) PROVE AcceptedIsComplete'
  BY <1>18 DEF SkipMissing, Release, Goto
<1>19. ASSUME NEW w \in Workers, LoadJob(w) PROVE AcceptedIsComplete'
  <2>1. PICK j \in Jobs : j = wjob[w] /\ status[j] # "none"
    BY <1>19, OnlyHolder DEF LoadJob
  <2>2. /\ snap'[w] = [input |-> input[j], meta |-> j \in meta]
        /\ \A v \in Workers \ {w} : snap'[v] = snap[v] /\ wpc'[v] = wpc[v]
        /\ UNCHANGED <<upload, status, input, meta, disk, wjob>>
    BY <1>19, <2>1 DEF LoadJob, Goto
  <2>3. ASSUME NEW k \in Jobs, upload[k] \in {"enqueued", "acked"}, NEW v \in Workers,
               wjob[v] = k, wpc'[v] \in {"loaded", "running"} \cup Stages
        PROVE  snap'[v] = [input |-> "final", meta |-> TRUE]
    <3> HIDE DEF TypeOK, JobInv, UploadsInOrder, RemovalAfterRow, HandlerOwns
    <3>1. CASE v = w
      BY <2>1, <2>2, <2>3, <3>1
    <3>2. CASE v # w
      BY <2>2, <2>3, <3>2
    <3> QED
      BY <3>1, <3>2
  <2> HIDE DEF TypeOK, JobInv, UploadsInOrder, RemovalAfterRow
  <2> QED
    BY <2>2, <2>3
<1>20. ASSUME NEW w \in Workers, MarkRunning(w) PROVE AcceptedIsComplete'
  <2>1. PICK j \in Jobs : j = wjob[w] /\ status[j] \in {"queued", "none"}
    BY <1>20 DEF MarkRunning, StatusByPlace
  <2>2. /\ \A k \in Jobs : status'[k] = IF k = j /\ status[j] # "none" THEN "running" ELSE status[k]
        /\ \A v \in Workers \ {w} : wpc'[v] = wpc[v]
        /\ wpc[w] = "loaded" /\ wpc'[w] = "running"
        /\ UNCHANGED <<upload, input, meta, disk, wjob, snap>>
    BY <1>20, <2>1 DEF MarkRunning, Goto, SetStatus
  <2> HIDE DEF TypeOK, JobInv
  <2> QED
    BY <2>1, <2>2
<1>21. ASSUME NEW w \in Workers, StartRunner(w) PROVE AcceptedIsComplete'
  BY <1>21 DEF StartRunner, Goto, Submit
<1>22. ASSUME NEW w \in Workers, Advance(w) PROVE AcceptedIsComplete'
  BY <1>22 DEF Advance, Goto, Submit
<1>23. ASSUME NEW w \in Workers, RejectJob(w) PROVE AcceptedIsComplete'
  BY <1>23 DEF RejectJob, Release, Goto, SetStatus
<1>24. ASSUME NEW w \in Workers, FinishJob(w) PROVE AcceptedIsComplete'
  BY <1>24 DEF FinishJob, Release, Goto, SetStatus
<1>25. ASSUME NEW w \in Workers, RunnerRaises(w) PROVE AcceptedIsComplete'
  BY <1>25 DEF RunnerRaises, Goto
<1>26. ASSUME NEW w \in Workers, Timeout(w) PROVE AcceptedIsComplete'
  BY <1>26 DEF Timeout, Goto, AfterTimeout, Timed
<1>27. ASSUME NEW w \in Workers, FailJob(w) PROVE AcceptedIsComplete'
  BY <1>27 DEF FailJob, Release, Goto, SetStatus
<1>28. ASSUME NEW w \in Workers, StoreFault(w) PROVE AcceptedIsComplete'
  BY <1>28 DEF StoreFault, Fault, Goto
<1>29. ASSUME NEW w \in Workers, WorkerDies(w) PROVE AcceptedIsComplete'
  BY <1>29 DEF WorkerDies, Fault, Release, Goto
<1>30. ASSUME \/ Exit \/ PruneList
      PROVE  AcceptedIsComplete'
  <2>1. UNCHANGED <<disk, input, meta, snap, status, upload, wjob, wpc>>
    BY <1>30 DEF Exit, PruneList
  <2> QED
    BY <2>1
<1>31. ASSUME NEW j \in Jobs,
             \/ DeleteCheck(j) \/ PruneFault(j) \/ ThreadReturns(j) \/ ThreadRaises(j)
      PROVE  AcceptedIsComplete'
  <2>1. UNCHANGED <<disk, input, meta, snap, status, upload, wjob, wpc>>
    BY <1>31 DEF DeleteCheck, PruneFault, ThreadReturns, ThreadRaises, Fault, Outcome
  <2> QED
    BY <2>1
<1>32. ASSUME NEW w \in Workers,
             \/ ThreadStart(w)
      PROVE  AcceptedIsComplete'
  <2>1. UNCHANGED <<disk, input, meta, snap, status, upload, wjob, wpc>>
    BY <1>32 DEF ThreadStart
  <2> QED
    BY <2>1
<1>33. CASE UNCHANGED vars
  BY <1>33 DEF vars
<1> HIDE DEF TypeOK, UploadsInOrder, JobInv, HandlerOwns, RemovalAfterRow,
      AcceptedIsComplete, Held, InFlight
<1> QED
  BY NextCases,
     <1>1, <1>2, <1>3, <1>4, <1>5, <1>6, <1>7, <1>8, <1>9, <1>10, <1>11, <1>12,
     <1>13, <1>14, <1>15, <1>16, <1>17, <1>18, <1>19, <1>20, <1>21, <1>22, <1>23,
     <1>24, <1>25, <1>26, <1>27, <1>28, <1>29, <1>30, <1>31, <1>32, <1>33

-----------------------------------------------------------------------------
(* The theorems.                                                           *)

\* Calls, files and rows agree at every step, whoever removes rows and however
\* often the server restarts.
THEOREM ArtifactInvHolds == Spec => []ArtifactInv
<1>1. Init => ArtifactInv
  BY JobsAssumption DEF Init, ArtifactInv, ThreadByPlace, RemovalAfterRow, FilesByPlace,
    DoneHasArtifacts, ServedResultIsStable, Segment, Stages, Live
<1>2. TypeOK /\ TypeOK' /\ JobInv /\ ArtifactInv /\ [Next]_vars => ArtifactInv'
  BY RemovalAfterRowPreserved, ThreadByPlacePreserved, FilesByPlacePreserved,
     DoneHasArtifactsPreserved, ServedResultIsStablePreserved DEF ArtifactInv
<1> QED
  BY <1>1, <1>2, TypeCorrect, JobInvHolds, PTL DEF Spec

\* A job that the server says is done has its result and its report on disk.
THEOREM DoneJobsHaveFiles == Spec => []DoneHasArtifacts
<1>1. ArtifactInv => DoneHasArtifacts
  BY DEF ArtifactInv
<1> QED
  BY <1>1, ArtifactInvHolds, PTL

\* No engine thread of a done job is still running: what is served is final.
THEOREM ServedResultsAreFinal == Spec => []ServedResultIsStable
<1>1. ArtifactInv => ServedResultIsStable
  BY DEF ArtifactInv
<1> QED
  BY <1>1, ArtifactInvHolds, PTL

\* A directory without a row is about to be emptied, or lost its row to a
\* removal that raced a run or a crash, or that rmtree left incomplete.
THEOREM OrphansAreExplained == Spec => []OrphansExplained
<1>1. Init => OrphanInv
  BY JobsAssumption DEF Init, OrphanInv, OrphansExplained, RacedRemembered,
      NothingBeforeBirth,
    Executing, Held, InQueue, Live
<1>2. TypeOK /\ TypeOK' /\ JobInv /\ ArtifactInv /\ OrphanInv /\ [Next]_vars => OrphanInv'
  BY OrphansExplainedPreserved, RacedRememberedPreserved, NothingBeforeBirthPreserved
  DEF OrphanInv, ArtifactInv
<1>3. OrphanInv => OrphansExplained
  BY DEF OrphanInv
<1> QED
  BY <1>1, <1>2, <1>3, TypeCorrect, JobInvHolds, ArtifactInvHolds, PTL DEF Spec

\* What an accepted job is made of, and who will work on it.
THEOREM AcceptedInvHolds == Spec => []AcceptedInv
<1>1. Init => AcceptedInv
  BY JobsAssumption DEF Init, AcceptedInv, NoneRunsAtBoot, IdleHoldsNone, LiveRowsOwned,
    UploadsInOrder, AcceptedIsComplete
<1>2. TypeOK /\ TypeOK' /\ JobInv /\ ArtifactInv /\ AcceptedInv /\ [Next]_vars => AcceptedInv'
  BY NoneRunsAtBootPreserved, IdleHoldsNonePreserved, LiveRowsOwnedPreserved,
     UploadsInOrderPreserved, AcceptedIsCompletePreserved
  DEF AcceptedInv, ArtifactInv
<1> QED
  BY <1>1, <1>2, TypeCorrect, JobInvHolds, ArtifactInvHolds, PTL DEF Spec

\* While no store call has failed, no queued or running row is ever forgotten:
\* its upload handler, the queue or a worker has its id.
THEOREM LiveRowsAreOwned == Spec => []LiveRowsOwned
<1>1. AcceptedInv => LiveRowsOwned
  BY DEF AcceptedInv
<1> QED
  BY <1>1, AcceptedInvHolds, PTL

\* An enqueued job has its file in place and its metadata in its row and in the
\* worker's copy of the row.
THEOREM AcceptedJobsAreComplete == Spec => []AcceptedIsComplete
<1>1. AcceptedInv => AcceptedIsComplete
  BY DEF AcceptedInv
<1> QED
  BY <1>1, AcceptedInvHolds, PTL

-----------------------------------------------------------------------------
(* The backups of the job database: the rotation keeps the latest one and  *)
(* as many as it is told to, however copies fail, are cut off or outlive   *)
(* their task.                                                             *)

\* A copy is under way, or a pruning, only while the task awaits it or is gone; the
\* file being copied is the newest, and the one just copied the last.
ThreadInv ==
  /\ loop = "sleeping" => thread = "idle"
  /\ thread = "copying" => now \in partial /\ now \notin good
  /\ thread = "pruning" => last = now /\ completed > 0

\* Of the partial files at most one is being written: the others were cut off.
PartialInv ==
  Cardinality(partial) <= interrupted + (IF thread = "copying" THEN 1 ELSE 0)

BackupInv == BackupTypeOK /\ ThreadInv /\ PartialInv /\ LatestBackupSurvives /\ DepthHolds

-----------------------------------------------------------------------------
(* Pruning.                                                                *)

LEMMA FilesAreFinite ==
  ASSUME BackupTypeOK
  PROVE  /\ IsFiniteSet(files) /\ IsFiniteSet(good) /\ IsFiniteSet(partial)
         /\ Cardinality(good) \in Nat /\ Cardinality(partial) \in Nat
<1>1. IsFiniteSet(1..now)
  BY FS_Interval DEF BackupTypeOK
<1>2. good \subseteq 1..now /\ partial \subseteq 1..now /\ files \subseteq 1..now
  BY DEF BackupTypeOK, files
<1>3. IsFiniteSet(files) /\ IsFiniteSet(good) /\ IsFiniteSet(partial)
  BY <1>1, <1>2, FS_Subset
<1> QED
  BY <1>3, FS_CardinalityType

\* The newest file is no surplus.
LEMMA NewestIsKept ==
  ASSUME BackupTypeOK PROVE now \notin Surplus
<1>1. Newer(now) = {}
  <2>1. \A u \in files : ~(u > now)
    BY DEF files, BackupTypeOK
  <2> QED
    BY <2>1 DEF Newer
<1>2. Cardinality(Newer(now)) = 0
  BY <1>1, FS_EmptySet
<1> QED
  BY <1>2, BackupAssumption DEF Surplus

\* Whatever is removed, of the newest of it KeepN newer files stay.
LEMMA PruningLeavesEnough ==
  ASSUME BackupTypeOK, NEW gone \in SUBSET Surplus, gone # {}
  PROVE  Cardinality(files \ gone) >= KeepN
<1>1. IsFiniteSet(files)
  BY FilesAreFinite
<1>2. gone \subseteq files /\ \A t \in gone : t \in Nat
  BY DEF Surplus, files, BackupTypeOK
<1>3. \A v \in files : v \in Nat
  BY DEF files, BackupTypeOK
<1>4. PICK t \in gone : \A u \in gone : ~(u > t)
  <2> DEFINE T == {Newer(u) : u \in gone}
             R == StrictSubsetOrdering(files)
             S == FiniteSubsetsOf(files)
  <2>1. IsWellFoundedOn(R, S)
    BY FS_StrictSubsetOrderingWellFounded
  <2>2. S = SUBSET files
    BY <1>1, FS_FiniteSubsetsOfFinite
  <2>3. T \subseteq S /\ T # {}
    <3>1. \A u \in gone : Newer(u) \in SUBSET files
      BY DEF Newer
    <3> HIDE DEF S
    <3> QED
      BY <2>2, <3>1
  <2>4. \E x \in T : \A y \in T : <<y, x>> \notin R
    <3> HIDE DEF T, R, S
    <3> QED
      BY <2>1, <2>3, WFMin
  <2>5. PICK t \in gone : \A u \in gone : <<Newer(u), Newer(t)>> \notin R
    BY <2>4
  <2>6. ASSUME NEW u \in gone, u > t PROVE FALSE
    <3>1. Newer(u) \subseteq Newer(t)
      <4>1. \A v \in files : v > u => v > t
        BY <1>2, <1>3, <2>6
      <4> QED
        BY <4>1 DEF Newer
    <3>2. u \in Newer(t) /\ u \notin Newer(u)
      BY <1>2, <2>6 DEF Newer
    <3>3. Newer(u) \in SUBSET files /\ Newer(t) \in SUBSET files
      BY DEF Newer
    <3>4. <<Newer(u), Newer(t)>> \in R
      BY <3>1, <3>2, <3>3 DEF StrictSubsetOrdering
    <3> QED
      BY <2>5, <3>4
  <2> QED
    BY <2>6
<1>5. Newer(t) \subseteq files \ gone
  BY <1>4 DEF Newer
<1>6. IsFiniteSet(files \ gone)
  BY <1>1, FS_Difference
<1>7. Cardinality(Newer(t)) <= Cardinality(files \ gone)
  BY <1>5, <1>6, FS_Subset
<1>8. Cardinality(Newer(t)) >= KeepN
  BY DEF Surplus
<1>9. Cardinality(Newer(t)) \in Nat /\ Cardinality(files \ gone) \in Nat
  BY <1>5, <1>6, FS_Subset, FS_CardinalityType
<1> QED
  BY <1>7, <1>8, <1>9, BackupAssumption

-----------------------------------------------------------------------------
(* The invariant.                                                          *)

LEMMA InitBackup == BackupInit => BackupInv
<1> SUFFICES ASSUME BackupInit PROVE BackupInv
  OBVIOUS
<1>1. Cardinality(partial) = 0 /\ Cardinality(good) = 0
  BY FS_EmptySet DEF BackupInit
<1> QED
  BY <1>1, BackupAssumption
  DEF BackupInit, BackupInv, BackupTypeOK, ThreadInv, PartialInv, LatestBackupSurvives, DepthHolds

\* Steps that touch no file.
LEMMA QuietStepsKeepBackup ==
  ASSUME BackupInv, Start \/ Stop \/ UNCHANGED backupVars PROVE BackupInv'
<1>1. /\ UNCHANGED <<now, good, partial, last, completed, interrupted, thread>>
      /\ loop' \in {"off", "sleeping", loop}
      /\ loop' = "sleeping" => loop = "sleeping" \/ thread = "idle"
  BY DEF Start, Stop, backupVars, history
<1> QED
  BY <1>1
  DEF BackupInv, BackupTypeOK, ThreadInv, PartialInv, LatestBackupSurvives, DepthHolds

LEMMA CrashKeepsBackup ==
  ASSUME BackupInv, BackupCrash PROVE BackupInv'
<1>1. /\ UNCHANGED <<now, good, partial, last, completed>>
      /\ loop' = "off" /\ thread' = "idle"
      /\ interrupted' = interrupted + (IF thread = "copying" THEN 1 ELSE 0)
  BY DEF BackupCrash, BackupInv, BackupTypeOK
<1>2. Cardinality(good) \in Nat /\ Cardinality(partial) \in Nat
  BY FilesAreFinite DEF BackupInv
<1>3. BackupTypeOK'
  BY <1>1 DEF BackupInv, BackupTypeOK
<1>4. PartialInv'
  BY <1>1 DEF BackupInv, PartialInv
<1>5. DepthHolds'
  BY <1>1, <1>2, BackupAssumption DEF BackupInv, DepthHolds, BackupTypeOK
<1> QED
  BY <1>1, <1>3, <1>4, <1>5 DEF BackupInv, ThreadInv, LatestBackupSurvives

LEMMA TickKeepsBackup ==
  ASSUME BackupInv, Tick PROVE BackupInv'
<1>1. /\ UNCHANGED <<good, last, completed, interrupted>>
      /\ loop = "sleeping" /\ now' = now + 1
  BY DEF Tick, history
<1>2. \/ partial' = partial \cup {now'} /\ loop' = "waiting" /\ thread' = "copying"
      \/ UNCHANGED <<partial, loop, thread>>
  BY DEF Tick
<1>3. now \in Nat /\ thread = "idle" /\ now + 1 \notin good /\ now + 1 \notin partial
  BY <1>1 DEF BackupInv, BackupTypeOK, ThreadInv
<1>4. BackupTypeOK'
  <2>1. 1..now \subseteq 1..(now + 1) /\ now + 1 \in 1..(now + 1) /\ 0..now \subseteq 0..(now + 1)
    BY <1>3
  <2>2. good' \subseteq 1..now' /\ partial' \subseteq 1..now' /\ last' \in 0..now'
    BY <1>1, <1>2, <2>1 DEF BackupInv, BackupTypeOK
  <2> QED
    BY <1>1, <1>2, <1>3, <2>2 DEF BackupInv, BackupTypeOK
<1>5. IsFiniteSet(partial) /\ Cardinality(partial) \in Nat
  BY FilesAreFinite DEF BackupInv
<1>6. PartialInv'
  <2>1. CASE partial' = partial \cup {now'} /\ thread' = "copying"
    <3>1. Cardinality(partial') = Cardinality(partial) + 1
      BY <1>1, <1>3, <1>5, <2>1, FS_AddElement
    <3> QED
      BY <1>1, <1>3, <1>5, <2>1, <3>1 DEF BackupInv, PartialInv, BackupTypeOK
  <2>2. CASE UNCHANGED <<partial, loop, thread>>
    BY <1>1, <2>2 DEF BackupInv, PartialInv
  <2> QED
    BY <1>2, <2>1, <2>2
<1> QED
  BY <1>1, <1>2, <1>3, <1>4, <1>6 DEF BackupInv, ThreadInv, LatestBackupSurvives, DepthHolds

LEMMA CopiedKeepsBackup ==
  ASSUME BackupInv, Copied PROVE BackupInv'
<1>1. /\ UNCHANGED <<now, loop, interrupted>> /\ thread = "copying"
      /\ good' = good \cup {now} /\ partial' = partial \ {now}
      /\ thread' \in {"pruning", "idle"} /\ (loop = "sleeping" => thread' = "idle")
      /\ last' = now /\ completed' = completed + 1
  BY DEF Copied
<1>2. now \in partial /\ now \notin good /\ now \in Nat /\ completed \in Nat /\ interrupted \in Nat
  BY <1>1 DEF BackupInv, BackupTypeOK, ThreadInv
<1>3. /\ IsFiniteSet(good) /\ IsFiniteSet(partial)
      /\ Cardinality(good) \in Nat /\ Cardinality(partial) \in Nat
  BY FilesAreFinite DEF BackupInv
<1>4. Cardinality(good') = Cardinality(good) + 1
  BY <1>1, <1>2, <1>3, FS_AddElement
<1>5. Cardinality(partial') = Cardinality(partial) - 1
  BY <1>1, <1>2, <1>3, FS_RemoveElement
<1>6. BackupTypeOK'
  BY <1>1, <1>2 DEF BackupInv, BackupTypeOK
<1>7. PartialInv'
  BY <1>1, <1>2, <1>3, <1>5 DEF BackupInv, PartialInv
<1>8. DepthHolds'
  BY <1>1, <1>2, <1>3, <1>4, BackupAssumption DEF BackupInv, DepthHolds
<1>9. ThreadInv' /\ LatestBackupSurvives'
  BY <1>1, <1>2 DEF ThreadInv, LatestBackupSurvives
<1> QED
  BY <1>6, <1>7, <1>8, <1>9 DEF BackupInv

LEMMA CopyFailsKeepsBackup ==
  ASSUME BackupInv, CopyFails PROVE BackupInv'
<1>1. /\ UNCHANGED <<now, good, last, completed>>
      /\ thread = "copying" /\ thread' = "idle" /\ loop' \in {"sleeping", loop}
  BY DEF CopyFails
<1>2. \/ partial' = partial \ {now} /\ UNCHANGED interrupted
      \/ interrupted' = interrupted + 1 /\ UNCHANGED partial
  BY DEF CopyFails
<1>3. now \in partial /\ interrupted \in Nat /\ completed \in Nat
  BY <1>1 DEF BackupInv, BackupTypeOK, ThreadInv
<1>4. IsFiniteSet(partial) /\ Cardinality(partial) \in Nat /\ Cardinality(good) \in Nat
  BY FilesAreFinite DEF BackupInv
<1>5. PartialInv'
  <2>1. CASE partial' = partial \ {now} /\ UNCHANGED interrupted
    <3>1. Cardinality(partial') = Cardinality(partial) - 1
      BY <1>3, <1>4, <2>1, FS_RemoveElement
    <3> QED
      BY <1>1, <1>3, <1>4, <2>1, <3>1 DEF BackupInv, PartialInv
  <2>2. CASE interrupted' = interrupted + 1 /\ UNCHANGED partial
    BY <1>1, <1>3, <1>4, <2>2 DEF BackupInv, PartialInv
  <2> QED
    BY <1>2, <2>1, <2>2
<1>6. BackupTypeOK'
  <2>1. partial' \subseteq partial /\ now' = now /\ interrupted' \in Nat
    BY <1>1, <1>2, <1>3
  <2> QED
    BY <1>1, <2>1 DEF BackupInv, BackupTypeOK
<1>7. DepthHolds'
  BY <1>1, <1>2, <1>3, <1>4, BackupAssumption DEF BackupInv, DepthHolds
<1> QED
  BY <1>1, <1>5, <1>6, <1>7 DEF BackupInv, ThreadInv, LatestBackupSurvives

LEMMA PrunedKeepsBackup ==
  ASSUME BackupInv, Pruned PROVE BackupInv'
<1>1. /\ UNCHANGED <<now, last, completed, interrupted>>
      /\ thread = "pruning" /\ thread' = "idle" /\ loop' \in {"sleeping", loop}
  BY DEF Pruned, history
<1>2. PICK gone \in SUBSET Surplus : good' = good \ gone /\ partial' = partial \ gone
  BY DEF Pruned
<1>3. /\ BackupTypeOK /\ last = now /\ completed > 0 /\ interrupted \in Nat
      /\ completed \in Nat
  BY <1>1 DEF BackupInv, BackupTypeOK, ThreadInv
<1>4. BackupTypeOK'
  BY <1>1, <1>2, <1>3 DEF BackupTypeOK
<1>5. /\ IsFiniteSet(good) /\ IsFiniteSet(partial)
      /\ Cardinality(good) \in Nat /\ Cardinality(partial) \in Nat
  BY <1>3, FilesAreFinite
<1>6. /\ IsFiniteSet(good') /\ IsFiniteSet(partial')
      /\ Cardinality(good') \in Nat /\ Cardinality(partial') \in Nat
  BY <1>2, <1>5, FS_Difference, FS_CardinalityType
<1>7. Cardinality(partial') <= interrupted
  <2>1. Cardinality(partial') <= Cardinality(partial)
    BY <1>2, <1>5, FS_Subset
  <2>2. Cardinality(partial) <= interrupted
    BY <1>1, <1>3 DEF BackupInv, PartialInv
  <2> QED
    BY <1>3, <1>5, <1>6, <2>1, <2>2
<1>8. PartialInv'
  BY <1>1, <1>3, <1>7 DEF PartialInv
<1>9. LatestBackupSurvives'
  <2>1. now \in good
    BY <1>3 DEF BackupInv, LatestBackupSurvives
  <2>2. now \in good'
    BY <1>2, <1>3, <2>1, NewestIsKept
  <2> QED
    BY <1>1, <1>3, <2>2 DEF LatestBackupSurvives
<1>10. DepthHolds'
  <2>1. CASE gone = {}
    BY <1>1, <1>2, <2>1 DEF BackupInv, DepthHolds
  <2>2. CASE gone # {}
    <3>1. Cardinality(files \ gone) >= KeepN
      BY <1>3, <2>2, PruningLeavesEnough
    <3>2. files \ gone = good' \cup partial'
      BY <1>2 DEF files
    <3>3. Cardinality(good' \cup partial') =
            Cardinality(good') + Cardinality(partial') - Cardinality(good' \cap partial')
      BY <1>6, FS_Union
    <3>4. Cardinality(good' \cap partial') \in Nat
      BY <1>6, FS_Intersection, FS_CardinalityType
    <3>5. Cardinality(good') + Cardinality(partial') - Cardinality(good' \cap partial') >= KeepN
      BY <3>1, <3>2, <3>3
    <3>6. KeepN \in Nat
      BY BackupAssumption
    <3> DEFINE g == Cardinality(good')  p == Cardinality(partial')
               b == Cardinality(good' \cap partial')
    <3>7. g \in Nat /\ p \in Nat /\ b \in Nat /\ p <= interrupted /\ g + p - b >= KeepN
      BY <1>6, <1>7, <3>4, <3>5
    <3>8. g + interrupted >= KeepN
      <4> HIDE DEF g, p, b
      <4> QED
        BY <1>3, <3>6, <3>7
    <3> QED
      BY <1>1, <3>8 DEF DepthHolds
  <2> QED
    BY <2>1, <2>2
<1> QED
  BY <1>1, <1>4, <1>8, <1>9, <1>10 DEF BackupInv, ThreadInv

LEMMA BackupInvHolds == BackupSpec => []BackupInv
<1>1. BackupInv /\ [BackupNext]_backupVars => BackupInv'
  BY QuietStepsKeepBackup, CrashKeepsBackup, TickKeepsBackup, CopiedKeepsBackup,
     CopyFailsKeepsBackup, PrunedKeepsBackup
  DEF BackupNext
<1> QED
  BY <1>1, InitBackup, PTL DEF BackupSpec

-----------------------------------------------------------------------------

\* The latest completed backup is never pruned, for every number of files to keep.
THEOREM BackupLatestSurvives == BackupSpec => []LatestBackupSurvives
<1>1. BackupInv => LatestBackupSurvives
  BY DEF BackupInv
<1> QED
  BY <1>1, BackupInvHolds, PTL

\* Every complete backup that is missing is the trace of a copy cut off, for every
\* number of files to keep.
THEOREM BackupDepthHolds == BackupSpec => []DepthHolds
<1>1. BackupInv => DepthHolds
  BY DEF BackupInv
<1> QED
  BY <1>1, BackupInvHolds, PTL
=============================================================================
