---------------------------- MODULE RemedyJobsInv ----------------------------
(***************************************************************************)
(* The inductive invariants behind the properties of RemedyJobs.           *)
(* RemedyJobsProofs proves them.                                           *)
(***************************************************************************)
EXTENDS RemedyJobs

Held(j) == \E w \in Workers : wjob[w] = j

\* While the process is not up nothing is queued, held or being uploaded.
MemoryIsEmpty ==
  phase # "up" =>
    /\ queue = <<>>
    /\ \A w \in Workers : wjob[w] = NoJob
    /\ \A j \in Jobs : upload[j] \notin InFlight

\* An id belongs to its upload handler until that handler enqueues it, and
\* DELETE is for those whose upload was answered.
HandlerOwns ==
  \A j \in Jobs :
    /\ upload[j] \in {"idle", "staged"} => status[j] = "none" /\ j \notin born /\ runs[j] = 0
    /\ upload[j] \in {"created", "moved", "updated"} => status[j] = "queued"
    /\ upload[j] \in {"idle", "staged", "created", "moved", "updated"} => ~InQueue(j) /\ ~Held(j)
    /\ del[j] # "idle" => upload[j] = "acked"

\* A row, and whatever is being removed, has been created before.
BornFirst ==
  /\ \A j \in Jobs : status[j] # "none" \/ del[j] # "idle" \/ pruning = j => j \in born
  /\ \A j \in prunable : j \in born /\ status[j] \in Terminal \cup {"none"}

\* The status a row can have, and how often its job was started, by where its
\* id is.
StatusByPlace ==
  /\ \A j \in Jobs : runs[j] \in {0, 1} /\ (status[j] = "queued" => runs[j] = 0)
  /\ \A i \in DOMAIN queue : runs[queue[i]] = 0 /\ status[queue[i]] \in {"queued", "none"}
  /\ \A w \in Workers :
       /\ wpc[w] \in {"got", "loaded"} =>
            runs[wjob[w]] = 0 /\ status[wjob[w]] \in {"queued", "none"}
       /\ wpc[w] \in {"running", "finishing"} \cup Stages => status[wjob[w]] \in {"running", "none"}
       /\ wpc[w] = "failing" => status[wjob[w]] \in {"queued", "running", "none"}

JobInv == MemoryIsEmpty /\ OneOwner /\ HandlerOwns /\ BornFirst /\ StatusByPlace

\* A call that is waiting, or whose outcome is, has its awaiter; a job that was
\* not started, or whose last call was received, has no thread.
ThreadByPlace ==
  /\ \A w \in Workers :
       /\ wpc[w] \in {"running", "finishing"} \cup Stages => runs[wjob[w]] = 1
       /\ wpc[w] \in Stages => tstage[wjob[w]] = wpc[w] /\ tstate[wjob[w]] # "none"
       /\ wpc[w] \in {"running", "finishing"} => tstate[wjob[w]] = "none"
  /\ \A j \in Jobs :
       /\ runs[j] = 0 => tstate[j] = "none"
       /\ tstate[j] \in {"pending", "ok", "raised"} => Attached(j)
       /\ tstate[j] \in Live => tstage[j] \in Stages
       /\ tstate[j] = "written" => Writes(tstage[j]) # {}

\* A job directory is only emptied after its row is gone.
RemovalAfterRow ==
  \A j \in Jobs : del[j] = "rowgone" \/ pruning = j => status[j] = "none"

\* What the engine calls of a job that still has its row have left on disk.
FilesByPlace ==
  \A w \in Workers :
    wpc[w] \in Stages \cup {"finishing"} /\ status[wjob[w]] # "none" =>
      /\ (wpc[w] = "fixing" => tstate[wjob[w]] \in {"written", "ok"})
           => {"dir", "output"} \subseteq disk[wjob[w]]
      /\ (wpc[w] = "finishing" \/ (wpc[w] = "reporting" /\ tstate[wjob[w]] \in {"written", "ok"}))
           => {"dir", "report"} \subseteq disk[wjob[w]]

ArtifactInv ==
  /\ ThreadByPlace
  /\ RemovalAfterRow
  /\ FilesByPlace
  /\ DoneHasArtifacts
  /\ ServedResultIsStable

\* A job whose row is gone while it may still write files is in raced.
RacedRemembered == \A j \in Jobs : status[j] = "none" /\ Executing(j) => j \in raced

\* An id that never had a row has no directory and was never queued.
NothingBeforeBirth ==
  \A j \in Jobs : j \notin born => disk[j] = {} /\ runs[j] = 0 /\ ~Held(j) /\ ~InQueue(j)

OrphanInv == OrphansExplained /\ RacedRemembered /\ NothingBeforeBirth

\* Between the two halves of a startup no row is running.
NoneRunsAtBoot == phase = "booting" => \A j \in Jobs : status[j] # "running"

\* A worker task outside a job holds none.
IdleHoldsNone == \A w \in Workers : wpc[w] \in {"off", "idle", "dead"} => wjob[w] = NoJob

\* What an upload handler has done before it enqueues.
UploadsInOrder ==
  \A j \in Jobs :
    /\ upload[j] \in {"moved", "updated"} => "input" \in disk[j]
    /\ upload[j] = "updated" => input[j] = "final" /\ j \in meta

AcceptedInv ==
  /\ NoneRunsAtBoot
  /\ IdleHoldsNone
  /\ LiveRowsOwned
  /\ UploadsInOrder
  /\ AcceptedIsComplete
=============================================================================
