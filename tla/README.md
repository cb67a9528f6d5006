# A TLA+ model of remedy-server

remedy-server takes PDF, Office and HTML documents over HTTP, makes them
accessible with a large remediation engine, and serves the result. This directory
holds TLA+ modules of the parts of it whose correctness is hard to test, TLC
configurations that check them on small instances, and TLAPS proofs of the
properties that matter most.

## 1. The system

One uvicorn process (`--workers 1`) runs an asyncio event loop. On it live the
request handlers, a pool of worker tasks, two periodic tasks, and the coroutines
that await engine calls; the engine calls themselves run in the threads of the
loop's default executor.

| Component | Code | State | Operations | What makes it correct |
|---|---|---|---|---|
| Job store | `backend/app/jobs.py` `JobStore` | SQLite rows: status, stage, paths, metadata | create, get, update, delete, list_*, fail_running_jobs | an update never makes a row; a terminal row stays terminal |
| Worker pool | `jobs.py` `JobWorker` | in-memory queue, worker tasks | enqueue, start, stop, `_loop` | each id has one owner; a job runs at most once; every job ends |
| Upload handlers | `routes.py`, `vision_plan_routes.py` | `_staging-*` files, `job_dir/<id>/input*` | stage, create row, move, update, enqueue, answer | a worker never sees a half-made job |
| DELETE, retention | `routes.py`, `jobs.py` `prune_expired_jobs` | rows, `job_dir/<id>` | delete row, remove directory | no directory without a row, no row without its files |
| Lifespan | `main.py` | process phase | recovery, start, stop | rows of a previous process are failed or enqueued once |
| Engine handlers | `engine_service.py` | stage, output, report | `run_job` and one handler per kind | a done job has its artifacts; a failed call is recorded |
| Periodic tasks, backup | `scheduler.py`, `backup.py` | `jobs_*.db` files | tick, backup, rotate | rotation never drops the last good backup |
| Review queue, calibration | `quality_routes.py`, `quality_calibration.py` | JSON files | claim, submit, complete | one reviewer per item; no verdict lost or counted twice |
| Synchronous routes | `pdf_*_routes.py`, `html_routes.py`, `office_routes.py`, `validate_routes.py` | temporary files | one engine call each | tokens name files of the right kind |
| PDF fixer | `pdf_fixer.py` | one document | fix_all, fix_and_verify, Ghostscript recovery | an escalation never leaves a worse document |
| Checkers, acceptance | `pdf_checker.py`, `pdf_acceptance.py`, `validator.py` | none | evaluate | a function of the document |
| Vision providers | `pdf_vision.py`, `ollama_client.py` | per-endpoint gates, node rotation, cache | analyze_image, retry, fall back | permits are conserved; every attempt ends |
| Rebuild tier | `rebuild/`, sidecar | temporary PDF | extract, enrich, render, accept, rename | the tier-1 PDF is replaced only by an accepted one |
| Vision planner | `vision_planner/` | candidate operations, budgets | plan, execute, score, evolve | never ends worse than it began; stops |
| Judges, converters, algorithms | `quality_judges/`, `office_*`, `xy_cut.py`, ... | one document | pure transformations | functional |

Interactions. An upload handler creates a row, moves the file, stores the metadata
and enqueues the id. A worker task takes the id, reads the row once, marks it
running and awaits the handler of its kind with that snapshot; the handler awaits
engine calls in threads and updates the row between them. DELETE and the pruner
remove the row and then the directory, without speaking to the worker. On SIGTERM
the lifespan cancels the tasks; on the next start running rows are failed and
queued rows are enqueued.

What is hard about it: every `await` lets another coroutine in; threads outlive the
`wait_for` that gave up on them; rows and files survive a kill while queue, tasks and
threads do not; a removal is two steps, an upload five; and the snapshot a worker
runs with may be older than the row.

## 2. The modules

| Module | Extends / instantiates | What it is |
|---|---|---|
| `JobLifecycle` | | What a client is promised about a job: the abstract specification |
| `RemedyJobs` | instantiates `JobLifecycle` | Upload, queue, workers, engine threads, DELETE, retention, start, stop, crash |
| `RemedyJobsInv` | `RemedyJobs` | Its inductive invariants, in named parts |
| `EngineJob` | instantiates `JobLifecycle` | Every handler of `run_job`, for one job, with the rebuild tier |
| `PdfAcceptance` | | The composite verdict on a PDF and the judgements derived from it: pure operators |
| `FixVerify` | `PdfAcceptance` | `fix_and_verify` and the two tiers of `pdf escalate` |
| `TableRows` | | The grid of a tagged table and how narrow rows are widened: pure operators |
| `TagNodes` | | The elements of a structure tree, and which kids the fixer's structural passes give one of them: pure operators |
| `TagTree` | `TagNodes`, `TableRows` | Trees of them, the checker's parent rules, the passes over a tree: pure operators over recursive functions |
| `TagRepair` | `TagTree` | Documents as tools tag them, and those passes run again and again |
| `TagRepairInv` | `TagRepair` | What its proofs speak of, with its inductive invariant |
| `StreamRepair` | | The repair of text objects in a content stream, with three readers of it |
| `VisionGate` | | Concurrent vision calls: gates, node rotation, retries, fallback |
| `AgentLoop` | | The closed-loop fixer: a model with tools and budgets |
| `ReviewQueue` | | Review queue, annotations with their manifest, calibration: server, sampler, annotate tool, calibration tool |
| `BackupRotation` | | The hourly backup and its rotation |
| `*Proofs` | the module they name, TLAPS | Its theorems (`RemedyJobsProofs` extends `RemedyJobsInv` and `BackupRotation`, the two tasks of the server's loop) |
| `MC*` | the module they name | Constants and symmetry for TLC |

How they fit together. `RemedyJobs` is the server with handlers of three engine calls;
`EngineJob` opens one handler up; both implement `JobLifecycle`, each with the row's
status as the mapping. `FixVerify` is what happens inside the first of those calls (and in the
command-line escalation), and `TagTree` (with `TagNodes`) and `StreamRepair` are inside its `FixAll`. `PdfAcceptance` is
the verdict at the end of `FixVerify` and, as a call with outcomes, of two calls of
`EngineJob`. `VisionGate` is what a vision call meets, from whichever of these it comes.

Definitions whose name ends in `_Something` and that are introduced by "Defect:" are
plausible mistakes in the code above them. No specification uses them; each is put in
the place of the definition it resembles to confirm that a property notices.

### 2.1 RemedyJobs: the life of a job in the server

`status`, `input` and `meta` are columns of the row in `JobStore`; `disk` is
`job_dir/<id>` and `staged` the `_staging-*` file; `queue` is `JobWorker`'s queue; `wpc`,
`wjob` and `snap` are the local state of each `_loop` task (`jobs.py:298-310`): where it
is, the id it took, and the `Job` it read. `tstage` and `tstate` are the engine call of a
job in the default executor: waiting for a thread (`pending`), running (`busy`), having
written its files (`written`), or finished with an outcome its awaiter has not taken yet
(`ok`, `raised`). `upload`, `del`, `prunable` and `pruning` are the program counters of the
HTTP handlers and of the retention task; `phase` is the process.

Every action is one stretch of code between two store or file calls:

- upload (`routes.py:68-163`): `StageUpload`, `CreateRow`, `MoveInput`, `UpdateRow`,
  `Enqueue`, `Acknowledge`; `UploadFault` when one of the calls raises;
- DELETE (`routes.py:407-417`): `DeleteCheck`, `DeleteRow`, `DeleteFiles`;
- retention (`jobs.py:337-354`): `PruneList` takes the snapshot, then `PruneRow` and
  `PruneFiles` for each candidate, `PruneFault` when a delete raises;
- worker (`jobs.py:298-310`, `engine_service.py:147-289`): `Dequeue`, `SkipMissing`,
  `LoadJob`, `MarkRunning`, `StartRunner`, `Advance` from one engine call to the next,
  `RejectJob`, `FinishJob`, `RunnerRaises`, `Timeout`, `FailJob`, `StoreFault`, `WorkerDies`;
- threads: `ThreadStart`, `ThreadWrite`, `ThreadReturns`, `ThreadRaises`;
- process (`main.py:72-109`): `FailRunningJobs` and `RequeueAndStart` are the two store
  calls of the recovery, `Shutdown` is the end of the lifespan, `Exit` the interpreter
  joining the executor's threads, `Crash` a kill at any moment.

Decisions a reader should know:

- *Interleaving.* `NonSuspending = FALSE` lets any other actor in between any two
  actions, as if every `aiosqlite` call suspended. `NonSuspending = TRUE` is the other
  extreme: `LoopFree` lets a coroutine resume only when no other one is inside such a
  stretch. The safety run uses the first, which has more behaviours; the runs that must
  find a counterexample use the second, so that none rests on a suspension that might not happen.
- *Rows.* `JobStore.update` on a missing row changes nothing and `SetStatus` does so too.
- *Threads.* `Slots` executor threads are shared by all jobs. `wait_for` that gives up
  takes its awaiter away and leaves the thread running; the call can no longer be
  cancelled but it may still write and still fills its slot.
- *Faults.* A store or file call that raises does so before it takes effect. `rmtree(ignore_errors=True)` never
  raises; its fault is that any files stay, with the directory (`Rmtree`). `MaxFaults`
  and `MaxCrashes` bound how many there are; both are assumptions of no proof.
- *Retention.* Which rows are old enough is the clock's choice. A row is not that old
  while the request that creates it is still being served.
- *DELETE* is for clients who were told the id, so it starts after `Acknowledge`.
- *Stop.* uvicorn lets running requests end before it runs the end of the lifespan,
  and cancellation reaches a task where it is suspended: `Shutdown` requires `~MidSegment`.
- *Handlers of other kinds* have the same shape towards the queue; `EngineJob` has them.

`born`, `runs`, `deleted` and `raced` are history variables; no guard reads them.

### 2.2 EngineJob: what a handler does

One job and the handler `run_job` dispatches it to. `job` is the request: kind,
options, and whether the AcroForm probe will find fields. `pc` names the call the
handler awaits; `row` and `files` are the store's row and the directory; `seen` is what the gates
have answered; `client` the `OllamaClient` or browser it has started; `late` what a
thread left behind by a timeout or a cancellation will still write. Each action is the
code from one awaited call to the next, the store updates, renames and removals
between them included: for a PDF `Fixed`, `Accepted`, `Audited`, `Reported`; for the rebuild
tier `Probed`, `Extracted`, `Composed`, `Rendered`, `Asserted`, `Judged`, `Rereported`; for Office
`Remediated`, `Checked`, `OfficeAudited`; for the converters `DocExtracted`, `Converted`, `Planned`,
`Printed`, `Packed`, `Verified`. Errors go where the code's `except` clauses take them:
`Raises` leaves the handler, or the try block around the rebuild tier, and `Absorbed`
lists the calls whose failure is dealt with where they are made. `ReportUnexpected` and
`WorkerReports` are the two outer `except` clauses, each with a store update that may itself
raise (`Settle`). `Delete`, `Cancel` and `LateWrite` happen at any await.

`legacy` stands for Office files in an OLE2 format, which `OfficeRemediator` can only
refuse. DELETE's two steps are one here (nothing is awaited between them in a run
without contention; `RemedyJobs` has them apart), and so is closing a client.

RemedyJobs runs the default path of `_remediate_pdf` as three calls; EngineJob is the same
handler opened up. What RemedyJobs assumes of a handler - it updates its own row only,
writes its own directory only, ends with the row done or an exception - is what EngineJob's
actions do; the part of it a client sees, that the row moves queued, running, done or failed and
never back, through every store failure, DELETE and cancellation, is the refinement
`HandlerFollowsLifecycle`.

### 2.3 VisionGate: concurrent calls to the vision models

`Callers` are `analyze_image` calls through a `FallbackVisionProvider` whose providers are
tried in the order of `Chain` (`pdf_vision.py:635-678`). `turn`, `attempt` and `node` are
the call's position, its attempt and the endpoint of that attempt; `cursor` is the shared
`itertools.cycle` of each provider; `permits` are the semaphores of `_endpoint_gates`, keyed by
endpoint *and* limit (`pdf_vision.py:245-254`), so that two providers with different
limits do not share a gate. `Try` is the head of the attempt loop: it takes the next node
of the cycle and looks up its gate. `Acquire` and `GateTimesOut` are the polling
acquisition with a deadline; `Answered`, `EmptyAnswer`, `FailsTransiently`, `FailsForGood` and
`BackoffEnds` the request, the recovery through `/api/generate`, the classification of failures
and the backoff, which is slept with the permit in hand; `Cancel` the caller's own end at
any await. Taking a node from the cycle and a non-blocking acquire are atomic under the GIL.

### 2.4 AgentLoop: a model with tools

`vision_planner/agent_loop.py`. A PDF is what veraPDF finds in it (`Counts`) or `Unreadable`; a tool call is a
tool with its arguments. `Baseline` is the verification before the loop (911-944); `GiveUp` the
`for` and the budget test (949-955); `Ask` the model call with its three outcomes; `Finish`,
`CheckCall`, `OtherCall`, `Refuse` and `Mutate` are the branches of the loop over the answer's
tool calls (987-1041), `dispatch_tool` (1075-1240) included; `Conclude` the last verification and the copy to `output_path`
(1049-1073). `verif` is `current_verification`, `blocked` the signatures of calls that did not help. The model
may answer anything, so that whatever holds does not rest on its good will; a mutating tool may leave any
file, even one that cannot be read; and every run of veraPDF may fail, which the summary reports as
"checked, not passed, no violations".

### 2.5 ReviewQueue: reviewers, sampler, tools

`queue` is `quality_review_queue.jsonl`, row by row. The server's two writes of it are a rename over the
file (`ClaimWrite`, `CompleteWrite`, `quality_routes.py:891-959`); `server.read` is how much of the file it had
read. A submission (568-603) is checked in `Submit`, then goes through `Annotate`, `List` (the
manifest row), `Record` (one transaction per calibration row), `CompleteRead` and `CompleteWrite`. The handlers
never await, so there is one request at a time. The sampler (`tools/sample_quality_reviews.py:221-270`) is another
process: it reads, opens the file for appending, and writes when it closes it, by when the server
may have put another file there (`orphaned`). `Calibrate` is `tools/calibrate_judges.py`.

Annotations and manifest are written by `write_annotation_record` (`tools/annotate_corpus.py:690-746`), which the server calls and
the annotate tool runs in a process of its own (`ToolStart`, `ToolWrite`). Both take the same steps, one per file operation: check that the file may be
written (`Check`, for the tool `ToolStart`), `Truncate` and `Fill` it, then `AppendRow` to the manifest, or, with overwrite, `ReadManifest`, `EmptyManifest` and `FillManifest`. Nothing of this is atomic:
a process killed behind a truncation leaves the file empty (`Torn`; of the manifest, what was there is lost), two that have opened one file write over each other, and what the other
process has put into the manifest since it was read is gone. `ServerCrash`, `SamplerDies` and `ToolDies` stop each of them anywhere. `harmed` is a history
variable: the documents whose annotation the tool has opened since the server did, or whose row such a rewrite has lost.

One sampler and one annotate tool run at a time: two samplers may each append a row the other has not read. A text is written in one call. The log of submissions is appended
last, to a file that nothing reads, and is left out.

### 2.6 PdfAcceptance and FixVerify: the fixer's outer loop

`PdfAcceptance` translates `evaluate_pdf_acceptance` and what is computed from its result: `Passed`
(`pdf_acceptance.py:301-330`), `Warned`, `Clean` (`cli_pdf.py:409`), `Conformance` (`compliance_report.py`), `Level` (`levels.py`).
Each validator reports the facts or breaks down, and the code has a different idea of each
breakdown.

`FixVerify` is `fix_and_verify` (`pdf_fixer.py:17268-17774`) as straight-line code with failing steps. First `fix_all` (17069-17265): `RunFix` is one of its `FixCount` steps with a `try`
of their own, on the document held open (`memory`); one that raises is listed as skipped, whatever it has changed by then (`Fails`), and `FixAll` saves
the document after the last. Then up to `MaxCycles` times
`Cycle`, and `Lists`, `Vision`, `Conform`, `Cleanup`, each of which opens the PDF, saves it and reports the change, or swallows its
exception and does neither; `Gate`, `Recover` and `Closing` are the visual gate and its second try (17808-17963). `pdf` is the file at
`output_path`: what the validators would find, and how far it looks from the original; `changes` and `skipped` are the steps the report lists. `Seen` has the checker's failures, by kind: those that
block, and those the clean verdict lets through, font encodings of the source and checks left to a human. `Accept` is
`pdf escalate` (`cli_pdf.py:454-508`), which runs the second tier on the output of the first. The deadline may pass at any step
(`late`). `held` (the steps whose changes are in the file) and `measured` (every difference was really measured) are history variables.

### 2.7 TagTree and TagRepair: structure trees

`TagTree` translates the passes of `fix_all` that move elements: `Wrapped` (`_fix_parent_wrapping`, `pdf_fixer.py:4145`), `TableKids`,
`RowKids`, `GroupedSections`, `PromotedHead` (`fix_table_parent_structure`, 3878-4142), `Headed` (`fix_table_headers`, 4199), `ItemKids` and `ListKids` (`fix_list_structure`, 4704),
`WrappedEntries` and `ContentsKids` (`fix_toc_structure`, 4979), `Pruned` and `Cleanup` (`_prune_dead_and_empty_nodes`, 18799), in the order of
`ALL_FIXES`. What they do at one element is in `TagNodes`: `TableKids` to `ContentsKids`, chosen by `Rekidded`, and `WrapNode`, `EntriesNode` and `PruneNode`, which
take what is made of a kid as an argument (`Again`). `TagTree` ties the knot with recursive functions over `Scope`, the elements whose kids reach no deeper
than one of `Heights` (`Levels`). The code has no such limit: `Heights = Nat` is the code, and what the theorems are about; TLC takes `Heights = {40}`, far above any
tree of the run, because a function over one level is what it can evaluate.
`Broken` is the checker's rule on parents. A tree is an element with its kids in order; whether `/K` is
an array is kept, because two passes look at it. `TableRows` has what a pass does with the rows of one table, apart from the tree they stand
in: `Layout` and `Widened` (`fix_table_regularity`, 14706, with the checker's twin of the layout). The operators were compared with the Python functions
on 2,400 random trees and agreed on all.

`TagRepair` lets an author build a document one element or content at a time, rightly or wrongly, in one of four families of tags
(tables, lists, tables of contents, a grid of cells with spans), then runs `Fix` (one `fix_all`) up to `MaxRounds` times, and
`RepairLists` where `fix_and_verify` repairs lists once more (17471-17486).

Restrictions: documents of at most 20 pages, or 50 with `PDF_LARGE_DOC_DEEP_FIXES` (above 20 table passes are deferred, above 50 lists
take another path); pages whose reading order no earlier pass has rewritten, which happens only on pages a heuristic or a vision model flags;
references to content are live; no Artifact elements (removed before), no ActualText, no role maps. THead and TFoot arise only by promotion.

### 2.8 StreamRepair: text objects

`_renormalize` of `content_stream_repair.py:186-305`, one instruction per step. `pass` is its state (`in_text`, `mc_stack`, `changes`), `text` the two matrices
it tracks and the places of the text shown. `Drop`, `Reopen`, `Close` and `Copy` are what it may do with an instruction, `Finish` the ET at the end. `page` and
`source` are strict viewers of what is written and of what was read: they know the text object each open marked-content sequence was opened in (`mc`), tell what is
illegal (`legal`) and what is legal but not nested (`nested`), and draw the text. `again` is a second run of the repair over the
output. Each is fed as the output is written, so that properties of whole streams are invariants.

An object re-opened in the middle of a line gets one Tm, the place in the line; to a viewer this is the start of the line as well, to the repair it is not. `text.line` is
a history variable that follows the difference: `same`, `middle` of a line, and `lost` once a relative move has started from the wrong place, until a Tm or a BT
that is kept. A matrix is an offset on one axis; fonts, sizes and the leading are the same throughout, so what q and Q restore of them for a viewer, though not for the repair, is outside the model.

### 2.9 BackupRotation

`backup.py:56-115` under `PeriodicTask` of `scheduler.py`: `Tick` names the file and starts the copy in a thread, `Copied` and `CopyFails` end it,
`Pruned` removes what is beyond `KeepN`, `Stop` cancels the task but not its thread, `BackupCrash` cuts a copy off. A backup is named
by the tick that wrote it, which assumes that the clock does not step back and ticks are a second or more apart. `BackupInit`, `BackupNext` and `BackupSpec`
are named so that one module of proofs can be about both of the server's periodic tasks and its jobs.

## 3. Checks

| Run | Bounds | Distinct states | What it shows |
|---|---|---|---|
| `jobs_safety` | 2 jobs, 2 workers, 1 thread, 1 crash, 1 fault (an incomplete removal is one), every interleaving, symmetry | 1,419,279 | Ownership, single start, files of done jobs, orphans, complete hand-over, refinement of `JobLifecycle` |
| `jobs_live` | 2 jobs, 1 worker, 1 thread, 1 crash, any number of stops | 80,577 | Every job ends once the server stays up |
| `engine_jobs` | every kind and option, 3 store faults | 4,291 | What is served passed its gates; failure leaves nothing behind; refinement of `JobLifecycle` |
| `vision_gates` | 3 calls, 2 providers on a shared endpoint, 2 nodes, no retry | 86,336 | Permits, rotation, every call ends |
| `agent_loop` | 2 rules, 2 fixes of one family and code, 3 mutations, 2 per family, 4 rounds, 2 calls an answer | 132,820 | Budgets, final status, what prompts show, the run ends |
| `review_queue` | 2 documents, 2 reviewers, 1 measurement, 2 rows, 1 run of the annotate tool, symmetry | 4,652,534 | One open row, no claim or completion taken back, completed claims are annotated and listed |
| `fix_verify` | 1 fix, 2 cycles, differences 0-2 with thresholds 0 and 1, three kinds of checker findings, both tiers | 403,266 | Report, flag and verdict describe the PDF that is served; every fix ends |
| `backup` | 3 to keep, 7 ticks | 20,508 | The latest good backup survives, and the depth of the rotation |
| `stream_repair` | every stream of up to 5 of the 11 kinds of operators | 1,222,377 | Legal output, idempotence, positions of text |
| `tag_repair` | 4 elements and contents, or 5 rows and cells; 4 rounds | 280,013 | Content is kept; parents and spans converge |
| `engine_output`, `tag_headers` | the smallest instance that shows it | | The findings of section 6 |

*Why the bounds are enough.* Jobs: two are needed for one to hold what the other needs
(the worker, the executor thread, a place in the queue), and two workers for one id to
have two owners; a third of either adds no new relation, since every property
speaks of one job or of a pair of places. One executor thread makes slots scarce as soon as one
call outlives its timeout. One crash separates two lives of the process, and what a second
one could meet - a row of an earlier life - is what the first leaves; the proofs have
no such bound. Three faults reach every nesting of `except` clauses: the handler's update, the rebuild
tier's report of it, the worker's report of that. Three calls over
two providers put a holder, a waiter and a call further down the chain at the same gate; limits 1 and 2 on
one endpoint give it two gates, one saturated by one call. Agent loop: each budget is smaller than what the others
would let through, and two calls an answer are needed for a second mutation, or for a call after the one that
passed. Review queue: a completed row and an open one behind it are two, and so are a row that was read and one
appended since; two documents are one whose manifest row is lost while the other's is
written, and one run of the tool stands on either side of each of the server's file operations. FixVerify: 0 and 1 cut the differences into unchanged, tolerated, and
too much; one fix may change the file and raise, and what several do adds up one by one (`FixVerifyProofs` has any number). Backups: with three to keep,
seven ticks hold a full rotation, as many partial files and the one that pushes a file out. Streams: the shortest
stream that needs a restored matrix has four operators (BT, Tj, an interruption, Tj). Trees: four levels of nesting,
and three misplaced elements one in the other, take the most rounds; five rows and cells give two rows of which one has two spans.
The theorems of section 5 have none of these bounds, those on trees included.

*jobs_safety.* `OneOwner`: an id is in at most one queue
slot or worker's hands, over uploads and recovery. `AtMostOneRun`: the runner is entered
once per job over all restarts. `LiveRowsOwned`: while the store works, a live row is always
with its handler, in the queue, or with a worker. `DoneHasArtifacts`: a done row has result and report on
disk. `ServedResultIsStable`: no engine thread of a done job still runs.
`AcceptedIsComplete`: from the enqueue on, row and snapshot have the final path and the metadata, and
the file is there. `OrphansExplained`: a directory without a row is being removed or lost
its row in a race, in a crash, or to an incomplete `rmtree`. `ImplementsLifecycle`: what clients see of a job is a behaviour of `JobLifecycle`.

*engine_jobs.* `OptInServesAccepted`, `FormsNeverFlattened` and `Tier1Survives`
are the three promises of the rebuild tier; `ReportDescribesServed` and
`OfficeKeepsOutput` relate row, report and output; `EndedRowsSettled` is about what an ended handler leaves behind;
`HandlerFollowsLifecycle` is the refinement.

*vision_gates.* `PermitsConserved`: the free permits of a gate and its holders add up to its
limit on every path. `LoneCallSeesEveryNode`: a call that had its
provider to itself has tried every node after as many attempts as there are nodes; concurrent
calls share the cycle, and the property says exactly when that takes the guarantee away.

*agent_loop.* `BudgetsHold` although the budget is read once per round; `FixedIsConformant`: "fixed" is never claimed for a PDF
veraPDF found or would find fault with; `PromptShowsThisFile`: the verification in `current_verification` is one
of the file as it is.

*review_queue.* `OneOpenRow` over every interleaving of sampler and server; `ReviewsAreNeverLost` says what rewriting the file may
drop (queued rows appended meanwhile) and what it may not. `ClaimedWorkIsAnnotated`: a claimed review that counts as completed has its holder's annotation, whole, and its row in the manifest, across submissions that stop
half way. It names the only ways to lose them: the annotate tool opens the annotation, or a rewrite of the manifest is cut off or has not seen the row.

*fix_verify.* `ReportDescribesServedPdf`: whichever of the two versions is left in place. `ReportAccountsForFile`: whatever raises, what the report lists as changed is in
the file, and what is in the file is listed, if only as skipped; the version taken back without Ghostscript has another's report. `NeverRevertsToWorse`. `CleanVerdictIsReal`: what is announced as
passed rests on validators that answered, and has no findings but those the code lets through by name.

*stream_repair.* `OutputIsLegal`, `SecondRunChangesNothing` and `ContinuationStaysInPlace` are promises of
the module's docstring and comments (`content_stream_repair.py:10-21`, 192-198, 248). Legal is what Acrobat and Ghostscript demand, and that no sequence of marked content opened outside a text object
closes inside; the rest of what line 15 promises of nesting does not hold (section 6). `ContinuationStaysInPlace` is about all text but that on later lines of an object re-opened in the middle of
one: in Tj q Tj Td Tj the last text is displaced by the width of the first.

*tag_repair.* `ContentKept`: nothing is lost, repeated or moved, except that an item's late label or body comes first.
`RepairConverges` gives the number of runs after which no parent rule is broken: one for every misplaced element
around another of its family, and one more where a cell outside of tables or a second label or body
makes new work for an earlier pass. `Settles`: one run later nothing changes. `WidthsBounded`: widening never
exceeds what was there.

*Deadlock* is checked for the server and the handlers. The others have finitely many calls, rounds, ticks or
instructions and end; that they end where they should is `EveryCallSettles`, `RunEnds`, `EveryFixEnds`.

## 4. Fairness

`RemedyJobs!FairSpec`: the process is restarted (`Restart=` in the systemd unit) and its recovery
and exit go on; the event loop resumes every handler, removal and worker that can go on; an
engine thread ends. `fix_and_verify` and the acceptance have a `wait_for`; the report call has none,
so that it ends is an assumption the code does not enforce. Requests, prune ticks, stops,
crashes and faults are never promised. Each worker and each job has weak fairness of its own,
because asyncio's ready queue is FIFO; no strong fairness is needed, since a waiting worker stays
enabled. `EveryJobSettles` is conditional on the server staying up in the end: a server that is
stopped again and again finishes nothing, as in reality.

`VisionGate!FairSpec`: weak fairness of each call's own steps. A waiting call always has a step
(a free permit, or the deadline), a request and a backoff end by their own timeouts.

`AgentLoop!FairSpec`, `FixVerify!FairSpec`: weak fairness of the next step. Each is one coroutine or thread without a partner to
wait for; model calls, veraPDF (120 s), rendering and vision calls have timeouts. `RunEnds` and
`EveryFixEnds` then say that the loops are bounded, whatever model, tools and passes answer.

## 5. Proofs

For every value of the constants: any finite set of jobs, any workers, slots, crashes and
faults; any kinds; any callers, providers, nodes and limits; any rules, tools, families and budgets; any documents, reviewers and
length of the queue; any number of backups; streams of any length over any offsets; trees of any height and width. The only assumptions are the
named ones of the modules (`JobsAssumption`, `EngineAssumption`, `VisionAssumption`, `AgentAssumption`, `FixAssumption`,
`BackupAssumption`, `ReviewAssumption`, `StreamAssumption`, `SpanAssumption`, `HeightsAssumption`), which TLC evaluates in the runs, and `Heights = Nat` of section 2.7.

- **RemedyJobsProofs.** `TypeCorrect`; then `JobInv`, which adds to `OneOwner` what makes it inductive:
  nothing is in memory while the process is not up, an id belongs to its upload handler until it is
  enqueued, a row was born before it is removed, and the status of a row is tied to where its id is.
  Without the last, `AtMostOneRun` is not inductive: that recovery enqueues only ids that never ran follows from
  queued rows having `runs = 0`. From it `NoJobHasTwoOwners` and `NoJobRunsTwice`. `StepRefinesLifecycle`
  shows that each step is a `JobLifecycle` step or a stutter, hence `ServerImplementsLifecycle`,
  and `FinishedJobsStayFinished` from the same cases. `ArtifactInv` ties each engine call to its awaiter (`ThreadByPlace`)
  and each stage to the files the earlier calls left (`FilesByPlace`), and says that whoever may still empty a directory
  has removed the row first (`RemovalAfterRow`). `WorkerMoves` and `ThreadMoves` reduce a step to the one worker and the one job it
  touches. From it `DoneJobsHaveFiles` and `ServedResultsAreFinal`. `OrphanInv` adds that a row removed
  during a run is remembered, as is a removal that was cut short or incomplete: `OrphansAreExplained`. `AcceptedInv` follows a row through upload, queue
  and worker: `LiveRowsAreOwned`, `AcceptedJobsAreComplete`. With these every safety property of
  `jobs_safety` is a theorem.
- **EngineJobProofs.** `EngineInv` says what is known at each awaited call: which kinds reach it, which gates
  have answered, what is on disk, whether a client is open, and how many faults it took to get there. `Settle` and
  `Finish`, the two ways a handler writes its last status, have a lemma each. The invariants of `engine_jobs` follow, and three more
  (`DoneHasOutput` for the kinds that check, `NoTempLeft`, `ClientsClosed`); `FirstTierSurvives`
  is proved from the actions that touch the output; `HandlersFollowLifecycle` from `RowMoves`, which says how any step
  may change the row. `HandlersRunOut`: `Ahead` ranks the awaited calls so that every way on leads to a lower one
  (`WaysOut` lists them), and a deletion and a thread left behind happen once; no handler takes more than 28 steps.
- **VisionGateProofs.** Every step moves one call (`EveryStepMoves`), and a call that enters or leaves
  a gate changes the set of its holders by one element and its permits by one: `PermitsAreConserved`.
  `AttemptInv` adds that a call in backoff has an attempt left: `AttemptsAreBounded`.
  `LoneCallsSeeEveryNode` needs to know more than how many nodes a lone call has tried: which. While nobody else moves the cursor of
  its provider, `tried` is the `Window` of the last `attempt[c]` places before the cursor (`LoneInv`); moving the cursor by one adds the
  node it stood on (`WindowGrows`), and a window as long as the rotation is all of it (`WindowIsAll`).
  `CallsGoOn`: every step takes one call to a later phase, attempt or provider, so that none is ever sent back.
- **AgentLoopProofs.** `AgentBudgets` needs that a turn which has not mutated yet still has a mutation left;
  `AgentFixedIsConformant` that the verdict "fixed" is tested again in `FinalStatus`; `AgentPromptShowsThisFile`
  that every step that changes the file sets the verification. `AgentRunsOut`: each round costs at most `MaxCalls` calls
  and the way out; `Fuel` counts what is left and every step lowers it.
- **FixVerifyProofs.** First the judgements, as facts about all evidence: `CleanIsVerified`, `FullConformanceIsVerified`,
  `LevelsAreEarned`, `PassedIsVerifiedUnlessBroken` (`CleanIsVerified` names what a clean PDF may still have), and `OpenableIsAtLeastPartial`, by which the label "Not Conformant" is never given to a document
  that opens. Then `FixInv`, which carries from the open document through the save and the passes what the report lists (`MemoryInv`), and through the gate that
  the recorded difference is the file's; the four safety properties follow. `FixRunsOut`: `StepsLeft` counts the fixes, passes
  and cycles ahead, the second tier's included; every step lowers it, wherever the deadline falls.
- **RemedyJobsProofs, on backups.** Newest-first pruning removes an upward-closed rest, so the last completed backup is out only if `KeepN`
  newer files are there, and each of those is an interrupted copy made later, which the pruning after `last` has not seen. `DepthHolds` counts them.
- **TagRepairProofs, on tables.** A pass of `fix_table_regularity` reads widths an earlier pass wrote; the ratchet its comment
  describes (14907) is the hazard. For any table, whatever its spans and however many rows and cells: `WideningIsBounded`, no bound
  that holds of the sums of spans and of the numbers of cells is ever exceeded; and, once the scrub (14850) has made the spans
  of the table sane, as it does before it measures, `WideningSettles`: some pass is the last that changes anything. The argument: no row is laid out narrower than
  its spans add up to (`RowWidthIsWide`, over the columns row spans take from above), so a row that is widened ends at the target at
  most (`RowIsWidened`), and the target is no more than some row's cells (`TargetIsCells`); a row that changes has grown (`RowIsWidened`),
  and what grows below a bound settles (`RowSettles`). `Ends`, `Sums` and `OpenSpans` are recursive functions; that they
  satisfy their equations is proved from `Recursion`, and statements about every number from `FromZeroOn`, which is
  the least number of a set instead of the library's induction.
- **TagRepairProofs, on content.** `ContentIsKept` is `Spec => []ContentKept`, for documents of any height and size, in any of the four families, fixed any
  number of times, with the list repairs of `fix_and_verify` in between: fourteen kinds of passes, none of which loses, repeats or moves content. `FixingKeepsReading` is its heart, about
  one `fix_all` on any tree, the authored ones and all others. The argument goes in four layers.
  *Recursion*: an element is above its kids, which is well-founded (`TreeInduction`), so each `LET` function of `TagTree` has a value at every element, given by its
  equation (`GroundedRecursion`, then one lemma per function: `ReadingIs`, `WrappedIs`, `RowsOfIs`, `SpannedAre`, ...). A walk goes on with kids the rewriting has
  just made, which may stand higher than what it started from; that it comes to an end is proved from what the rewriting makes of each kind of element (`WalkIs`).
  *One element*: the kids each operator of `TagNodes` gives say, one after the other, what the old ones said.
  *One pass*: by induction over the tree. The walk over items needs more than that content is kept: an item whose label or body comes late is put in order (4769), so a pass
  keeps the order only if none is there, and the next pass only if the first has made none. Hence `Keeps`, of a pass: if the tree is in order, so is what it makes of it, and it
  reads the same; if not, what is made of it reads as many things, and the same ones.
  *All passes* (`FixAllKeeps`), the pruning until nothing is empty and the tag count that decides whether tables are repaired again. The invariant `IInv` of the specification then says of tree and input what
  `Honest` says, and that an author keeps the contents numbered in order.
- **TagRepairProofs, on grids.** `WidthsAreBounded` is `Spec => []WidthsBounded`: what `WideningIsBounded` says of one pass over rows, about documents, all passes and
  all rounds. Every pass of `fix_all` meets the table, not only the three that know tables, so the proof says of each what it does in a grid. `GridNodes(b)` are
  the documents of tables of rows of cells, no row of which spans more columns or has more cells than `b`; `Narrow(b, r)` says that `r` keeps the elements of such a
  document what they are. The wraps find nothing misplaced (`GridsUnwrapped`, `GridsWithoutEntries`), the kid and list passes nothing to
  rewrite (`GridsRekidded`), pruning only takes kids away (`GridsPruned`), headers keep their spans (`GridsHeaded`), and writing
  widened rows back puts each span into the cell it was computed for: rows and cells are counted off the tree one by one (`GridRowsAbove`, `CellsUpTo`, `GridsWidened`).
  So every pass maps `GridNodes(b)` into itself (`GridsFixed`). `IInv` keeps of a table all the bounds the input has and not only the least, which is none
  when the table has no rows: a document narrower than -1 has none, and stays so (`GridsStayBounded`). An author makes a grid wider by one cell's span at most (`AuthorsKeep`).
- **ReviewQueueProofs.** The invariant follows what the server has read (`read` is a prefix of the file), which
  row a claim or a submission is about, and that the row a submission will complete is unclaimed or its author's once its annotation is stored (`QueueInv`). `CorpusInv` follows annotation and manifest through the file
  operations of two processes: an annotation the tool holds open is `harmed`, and a row that is in neither manifest nor in the text about to be written is.
- **StreamRepairProofs.** `StreamInv` relates the states of the four readers (`Joined`): what the repair believes about text objects is what a viewer of its output
  sees, and what a second run believes; the sequences its stack marks as opened in text are those the viewer has opened in text (`MarkedStep`), which is why an EMC in text closes nothing
  from outside. `Settled` relates the tracked matrices to that viewer's: while `line` says `same`
  they agree, or what is to come next (`AheadFurther`) needs only one of them, and that one agrees; in the `middle` of a line, those of the text agree.

The four theorems on steps left are what a proof of termination rests on: together with the fairness of
section 4 they say why the loops end, for all values of the constants. That fairness makes the steps happen is not proved:
liveness (`EveryJobSettles`, `EveryCallSettles`, `RunEnds`, `EveryFixEnds`) is out of the prover's
reach and only model-checked. Only model-checked are also `RepairConverges` and `Settles`: how many rounds a document takes is proved for no size, because `Needed` counts what each pass
undoes of another's work. The violations are counterexamples and need no proof.

## 6. Where code and documentation disagree

Two are runs whose counterexample is the evidence:

1. **Done without output** (`engine_output`, `engine_service.py:303`). `OfficeRemediator.remediate` and
   `HTMLToPDFConverter.convert` report failure in their result; two handlers drop it.
2. **Data becomes headers** (`tag_headers`, `pdf_fixer.py:4220`). `fix_table_headers` promotes the first row "if table has no headers", and looks for headers
   everywhere but in rows.

For the following the modules hold a statement of what is promised that TLC refutes when it is made a property:

3. **Marked content that straddles a text object** (`StreamRepair!MarkedContentStaysNested`, `content_stream_repair.py:299`). "marked-content sequences stay properly nested with text objects" (15). The legal and nested
   Tf BDC q EMC is written BT Tf BDC ET q EMC: text objects are opened (272) and closed (299) without a look at the stack of sequences, which only EMC consults. Four operators
   are enough (`MaxLength = 4`).
4. **Changes that are not reported** (`FixVerify!AllChangesReported`, `pdf_fixer.py:17157`). `fix_and_verify` returns "all changes across all cycles" (17303). A fix that raises half way returns none; what it
   has changed by then is saved with the rest, and the report has only that it was skipped.
5. **DELETE of a running job leaves files** (`DeleteRemovesArtifacts`, `routes.py:407`). `README.md:136` says it removes the job and
   its artifacts. The worker is not stopped, its engine thread makes the directory again, and no row is left by which
   DELETE or the retention task could find it.
6. **A worker can see a row before its metadata** (`WorkerSeesMetadata`, `routes.py:151`). The docstring at
   `routes.py:145-149` says that the order of its calls closes that race. The row is `queued` from `store.create` on; a
   crash before the update leaves it with `{}` and the staging path, and recovery enqueues it.
7. **A graceful stop fails in-flight jobs** (`GracefulStopSettlesJobs`, `main.py:96`). The systemd unit promises them a chance to
   finish. The process waits for their engine threads, but the tasks that would take the result are cancelled first.
8. **The audit a client asked for is skipped** (`QualityIsAttached`, `engine_service.py:242`) when its job is escalated.
9. **A failure that is not transient ends the call** (`FailedCallsTriedEveryNode`, `pdf_vision.py:623`), although the comment
   says that a 4xx falls through to the next node.
10. **Completed without evidence** (`CompletedIsAnnotated`, `quality_routes.py:992`). "queued review completion requires annotation evidence" is tested
    only if a row of the document exists when the submission is checked; the sampler may add it before it is completed.
11. **Legal text is displaced** (`LegalTextStaysInPlace`, `content_stream_repair.py:272`). Tf is legal between text objects; the repair opens one there, drops the BT that
    follows, and the text after it goes on from the end of the previous object.

And these follow from definitions as they stand:

- *A broken validator counts as a pass* (`PdfAcceptance!OnlySourceFont`, `pdf_acceptance.py:317-319`): `all()` over the violations of a veraPDF run that timed
  out is true. `Passed` then holds, and the rebuild tier may replace the repaired PDF on that verdict (`engine_service.py:789-802`).
- *Review queue*: a row sampled again after its document was completed can never be claimed, because every request stops at the document's first
  row; rows appended between the server's read and its rename are lost; a retried submission answers 409 by its own calibration rows.
- *FixVerify*: a difference that cannot be measured counts as 0 and always wins against Ghostscript's version; the version taken back gets `fix_all`
  only, while the report still lists the changes of the other; the docstring's "veraPDF after each cycle" is one validation; warnings alone
  start no cycle; `gs_text_degraded` is set nowhere.
- *Stream repair*: one Tm is put in for two matrices, so that in Tj q Tj Td Tj, or Tj q ', the text on the next line starts from where the first ended instead of from the line.
- *Review corpus*: a crash while the manifest is rewritten loses the rows of all documents (`annotate_corpus.py:746`), and one while an annotation is written leaves half a file, which
  every later submission without overwrite is refused for (705).
- *Tag repair*: a cell outside of tables becomes a row outside of tables in the same run, and an item with two labels an item in an item's
  body: the checker refuses the output of the first run, not that of the second. A row span is placed where the row would stand if the spans ending there were gone, so that some
  regular tables are judged irregular and widened.

## 7. Not modelled

- *Authentication, settings, logging, validation of requests*: no state beyond one request.
- *Synchronous routes*: one engine call per request, files below a directory named by a fresh token.
- *Other fixes of the fixer, the checker's other rules, converters, faithful rebuild, rule router, XY-cut and reordering*: functions of one document's
  fonts, geometry, text and pictures; in the models they are calls with the outcomes their callers tell apart. Their inputs have no small instances that would be true to them.
- *The planning pipeline and evolution*: scores in floating point over model answers; the pipeline is a call of `EngineJob`, evolution is offline.
- *Judges and behavioural proxies*: scoring functions without state; what they return is an outcome of the audit.
- *The OpenAI provider, `OllamaClient`, task routing, the vision cache*: single calls or maps from keys to equal values. Concurrent analyses of one file all run
  (`pdf_vision.py:2135`); what the cache holds is the same whichever is last.
- *Readiness*: it only reads state (`jobs.py:275` is true while any worker task lives).
- *The QuestPDF sidecar*: an external process. *Contention on the store's connection lock*: its calls are serial, and each is an action.
- *Header scope, summaries, TD headers and the list pass of large documents* in `TagTree`.

## 8. Plan

What is left, in the order of importance:

1. Convergence of the repair of trees, as theorems: a wrapping leaves no misplaced element but those it wrapped, and after the walk over lists an item is in a list.
2. The list pass of large documents, and header scope with the passes that undo each other there.
3. The planning pipeline: greedy acceptance of operations, and what a reverted candidate leaves behind.
4. The passes over marked content in `ALL_FIXES` (wrapping gaps, flattening nested scopes, balancing `BDC`/`EMC`): folds over a page's
   operators, with the questions whether scopes stay balanced and un-nested and whether a second run changes anything.

## 9. Running

    tlc -workers 2 -config RemedyJobsSafety.cfg MCRemedyJobs
    tlc -workers 2 -config RemedyJobsLive.cfg MCRemedyJobs
    tlc -workers 2 -config EngineJobs.cfg MCEngineJob
    tlc -workers 2 -config VisionGates.cfg MCVisionGate
    tlc -workers 2 -config AgentLoop.cfg MCAgentLoop
    tlc -workers 2 -config ReviewQueue.cfg MCReviewQueue
    tlc -workers 2 -config FixVerify.cfg FixVerify
    tlc -workers 2 -config BackupRotation.cfg BackupRotation
    tlc -workers 2 -config StreamRepair.cfg StreamRepair
    tlc -workers 2 -config TagRepair.cfg TagRepair
    tlapm RemedyJobsProofs.tla      # likewise the other seven *Proofs modules

`EngineOutput` (with `MCEngineJob`) and `TagHeaders` (with `TagRepair`) end with the counterexamples of section 6.
