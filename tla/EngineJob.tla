------------------------------ MODULE EngineJob ------------------------------
(***************************************************************************)
(* engine_service.run_job for one job: what each handler awaits, in which  *)
(* order, which failures it absorbs, and what row and files it leaves.     *)
(* RemedyJobs sees the handler as three engine calls; this module opens    *)
(* them up, with the rebuild tier and the other job kinds.                 *)
(*                                                                         *)
(* pc names the call the handler awaits.  While it waits a DELETE may take *)
(* the row and the directory away and a graceful stop may cancel it; a     *)
(* thread it no longer waits for goes on and may still write (late).       *)
(***************************************************************************)
EXTENDS Naturals, FiniteSets

CONSTANTS
  Kinds,      \* the job kinds explored, a subset of AllKinds
  MaxFaults   \* bound: store calls that raise

AllKinds == {"pdf", "office", "legacy", "doc", "vision", "html", "epub"}

ASSUME EngineAssumption == Kinds \subseteq AllKinds /\ MaxFaults \in Nat

VARIABLES
  job,     \* the request: kind and options, fixed at submission
  pc,      \* the call the handler awaits
  row,     \* the store's row
  files,   \* the job directory
  seen,    \* what the gates answered for this job
  client,  \* model client or browser the handler has to close
  late,    \* what a thread nobody waits for will still write
  faults   \* store calls that raised

vars == <<job, pc, row, files, seen, client, late, faults>>

-----------------------------------------------------------------------------
(* Vocabulary.                                                             *)

\* "legacy" is an Office job in an OLE2 format (.doc, .ppt, .xls); "doc" both
\* document-to-HTML kinds; "html" HTML to PDF.  form: the AcroForm probe finds
\* fields in the input.
Requests ==
  {r \in [kind : Kinds, rebuild : BOOLEAN, quality : BOOLEAN,
          backend : {"questpdf", "typst", "other"}, form : BOOLEAN] :
     /\ r.rebuild => r.kind = "pdf"
     /\ r.quality => r.kind \in {"pdf", "office", "legacy"}
     /\ ~r.rebuild => r.backend = "questpdf" /\ ~r.form}

Contents == {"none", "repaired", "rebuilt"}
RowSet   == [status : {"none", "running", "done", "failed"},
             serves : {"none", "out", "trace"}, report : BOOLEAN,
             tier : {"none", "rebuilt"}, audited : BOOLEAN]
FileSet  == [dir : BOOLEAN, out : Contents, temp : BOOLEAN,
             report : Contents, trace : BOOLEAN]
SeenSet  == [passed : BOOLEAN, verapdf : BOOLEAN, asserted : BOOLEAN,
             judged : BOOLEAN, audited : BOOLEAN, escalated : BOOLEAN]
NoFiles  == [dir |-> FALSE, out |-> "none", temp |-> FALSE,
             report |-> "none", trace |-> FALSE]
NoRow    == [status |-> "none", serves |-> "none", report |-> FALSE,
             tier |-> "none", audited |-> FALSE]
Fresh    == [NoRow EXCEPT !.status = "running"]
Unseen   == [passed |-> FALSE, verapdf |-> FALSE, asserted |-> FALSE,
             judged |-> FALSE, audited |-> FALSE, escalated |-> FALSE]

RebuildCalls == {"probing", "starting", "extracting", "composing", "rendering",
                 "asserting", "judging", "rereporting"}
Calls == RebuildCalls \cup
         {"entering", "fixing", "accepting", "auditing", "reporting", "remediating",
          "checking", "converting", "planning", "printing", "packing", "verifying"}
Timed    == {"fixing", "accepting", "auditing"}     \* under wait_for, for PDF jobs
Finished == {"ended", "cancelled"}
Places   == Calls \cup Finished \cup {"unexpected", "raised"}

\* What the thread of a call writes if it is left behind.
LateWork(call) == IF call \in {"fixing", "packing"} THEN "out"
                  ELSE IF call \in {"reporting", "rereporting"} THEN "report"
                  ELSE "none"

Fault == faults < MaxFaults /\ faults' = faults + 1

\* JobStore.update leaves a deleted row alone.
Update(r) == row' = IF row.status = "none" THEN row ELSE r

Failed == [row EXCEPT !.status = "failed"]

\* A call that raises leaves the handler, or the rebuild tier's try block.
Raises == pc' = IF seen.escalated THEN "unexpected" ELSE "raised"

\* store.update(status="failed") where a fault is handed on to `outer`.
Settle(outer) ==
  \/ /\ Update(Failed)
     /\ pc' = "ended"
     /\ UNCHANGED faults
  \/ /\ Fault
     /\ pc' = outer
     /\ UNCHANGED row

\* Defect: what the error code's own update raises is swallowed.
RebuildFails_Swallow == Settle("ended")

\* A rebuild_* error code; its own store.update may raise into the try block.
RebuildFails == Settle("unexpected")

\* Defect: metadata is stored in an update of its own, after status "done".
Finish_TwoUpdates(r) ==
  /\ Update([r EXCEPT !.status = "done"])
  /\ \/ pc' = "ended" /\ UNCHANGED faults
     \/ Fault /\ Raises

\* The last update of a handler: status "done" and what the row then names.
Finish(r) ==
  \/ /\ Update([r EXCEPT !.status = "done"])
     /\ pc' = "ended"
     /\ UNCHANGED faults
  \/ /\ Fault
     /\ Raises
     /\ UNCHANGED row

Init ==
  /\ job \in Requests
  /\ pc = "entering"
  /\ row = Fresh
  /\ files = [NoFiles EXCEPT !.dir = TRUE]
  /\ seen = Unseen
  /\ client = "closed"
  /\ late = "none"
  /\ faults = 0

-----------------------------------------------------------------------------
(* Every handler.                                                          *)

First == CASE job.kind = "pdf"                 -> "fixing"
           [] job.kind \in {"office", "legacy"} -> "remediating"
           [] job.kind = "epub"                -> "packing"
           [] OTHER                            -> "starting"

\* run_job: dispatch, workdir.mkdir, the first stage update.
Enter ==
  /\ pc = "entering"
  /\ files' = [files EXCEPT !.dir = TRUE]
  /\ pc' = First
  /\ UNCHANGED <<job, row, seen, client, late, faults>>

\* Defect: a failing acceptance gate of an Office job is not absorbed.
Absorbed_NotTheGate ==
  \/ pc \in {"remediating", "packing", "judging", "rereporting"}
  \/ pc = "auditing" /\ job.kind # "pdf"
  \/ pc = "extracting" /\ seen.escalated

\* Calls whose failure the code that makes them deals with, below.
Absorbed == \/ pc \in {"remediating", "checking", "packing", "judging", "rereporting"}
            \/ pc = "auditing" /\ job.kind # "pdf"
            \/ pc = "extracting" /\ seen.escalated

\* Any other call raises, or the stage update before it, or closing its client.
\* A browser that fails to launch leaves Playwright's driver behind.
CallRaises ==
  /\ pc \in Calls
  /\ ~Absorbed
  /\ Raises
  /\ client' \in IF pc = "starting" /\ job.kind = "html" THEN {"closed", "half"} ELSE {"closed"}
  /\ UNCHANGED <<job, row, files, seen, late, faults>>

\* Before an absorbed call the stage update still raises out of the handler.
StageUpdateRaises ==
  /\ pc \in {"remediating", "checking", "packing"}
  /\ Fault
  /\ Raises
  /\ UNCHANGED <<job, row, files, seen, client, late>>

\* asyncio.wait_for gives up; the thread goes on.
CallTimesOut ==
  /\ job.kind = "pdf"
  /\ pc \in Timed
  /\ Raises
  /\ late' = LateWork(pc)
  /\ UNCHANGED <<job, row, files, seen, client, faults>>

\* except Exception around _rebuild_from_semantics.
ReportUnexpected ==
  /\ pc = "unexpected"
  /\ Settle("raised")
  /\ UNCHANGED <<job, files, seen, client, late>>

\* JobWorker._loop: except Exception; a fault here ends the worker task.
WorkerReports ==
  /\ pc = "raised"
  /\ Settle("ended")
  /\ UNCHANGED <<job, files, seen, client, late>>

\* await ollama.start(), client.start(), converter.start().
Started ==
  /\ pc = "starting"
  /\ client' = "open"
  /\ pc' = CASE job.kind = "vision" -> "planning"
             [] job.kind = "html"   -> "printing"
             [] OTHER               -> "extracting"
  /\ UNCHANGED <<job, row, files, seen, late, faults>>

-----------------------------------------------------------------------------
(* _remediate_pdf.                                                         *)

Fixed ==
  /\ pc = "fixing"
  /\ files' = [files EXCEPT !.dir = TRUE, !.out = "repaired"]
  /\ pc' = "accepting"
  /\ UNCHANGED <<job, row, seen, client, late, faults>>

\* Defect: only the acceptance verdict escalates.
ShouldRebuild_VerdictOnly(passed, verapdf) == job.rebuild /\ ~passed

ShouldRebuild(passed, verapdf) == job.rebuild /\ (~passed \/ ~verapdf)

\* verapdf is FALSE when veraPDF ran and failed; passed may still be TRUE then.
Accepted ==
  /\ pc = "accepting"
  /\ \E passed, verapdf \in BOOLEAN :
       LET up == ShouldRebuild(passed, verapdf)
       IN  /\ seen' = [seen EXCEPT !.passed = passed, !.verapdf = verapdf, !.escalated = up]
           /\ pc' = IF up THEN "probing" ELSE IF job.quality THEN "auditing" ELSE "reporting"
  /\ UNCHANGED <<job, row, files, client, late, faults>>

Audited ==
  /\ job.kind = "pdf"
  /\ pc = "auditing"
  /\ seen' = [seen EXCEPT !.audited = TRUE]
  /\ pc' = "reporting"
  /\ UNCHANGED <<job, row, files, client, late, faults>>

Reported ==
  /\ pc = "reporting"
  /\ files' = [files EXCEPT !.dir = TRUE, !.report = files.out]
  /\ Finish([row EXCEPT !.serves = "out", !.report = TRUE, !.audited = seen.audited])
  /\ UNCHANGED <<job, seen, client, late>>

-----------------------------------------------------------------------------
(* _rebuild_from_semantics.                                                *)

\* Defect: the probe's answer is ignored.
FormRefused_Never == FALSE

FormRefused == job.form

\* has_acroform; it answers "no" when it cannot open the file.
Probed ==
  /\ pc = "probing"
  /\ \/ FormRefused /\ RebuildFails
     \/ ~FormRefused /\ pc' = "starting" /\ UNCHANGED <<row, faults>>
  /\ UNCHANGED <<job, files, seen, client, late>>

\* extract raises or yields no text, or no vision provider is configured.
Extracted ==
  /\ pc = "extracting"
  /\ seen.escalated
  /\ client' = "closed"
  /\ \/ pc' = "composing" /\ UNCHANGED <<row, faults>>
     \/ RebuildFails
  /\ UNCHANGED <<job, files, seen, late>>

\* gather(_md_parse, _vision_enrich) and _ast_build; an unknown backend or a
\* missing binary is refused before anything is rendered.
Composed ==
  /\ pc = "composing"
  /\ \/ job.backend # "other" /\ pc' = "rendering" /\ UNCHANGED <<row, faults>>
     \/ RebuildFails
  /\ UNCHANGED <<job, files, seen, client, late>>

\* rebuilt_path.write_bytes, beside the repaired PDF; it makes no directory.
WriteTemp ==
  IF files.dir
  THEN files' = [files EXCEPT !.temp = TRUE] /\ pc' = "judging"
  ELSE Raises /\ UNCHANGED files

Rendered ==
  /\ pc = "rendering"
  /\ \/ /\ job.backend = "questpdf"
        /\ WriteTemp
        /\ UNCHANGED <<row, faults>>
     \/ /\ job.backend = "typst"
        /\ pc' = "asserting"
        /\ UNCHANGED <<row, files, faults>>
     \/ RebuildFails /\ UNCHANGED files
  /\ UNCHANGED <<job, seen, client, late>>

\* The structure tree of a Typst PDF is compared with the AST.
Asserted ==
  /\ pc = "asserting"
  /\ \/ /\ WriteTemp
        /\ seen' = [seen EXCEPT !.asserted = TRUE]
        /\ UNCHANGED <<row, faults>>
     \/ RebuildFails /\ UNCHANGED <<files, seen>>
  /\ UNCHANGED <<job, client, late>>

\* The acceptance gate raises or answers no: unlink, then the error code.
Reject == RebuildFails /\ files' = [files EXCEPT !.temp = FALSE]

\* Defect: the temporary file is renamed whatever the gate said.
MayReplace_Always(accepted) == files.temp

\* rebuilt_path.replace needs the file a DELETE may have taken.
MayReplace(accepted) == accepted /\ files.temp

Judged ==
  /\ pc = "judging"
  /\ \E accepted \in BOOLEAN :
       /\ seen' = [seen EXCEPT !.judged = accepted]
       /\ \/ /\ MayReplace(accepted)
             /\ files' = [files EXCEPT !.temp = FALSE, !.out = "rebuilt"]
             /\ pc' = "rereporting"
             /\ UNCHANGED <<row, faults>>
          \/ ~MayReplace(accepted) /\ ~accepted /\ Reject
          \/ /\ ~MayReplace(accepted)
             /\ accepted
             /\ Raises
             /\ UNCHANGED <<row, files, faults>>
  /\ UNCHANGED <<job, client, late>>

\* Defect: report_path is set although the report could not be written.
Rereported_AlwaysNamed ==
  /\ pc = "rereporting"
  /\ \E written \in BOOLEAN :
       /\ files' = [files EXCEPT !.dir = TRUE,
                                 !.report = IF written THEN files.out ELSE files.report]
       /\ Finish([row EXCEPT !.serves = "out", !.report = TRUE, !.tier = "rebuilt"])
  /\ UNCHANGED <<job, seen, client, late>>

\* A report that cannot be written leaves report_path empty and is not fatal.
Rereported ==
  /\ pc = "rereporting"
  /\ \E written \in BOOLEAN :
       /\ files' = [files EXCEPT !.dir = TRUE,
                                 !.report = IF written THEN files.out ELSE files.report]
       /\ Finish([row EXCEPT !.serves = "out", !.report = written, !.tier = "rebuilt"])
  /\ UNCHANGED <<job, seen, client, late>>

-----------------------------------------------------------------------------
(* The other kinds.                                                        *)

\* _remediate_office ignores the remediator's result: it reports failure by
\* its success field, always for the OLE2 formats.
Remediated ==
  /\ pc = "remediating"
  /\ \E success \in BOOLEAN :
       /\ job.kind = "legacy" => ~success
       /\ files' = [files EXCEPT !.dir = TRUE, !.out = IF success THEN "repaired" ELSE @]
  /\ pc' = "checking"
  /\ UNCHANGED <<job, row, seen, client, late, faults>>

\* The acceptance summary, or the gate's error, goes into the metadata.
Checked ==
  /\ pc = "checking"
  /\ IF job.quality
     THEN pc' = "auditing" /\ UNCHANGED <<row, faults>>
     ELSE Finish([row EXCEPT !.serves = "out"])
  /\ UNCHANGED <<job, files, seen, client, late>>

\* So does the audit, or its error.
OfficeAudited ==
  /\ job.kind # "pdf"
  /\ pc = "auditing"
  /\ \E audited \in BOOLEAN : Finish([row EXCEPT !.serves = "out", !.audited = audited])
  /\ UNCHANGED <<job, files, seen, client, late>>

DocExtracted ==
  /\ pc = "extracting"
  /\ ~seen.escalated
  /\ pc' = "converting"
  /\ UNCHANGED <<job, row, files, seen, client, late, faults>>

\* output_path.write_text makes no directory.
Converted ==
  /\ pc = "converting"
  /\ IF files.dir
     THEN /\ files' = [files EXCEPT !.out = "repaired"]
          /\ Finish([row EXCEPT !.serves = "out"])
     ELSE Raises /\ UNCHANGED <<row, files, faults>>
  /\ client' = "closed"
  /\ UNCHANGED <<job, seen, late>>

\* run_vision_plan leaves a PDF only when its plan passed; else the trace is served.
Planned ==
  /\ pc = "planning"
  /\ \E passed \in BOOLEAN :
       /\ files' = [files EXCEPT !.dir = TRUE, !.trace = TRUE,
                                 !.out = IF passed THEN "repaired" ELSE @]
       /\ Finish([row EXCEPT !.serves = IF passed THEN "out" ELSE "trace", !.report = TRUE])
  /\ client' = "closed"
  /\ UNCHANGED <<job, seen, late>>

\* _convert_html_to_pdf ignores the converter's result.
Printed ==
  /\ pc = "printing"
  /\ \E success \in BOOLEAN :
       files' = [files EXCEPT !.dir = TRUE, !.out = IF success THEN "repaired" ELSE @]
  /\ Finish([row EXCEPT !.serves = "out"])
  /\ client' = "closed"
  /\ UNCHANGED <<job, seen, late>>

\* _convert_html_to_epub looks at it.
Packed ==
  /\ pc = "packing"
  /\ \/ /\ files' = [files EXCEPT !.dir = TRUE, !.out = "repaired"]
        /\ pc' = "verifying"
        /\ UNCHANGED <<row, faults>>
     \/ Settle("raised") /\ UNCHANGED files
  /\ UNCHANGED <<job, seen, client, late>>

Verified ==
  /\ pc = "verifying"
  /\ Finish([row EXCEPT !.serves = "out"])
  /\ UNCHANGED <<job, files, seen, client, late>>

-----------------------------------------------------------------------------
(* What happens around the handler.                                        *)

\* DELETE /v1/jobs/{id}: the row, then the directory, whatever the job does.
Delete ==
  /\ row.status # "none"
  /\ row' = NoRow
  /\ files' = NoFiles
  /\ UNCHANGED <<job, pc, seen, client, late, faults>>

\* JobWorker.stop cancels the task: finally blocks run, except Exception does not.
Cancel ==
  /\ pc \notin Finished
  /\ pc' = "cancelled"
  /\ client' = IF client = "open" THEN "closed" ELSE client
  /\ late' = IF LateWork(pc) = "none" THEN late ELSE LateWork(pc)
  /\ UNCHANGED <<job, row, files, seen, faults>>

\* A thread left behind finishes its work.
LateWrite ==
  /\ late # "none"
  /\ files' = IF late = "out" THEN [files EXCEPT !.dir = TRUE, !.out = "repaired"]
              ELSE [files EXCEPT !.dir = TRUE, !.report = files.out]
  /\ late' = "none"
  /\ UNCHANGED <<job, pc, row, seen, client, faults>>

Done == pc \in Finished /\ late = "none" /\ UNCHANGED vars

Next ==
  \/ Enter \/ CallRaises \/ StageUpdateRaises \/ CallTimesOut \/ ReportUnexpected
  \/ WorkerReports \/ Started
  \/ Fixed \/ Accepted \/ Audited \/ Reported
  \/ Probed \/ Extracted \/ Composed \/ Rendered \/ Asserted \/ Judged \/ Rereported
  \/ Remediated \/ Checked \/ OfficeAudited \/ DocExtracted \/ Converted \/ Planned
  \/ Printed \/ Packed \/ Verified
  \/ Delete \/ Cancel \/ LateWrite \/ Done

Spec == Init /\ [][Next]_vars

-----------------------------------------------------------------------------
(* Properties.                                                             *)

TypeOK ==
  /\ job \in Requests
  /\ pc \in Places
  /\ row \in RowSet
  /\ files \in FileSet
  /\ seen \in SeenSet
  /\ client \in {"closed", "open", "half"}
  /\ late \in {"none", "out", "report"}
  /\ faults \in 0..MaxFaults

\* Every gate the rebuilt PDF has to pass, for the backend that rendered it.
RebuildAccepted ==
  /\ seen.judged
  /\ job.backend = "typst" => seen.asserted
  /\ ~job.form

\* The repaired PDF of the first tier stays where it is until a rebuilt one
\* has passed every gate, or the job is deleted (engine_service.py:766-768).
Tier1Survives ==
  [][files.out = "repaired" =>
       \/ files'.out = "repaired"
       \/ files'.out = "rebuilt" /\ RebuildAccepted'
       \/ row'.status = "none"]_vars

\* A job that opted in to the rebuild tier is served a repaired PDF that passed
\* acceptance and veraPDF, or a rebuilt one that passed every gate and is
\* labelled so; never a PDF that failed (engine_service.py:209-214).
OptInServesAccepted ==
  row.status = "done" /\ job.rebuild =>
    \/ files.out = "repaired" /\ seen.passed /\ seen.verapdf /\ row.tier = "none"
    \/ files.out = "rebuilt" /\ RebuildAccepted /\ row.tier = "rebuilt"

\* A form is never flattened by the rebuild tier (engine_service.py:594-596).
FormsNeverFlattened == job.form => files.out # "rebuilt"

\* A finished PDF job names a report only if that report was written, and about
\* the PDF it serves.
ReportDescribesServed ==
  row.status = "done" /\ row.report /\ job.kind = "pdf" => files.report = files.out

\* The temporary PDF of the rebuild tier is gone when the handler ends, unless
\* the server was stopped under it.
NoTempLeft == pc = "ended" => ~files.temp

\* The kinds whose handlers look at what the conversion reports.
ChecksResult == {"pdf", "doc", "vision", "epub"}

\* A finished job of these kinds names a file that exists.
DoneHasOutput ==
  row.status = "done" /\ job.kind \in ChecksResult =>
    /\ row.serves = "out" => files.out # "none"
    /\ row.serves = "trace" => files.trace
    /\ row.serves # "none"

\* An Office file that was repaired is served whatever its gate or audit say
\* (engine_service.py:324, 352).
OfficeKeepsOutput ==
  /\ pc = "ended"
  /\ job.kind \in {"office", "legacy"}
  /\ files.out # "none"
  /\ row.status # "none"
  /\ faults = 0
  => row.status = "done"

\* A handler that ends leaves no row running, unless the store failed; one
\* failure is not enough where the rebuild tier reports its own errors.
EndedRowsSettled ==
  pc = "ended" /\ row.status = "running" => faults > (IF seen.escalated THEN 1 ELSE 0)

\* No handler ends with a model client or browser it started still open.
ClientsClosed == pc \in Finished => client # "open"

\* The job as JobLifecycle knows it, from the start of its handler on.
JobState == [j \in {"job"} |-> IF row.status = "none" THEN "gone" ELSE row.status]
Lifecycle == INSTANCE JobLifecycle WITH Jobs <- {"job"}, state <- JobState

\* Whatever the layers of except around a handler report in turn, and with DELETE
\* at any await, a handler takes its job through the life JobLifecycle promises:
\* it ends once, and nothing moves it again (jobs.py:151, 298-310).
HandlerFollowsLifecycle == [][Lifecycle!Next]_JobState

\* What README.md:134 promises of a finished job of any kind.
DoneAlwaysHasOutput ==
  row.status = "done" => files.out # "none" \/ (row.serves = "trace" /\ files.trace)

\* What routes.py:226 promises of a job that asked for the quality audit.
QualityIsAttached ==
  row.status = "done" /\ job.quality /\ job.kind = "pdf" /\ row.report => row.audited
=============================================================================
