---------------------------- MODULE EngineJobProofs ----------------------------
(***************************************************************************)
(* Theorems about EngineJob for any set of kinds and any number of faults: *)
(* its types and every safety property its run checks.                     *)
(***************************************************************************)
EXTENDS EngineJob, TLAPS

-----------------------------------------------------------------------------
(* The inductive invariant.                                                *)

Alive == row.status # "none"

\* Calls of the rebuild tier that no other handler makes, and those before which
\* the probe has answered.
RebuildOnly == RebuildCalls \ {"starting", "extracting"}
AfterProbe  == RebuildCalls \ {"probing"}

\* Which kinds make which calls.
KindByPlace ==
  /\ pc \in {"fixing", "accepting", "reporting"} => job.kind = "pdf"
  /\ pc \in {"remediating", "checking"} => job.kind \in {"office", "legacy"}
  /\ pc = "auditing" => job.kind \in {"pdf", "office", "legacy"}
  /\ pc \in RebuildOnly => job.kind = "pdf"
  /\ pc = "starting" => job.kind \in {"pdf", "doc", "vision", "html"}
  /\ pc = "extracting" => job.kind \in {"pdf", "doc"}
  /\ pc = "converting" => job.kind = "doc"
  /\ pc = "planning" => job.kind = "vision"
  /\ pc = "printing" => job.kind = "html"
  /\ pc \in {"packing", "verifying"} => job.kind = "epub"

\* Where an escalated handler can be, and where no other can.
EscalationByPlace ==
  /\ seen.escalated =>
       /\ job.rebuild
       /\ pc \in RebuildCalls \cup Finished \cup {"unexpected", "raised"}
  /\ pc \in RebuildOnly \cup {"unexpected"} => seen.escalated
  /\ job.kind = "pdf" /\ pc \in RebuildCalls => seen.escalated

\* The probe and the structure assertion lie behind whoever got past them.
GatesPassed ==
  /\ seen.escalated /\ pc \in AfterProbe => ~job.form
  /\ pc \in {"judging", "rereporting"} /\ job.backend = "typst" => seen.asserted
  /\ pc = "rereporting" => seen.judged

\* What a rebuilt PDF on disk means, and where it must be there.
RebuiltOnDisk ==
  /\ files.out = "rebuilt" =>
       /\ seen.escalated
       /\ RebuildAccepted
       /\ pc \in {"rereporting", "unexpected", "raised"} \cup Finished
  /\ pc = "rereporting" /\ Alive => files.out = "rebuilt"

\* Where the first output must still be there, unless the job was deleted.
OutputOnDisk ==
  /\ pc \in {"accepting", "reporting"} /\ Alive => files.out = "repaired"
  /\ pc = "auditing" /\ job.kind = "pdf" /\ Alive => files.out = "repaired"
  /\ pc = "verifying" /\ Alive => files.out = "repaired"

\* The temporary PDF is there while it is judged, or when a stop came then.
TempByPlace == files.temp => pc \in {"judging", "cancelled"}

\* A job that opted in reaches the report of the first tier with clean verdicts.
UnescalatedIsClean ==
  job.rebuild /\ pc \in {"auditing", "reporting"} => seen.passed /\ seen.verapdf

\* A file left to a late thread belongs to a job that did not end well.
LateIsFailed ==
  /\ late # "none" => pc \in Finished \cup {"raised"}
  /\ late = "out" => ~seen.escalated /\ row.status # "done"
  /\ job.kind \in {"office", "legacy"} => late = "none"

\* The model client is open only under the calls that use it.
ClientByPlace ==
  client = "open" => pc \in {"extracting", "converting", "planning", "printing"}

\* The tier is set with the final status, and a finished job has no handler.
DoneIsFinal ==
  /\ row.tier # "none" => row.status = "done"
  /\ row.status = "done" => pc \in Finished
  /\ OptInServesAccepted
  /\ DoneHasOutput
  /\ ReportDescribesServed

\* Faults counted before a handler can end with its row running.
FaultsCounted ==
  /\ row.status = "failed" => pc = "ended"
  /\ pc = "raised" /\ seen.escalated => faults > 0
  /\ EndedRowsSettled

\* An Office job that fails without a fault has repaired nothing.
OfficeFailures ==
  job.kind \in {"office", "legacy"} /\ faults = 0 /\ files.out # "none" =>
    /\ pc \notin {"entering", "raised"}
    /\ row.status # "failed"

EngineInv ==
  /\ KindByPlace
  /\ EscalationByPlace
  /\ GatesPassed
  /\ RebuiltOnDisk
  /\ OutputOnDisk
  /\ TempByPlace
  /\ UnescalatedIsClean
  /\ LateIsFailed
  /\ ClientByPlace
  /\ DoneIsFinal
  /\ FaultsCounted
  /\ OfficeFailures

-----------------------------------------------------------------------------
(* Types, and what the updates of a row do.                                *)

\* A call that raises leaves the handler, or the rebuild tier's try block.
LEMMA RaiseMoves ==
  ASSUME Raises
  PROVE  /\ pc' \in {"raised", "unexpected"}
         /\ pc' = "unexpected" <=> seen.escalated
BY DEF Raises

\* An error code settles the row, or its own update raises.
LEMMA SettleMoves ==
  ASSUME TypeOK, NEW outer, Settle(outer)
  PROVE  /\ row' \in RowSet
         /\ faults' \in 0..MaxFaults
         /\ \/ /\ pc' = "ended"
               /\ faults' = faults
               /\ \/ row' = row /\ row.status = "none"
                  \/ /\ row.status # "none"
                     /\ row'.status = "failed" /\ row'.tier = row.tier
            \/ /\ pc' = outer
               /\ faults' = faults + 1
               /\ row' = row
<1>1. /\ Failed \in RowSet
      /\ Failed.status = "failed"
      /\ Failed.tier = row.tier
  BY DEF Failed, TypeOK, RowSet
<1> QED
  BY <1>1, EngineAssumption DEF Settle, Update, Fault, TypeOK

\* The last update finishes the row, finds it deleted, or raises.
LEMMA FinishMoves ==
  ASSUME TypeOK, NEW r \in RowSet, Finish(r)
  PROVE  /\ row' \in RowSet
         /\ faults' \in 0..MaxFaults
         /\ \/ /\ pc' = "ended"
               /\ faults' = faults
               /\ row' = row
               /\ row.status = "none"
            \/ /\ pc' = "ended"
               /\ faults' = faults
               /\ row.status # "none"
               /\ row'.status = "done"
               /\ row'.serves = r.serves
               /\ row'.tier = r.tier
               /\ row'.report = r.report
            \/ /\ Raises
               /\ faults' = faults + 1
               /\ row' = row
<1> DEFINE d == [r EXCEPT !.status = "done"]
<1>1. /\ d \in RowSet
      /\ d.status = "done"
      /\ d.serves = r.serves
      /\ d.tier = r.tier
      /\ d.report = r.report
  BY DEF RowSet
<1>2. CASE Update(d) /\ pc' = "ended" /\ faults' = faults
  <2> HIDE DEF d
  <2> QED  BY <1>1, <1>2 DEF Update, TypeOK
<1>3. CASE Fault /\ Raises /\ row' = row
  BY <1>3, EngineAssumption DEF Fault, TypeOK
<1> QED
  BY <1>2, <1>3 DEF Finish

\* What an update that serves s under tier t, with p for its report, leaves.
Concluded(s, t, p) ==
  /\ row' \in RowSet
  /\ faults' \in 0..MaxFaults
  /\ \/ /\ pc' = "ended"
        /\ faults' = faults
        /\ row' = row
        /\ row.status = "none"
     \/ /\ pc' = "ended"
        /\ faults' = faults
        /\ row.status # "none"
        /\ row'.status = "done"
        /\ row'.serves = s
        /\ row'.tier = t
        /\ row'.report = p
     \/ /\ Raises
        /\ faults' = faults + 1
        /\ row' = row

\* The updates that end the handlers, one lemma for each form.
LEMMA ReportedConcludes ==
  ASSUME TypeOK, NEW a \in BOOLEAN,
         Finish([row EXCEPT !.serves = "out", !.report = TRUE, !.audited = a])
  PROVE  Concluded("out", row.tier, TRUE)
<1> DEFINE r == [row EXCEPT !.serves = "out", !.report = TRUE, !.audited = a]
<1>1. r \in RowSet /\ r.serves = "out" /\ r.tier = row.tier /\ r.report = TRUE
  BY DEF TypeOK, RowSet
<1>2. Finish(r)
  OBVIOUS
<1> HIDE DEF r
<1> QED
  BY <1>1, <1>2, FinishMoves DEF Concluded

LEMMA RebuiltConcludes ==
  ASSUME TypeOK, NEW w \in BOOLEAN,
         Finish([row EXCEPT !.serves = "out", !.report = w, !.tier = "rebuilt"])
  PROVE  Concluded("out", "rebuilt", w)
<1> DEFINE r == [row EXCEPT !.serves = "out", !.report = w, !.tier = "rebuilt"]
<1>1. r \in RowSet /\ r.serves = "out" /\ r.tier = "rebuilt" /\ r.report = w
  BY DEF TypeOK, RowSet
<1>2. Finish(r)
  OBVIOUS
<1> HIDE DEF r
<1> QED
  BY <1>1, <1>2, FinishMoves DEF Concluded

LEMMA OutConcludes ==
  ASSUME TypeOK, Finish([row EXCEPT !.serves = "out"])
  PROVE  Concluded("out", row.tier, row.report)
<1> DEFINE r == [row EXCEPT !.serves = "out"]
<1>1. r \in RowSet /\ r.serves = "out" /\ r.tier = row.tier /\ r.report = row.report
  BY DEF TypeOK, RowSet
<1>2. Finish(r)
  OBVIOUS
<1> HIDE DEF r
<1> QED
  BY <1>1, <1>2, FinishMoves DEF Concluded

LEMMA AuditConcludes ==
  ASSUME TypeOK, NEW a \in BOOLEAN,
         Finish([row EXCEPT !.serves = "out", !.audited = a])
  PROVE  Concluded("out", row.tier, row.report)
<1> DEFINE r == [row EXCEPT !.serves = "out", !.audited = a]
<1>1. r \in RowSet /\ r.serves = "out" /\ r.tier = row.tier /\ r.report = row.report
  BY DEF TypeOK, RowSet
<1>2. Finish(r)
  OBVIOUS
<1> HIDE DEF r
<1> QED
  BY <1>1, <1>2, FinishMoves DEF Concluded

LEMMA PlanConcludes ==
  ASSUME TypeOK, NEW s \in {"out", "trace"},
         Finish([row EXCEPT !.serves = s, !.report = TRUE])
  PROVE  Concluded(s, row.tier, TRUE)
<1> DEFINE r == [row EXCEPT !.serves = s, !.report = TRUE]
<1>1. r \in RowSet /\ r.serves = s /\ r.tier = row.tier /\ r.report = TRUE
  BY DEF TypeOK, RowSet
<1>2. Finish(r)
  OBVIOUS
<1> HIDE DEF r
<1> QED
  BY <1>1, <1>2, FinishMoves DEF Concluded

\* Types, one step per action.
LEMMA StepKeepsTypes ==
  ASSUME TypeOK, [Next]_vars
  PROVE  TypeOK'
<1> USE DEF TypeOK, Places, Calls, RebuildCalls, Finished
<1>1. CASE Enter
  <2>1. files' \in FileSet
    BY <1>1 DEF Enter, First, FileSet, Contents
  <2> QED
    BY <1>1, <2>1 DEF Enter, First
<1>2. CASE CallRaises
  BY <1>2, RaiseMoves DEF CallRaises
<1>3. CASE StageUpdateRaises
  BY <1>3, RaiseMoves, EngineAssumption DEF StageUpdateRaises, Fault
<1>4. CASE CallTimesOut
  BY <1>4, RaiseMoves DEF CallTimesOut, LateWork
<1>5. CASE ReportUnexpected
  BY <1>5, SettleMoves DEF ReportUnexpected
<1>6. CASE WorkerReports
  BY <1>6, SettleMoves DEF WorkerReports
<1>7. CASE Started
  BY <1>7 DEF Started
<1>8. CASE Fixed
  <2>1. files' \in FileSet
    BY <1>8 DEF Fixed, FileSet, Contents
  <2> QED
    BY <1>8, <2>1 DEF Fixed
<1>9. CASE Accepted
  <2>1. PICK passed \in BOOLEAN, verapdf \in BOOLEAN :
          seen' = [seen EXCEPT !.passed = passed, !.verapdf = verapdf,
                               !.escalated = ShouldRebuild(passed, verapdf)]
    BY <1>9 DEF Accepted
  <2>2. ShouldRebuild(passed, verapdf) \in BOOLEAN
    BY DEF ShouldRebuild
  <2>3. seen' \in SeenSet
    BY <2>1, <2>2 DEF SeenSet
  <2> QED
    BY <1>9, <2>3 DEF Accepted
<1>10. CASE Audited
  <2>1. seen' \in SeenSet
    BY <1>10 DEF Audited, SeenSet
  <2> QED
    BY <1>10, <2>1 DEF Audited
<1>11. CASE Reported
  <2>1. files' \in FileSet
    BY <1>11 DEF Reported, FileSet, Contents
  <2>2. Concluded("out", row.tier, TRUE)
    BY <1>11, ReportedConcludes DEF Reported, SeenSet
  <2> QED
    BY <1>11, RaiseMoves, <2>1, <2>2 DEF Reported, Concluded
<1>12. CASE Probed
  BY <1>12, SettleMoves DEF Probed, RebuildFails
<1>13. CASE Extracted
  BY <1>13, SettleMoves DEF Extracted, RebuildFails
<1>14. CASE Composed
  BY <1>14, SettleMoves DEF Composed, RebuildFails
<1>15. CASE Rendered
  <2>1. files' \in FileSet
    BY <1>15 DEF Rendered, RebuildFails, WriteTemp, FileSet, Contents, Raises
  <2> QED
    BY <1>15, SettleMoves, RaiseMoves, <2>1 DEF Rendered, RebuildFails, WriteTemp
<1>16. CASE Asserted
  <2>1. files' \in FileSet
    BY <1>16 DEF Asserted, RebuildFails, WriteTemp, FileSet, Contents, Raises
  <2>2. seen' \in SeenSet
    BY <1>16 DEF Asserted, SeenSet
  <2> QED
    BY <1>16, SettleMoves, RaiseMoves, <2>1, <2>2 DEF Asserted, RebuildFails,
       WriteTemp
<1>17. CASE Judged
  <2>1. files' \in FileSet
    BY <1>17 DEF Judged, RebuildFails, Reject, FileSet, Contents, Raises
  <2>2. seen' \in SeenSet
    BY <1>17 DEF Judged, SeenSet
  <2> QED
    BY <1>17, SettleMoves, RaiseMoves, <2>1, <2>2 DEF Judged, RebuildFails, Reject
<1>18. CASE Rereported
  <2>1. files' \in FileSet
    BY <1>18 DEF Rereported, FileSet, Contents
  <2>2. \E w \in BOOLEAN : Concluded("out", "rebuilt", w)
    BY <1>18, RebuiltConcludes DEF Rereported
  <2> QED
    BY <1>18, RaiseMoves, <2>1, <2>2 DEF Rereported, Concluded
<1>19. CASE Remediated
  <2>1. files' \in FileSet
    BY <1>19 DEF Remediated, FileSet, Contents
  <2> QED
    BY <1>19, <2>1 DEF Remediated
<1>20. CASE Checked
  <2>1. \/ pc' = "auditing" /\ UNCHANGED <<row, faults>>
        \/ Concluded("out", row.tier, row.report)
    BY <1>20, OutConcludes DEF Checked
  <2> QED
    BY <1>20, RaiseMoves, <2>1 DEF Checked, Concluded
<1>21. CASE OfficeAudited
  <2>1. Concluded("out", row.tier, row.report)
    BY <1>21, AuditConcludes DEF OfficeAudited
  <2> QED
    BY <1>21, RaiseMoves, <2>1 DEF OfficeAudited, Concluded
<1>22. CASE DocExtracted
  BY <1>22 DEF DocExtracted
<1>23. CASE Converted
  <2>1. files' \in FileSet
    BY <1>23 DEF Converted, FileSet, Contents, Raises
  <2>2. \/ Raises /\ UNCHANGED <<row, faults>>
        \/ Concluded("out", row.tier, row.report)
    BY <1>23, OutConcludes DEF Converted
  <2> QED
    BY <1>23, RaiseMoves, <2>1, <2>2 DEF Converted, Concluded
<1>24. CASE Planned
  <2>1. files' \in FileSet
    BY <1>24 DEF Planned, FileSet, Contents
  <2>2. \E s \in {"out", "trace"} : Concluded(s, row.tier, TRUE)
    BY <1>24, PlanConcludes DEF Planned
  <2> QED
    BY <1>24, RaiseMoves, <2>1, <2>2 DEF Planned, Concluded
<1>25. CASE Printed
  <2>1. files' \in FileSet
    BY <1>25 DEF Printed, FileSet, Contents
  <2>2. Concluded("out", row.tier, row.report)
    BY <1>25, OutConcludes DEF Printed
  <2> QED
    BY <1>25, RaiseMoves, <2>1, <2>2 DEF Printed, Concluded
<1>26. CASE Packed
  <2>1. files' \in FileSet
    BY <1>26 DEF Packed, FileSet, Contents
  <2> QED
    BY <1>26, SettleMoves, <2>1 DEF Packed
<1>27. CASE Verified
  <2>1. Concluded("out", row.tier, row.report)
    BY <1>27, OutConcludes DEF Verified
  <2> QED
    BY <1>27, RaiseMoves, <2>1 DEF Verified, Concluded
<1>28. CASE Delete
  <2>1. files' \in FileSet
    BY <1>28 DEF Delete, NoRow, NoFiles, FileSet, Contents
  <2>2. row' \in RowSet
    BY <1>28 DEF Delete, NoRow, RowSet
  <2> QED
    BY <1>28, <2>1, <2>2 DEF Delete, NoRow, NoFiles
<1>29. CASE Cancel
  BY <1>29 DEF Cancel, LateWork
<1>30. CASE LateWrite
  <2>1. files' \in FileSet
    BY <1>30 DEF LateWrite, FileSet, Contents
  <2> QED
    BY <1>30, <2>1 DEF LateWrite
<1>31. CASE Done
  BY <1>31 DEF Done, vars
<1>32. CASE UNCHANGED vars
  BY <1>32 DEF vars
<1> QED
  BY <1>1, <1>2, <1>3, <1>4, <1>5, <1>6, <1>7, <1>8, <1>9, <1>10, <1>11, <1>12,
     <1>13, <1>14, <1>15, <1>16, <1>17, <1>18, <1>19, <1>20, <1>21, <1>22, <1>23,
     <1>24, <1>25, <1>26, <1>27, <1>28, <1>29, <1>30, <1>31, <1>32 DEF Next

-----------------------------------------------------------------------------
(* The invariant is inductive.                                             *)

\* The updates whose row depends on what the files show.
LEMMA RereportedMoves ==
  ASSUME TypeOK, Rereported
  PROVE  \/ pc' = "ended" /\ row' = row /\ row.status = "none" /\ faults' = faults
         \/ /\ pc' = "ended" /\ faults' = faults
            /\ row.status # "none" /\ row'.status = "done"
            /\ row'.serves = "out" /\ row'.tier = "rebuilt"
            /\ row'.report => files'.report = files.out
         \/ Raises /\ row' = row /\ faults' = faults + 1
<1>1. PICK w \in BOOLEAN : /\ Concluded("out", "rebuilt", w)
                           /\ w => files'.report = files.out
  BY RebuiltConcludes DEF Rereported, TypeOK, FileSet
<1> QED
  BY <1>1 DEF Concluded

LEMMA PlannedMoves ==
  ASSUME TypeOK, Planned
  PROVE  \/ pc' = "ended" /\ row' = row /\ row.status = "none" /\ faults' = faults
         \/ /\ pc' = "ended" /\ faults' = faults
            /\ row.status # "none" /\ row'.status = "done"
            /\ row'.serves \in {"out", "trace"} /\ row'.tier = row.tier
            /\ row'.serves = "out" => files'.out = "repaired"
         \/ Raises /\ row' = row /\ faults' = faults + 1
<1>1. PICK s \in {"out", "trace"} : /\ Concluded(s, row.tier, TRUE)
                                    /\ s = "out" => files'.out = "repaired"
  BY PlanConcludes DEF Planned, TypeOK, FileSet
<1> QED
  BY <1>1 DEF Concluded

\* One step per action; the records' fields first, then the invariant.
LEMMA StepKeepsInv ==
  ASSUME TypeOK, TypeOK', EngineInv, [Next]_vars
  PROVE  EngineInv'
<1> USE DEF EngineInv, KindByPlace, EscalationByPlace, GatesPassed, RebuiltOnDisk,
            OutputOnDisk, TempByPlace, UnescalatedIsClean, LateIsFailed,
            ClientByPlace, DoneIsFinal, FaultsCounted, OfficeFailures, Alive,
            RebuildOnly, AfterProbe, RebuildCalls, Finished, Calls,
            OptInServesAccepted, DoneHasOutput, ReportDescribesServed,
            RebuildAccepted, ChecksResult, EndedRowsSettled, Requests, AllKinds,
            TypeOK
<1>1. CASE Enter
  <2>1. /\ files'.out = files.out /\ files'.temp = files.temp
        /\ files'.trace = files.trace /\ files'.report = files.report
    BY <1>1 DEF Enter, First, FileSet
  <2> QED
    BY <1>1, <2>1, EngineAssumption DEF Enter, First
<1>2. CASE CallRaises
  BY <1>2, RaiseMoves DEF CallRaises, Absorbed
<1>3. CASE StageUpdateRaises
  BY <1>3, RaiseMoves DEF StageUpdateRaises, Fault
<1>4. CASE CallTimesOut
  BY <1>4, RaiseMoves DEF CallTimesOut, LateWork, Timed
<1>5. CASE ReportUnexpected
  BY <1>5, SettleMoves DEF ReportUnexpected
<1>6. CASE WorkerReports
  BY <1>6, SettleMoves DEF WorkerReports
<1>7. CASE Started
  BY <1>7 DEF Started
<1>8. CASE Fixed
  <2>1. files'.out = "repaired" /\ files'.temp = files.temp
    BY <1>8 DEF Fixed, FileSet
  <2> QED
    BY <1>8, <2>1 DEF Fixed
<1>9. CASE Accepted
  <2>1. PICK passed \in BOOLEAN, verapdf \in BOOLEAN :
          /\ seen'.passed = passed
          /\ seen'.verapdf = verapdf
          /\ seen'.escalated <=> job.rebuild /\ (~passed \/ ~verapdf)
          /\ seen'.escalated => pc' = "probing"
          /\ ~seen'.escalated => pc' \in {"auditing", "reporting"}
    BY <1>9 DEF Accepted, ShouldRebuild, TypeOK, SeenSet
  <2> QED
    BY <1>9, <2>1 DEF Accepted
<1>10. CASE Audited
  <2>1. /\ seen'.escalated = seen.escalated /\ seen'.passed = seen.passed
        /\ seen'.verapdf = seen.verapdf /\ seen'.judged = seen.judged
        /\ seen'.asserted = seen.asserted
    BY <1>10 DEF Audited, TypeOK, SeenSet
  <2> QED
    BY <1>10, <2>1 DEF Audited
<1>11. CASE Reported
  <2>1. /\ files'.out = files.out /\ files'.temp = files.temp
        /\ files'.trace = files.trace /\ files'.report = files.out
    BY <1>11 DEF Reported, FileSet
  <2>2. Concluded("out", row.tier, TRUE)
    BY <1>11, ReportedConcludes DEF Reported, SeenSet
  <2> QED
    BY <1>11, <2>1, <2>2, RaiseMoves DEF Reported, Concluded
<1>12. CASE Probed
  BY <1>12, SettleMoves DEF Probed, RebuildFails, FormRefused
<1>13. CASE Extracted
  BY <1>13, SettleMoves DEF Extracted, RebuildFails
<1>14. CASE Composed
  BY <1>14, SettleMoves DEF Composed, RebuildFails
<1>15. CASE Rendered
  <2>1. /\ files'.out = files.out /\ files'.trace = files.trace
        /\ files'.report = files.report
        /\ (files' = files \/ pc' = "judging")
    BY <1>15 DEF Rendered, WriteTemp, Raises, FileSet
  <2> QED
    BY <1>15, <2>1, SettleMoves, RaiseMoves DEF Rendered, RebuildFails, WriteTemp
<1>16. CASE Asserted
  <2>1. /\ files'.out = files.out /\ files'.trace = files.trace
        /\ files'.report = files.report
        /\ (files' = files \/ pc' = "judging")
    BY <1>16 DEF Asserted, WriteTemp, Raises, FileSet
  <2>2. /\ seen'.escalated = seen.escalated /\ seen'.judged = seen.judged
        /\ seen' = seen \/ seen'.asserted
        /\ pc' = "judging" => seen'.asserted
    BY <1>16 DEF Asserted, WriteTemp, Raises, RebuildFails, Settle, TypeOK, SeenSet
  <2> QED
    BY <1>16, <2>1, <2>2, SettleMoves, RaiseMoves DEF Asserted, RebuildFails,
       WriteTemp
<1>17. CASE Judged
  <2>1. seen'.escalated = seen.escalated /\ seen'.asserted = seen.asserted
    BY <1>17 DEF Judged, SeenSet
  <2>2. files'.report = files.report /\ files'.trace = files.trace
    BY <1>17 DEF Judged, Reject, Raises, FileSet
  <2>3. CASE pc' = "rereporting" /\ UNCHANGED <<row, faults>>
    <3>1. ~files'.temp /\ files'.out = "rebuilt"
      BY <1>17, <2>3 DEF Judged, Reject, RebuildFails, Settle, Raises, FileSet
    <3>2. seen'.judged
      BY <1>17, <2>3 DEF Judged, MayReplace, Reject, RebuildFails, Settle, Raises,
         SeenSet
    <3> QED
      BY <1>17, <2>1, <2>2, <2>3, <3>1, <3>2 DEF Judged
  <2>4. CASE Reject
    <3>1. ~files'.temp /\ files'.out = files.out
      BY <2>4 DEF Reject, FileSet
    <3> QED
      BY <1>17, <2>1, <2>2, <2>4, <3>1, SettleMoves DEF Judged, Reject, RebuildFails
  <2>5. CASE Raises /\ ~files.temp /\ UNCHANGED <<row, files, faults>>
    BY <1>17, <2>1, <2>5, RaiseMoves DEF Judged
  <2> QED
    BY <1>17, <2>3, <2>4, <2>5 DEF Judged, MayReplace
<1>18. CASE Rereported
  <2>1. /\ files'.out = files.out /\ files'.temp = files.temp
        /\ files'.trace = files.trace
    BY <1>18 DEF Rereported, FileSet
  <2>2. CASE pc' = "ended" /\ row' = row /\ row.status = "none" /\ faults' = faults
    BY <1>18, <2>1, <2>2 DEF Rereported
  <2>3. CASE /\ pc' = "ended" /\ faults' = faults
             /\ row.status # "none" /\ row'.status = "done"
             /\ row'.serves = "out" /\ row'.tier = "rebuilt"
             /\ row'.report => files'.report = files.out
    BY <1>18, <2>1, <2>3 DEF Rereported
  <2>4. CASE Raises /\ row' = row /\ faults' = faults + 1
    BY <1>18, <2>1, <2>4, RaiseMoves DEF Rereported
  <2> QED
    BY <1>18, <2>2, <2>3, <2>4, RereportedMoves
<1>19. CASE Remediated
  <2>1. files'.out \in {"repaired", files.out} /\ files'.temp = files.temp
    BY <1>19 DEF Remediated, FileSet
  <2> QED
    BY <1>19, <2>1 DEF Remediated
<1>20. CASE Checked
  <2>1. \/ pc' = "auditing" /\ UNCHANGED <<row, faults>>
        \/ Concluded("out", row.tier, row.report)
    BY <1>20, OutConcludes DEF Checked
  <2> QED
    BY <1>20, <2>1, RaiseMoves DEF Checked, Concluded
<1>21. CASE OfficeAudited
  <2>1. Concluded("out", row.tier, row.report)
    BY <1>21, AuditConcludes DEF OfficeAudited
  <2> QED
    BY <1>21, <2>1, RaiseMoves DEF OfficeAudited, Concluded
<1>22. CASE DocExtracted
  BY <1>22 DEF DocExtracted
<1>23. CASE Converted
  <2>1. files'.temp = files.temp /\ (files' = files \/ files'.out = "repaired")
    BY <1>23 DEF Converted, FileSet
  <2>2. \/ Raises /\ UNCHANGED <<row, files, faults>>
        \/ files'.out = "repaired" /\ Concluded("out", row.tier, row.report)
    BY <1>23, OutConcludes DEF Converted, FileSet
  <2> QED
    BY <1>23, <2>1, <2>2, RaiseMoves DEF Converted, Concluded
<1>24. CASE Planned
  <2>1. /\ files'.temp = files.temp /\ files'.trace
        /\ files'.out \in {"repaired", files.out}
    BY <1>24 DEF Planned, FileSet
  <2>2. CASE pc' = "ended" /\ row' = row /\ row.status = "none" /\ faults' = faults
    BY <1>24, <2>1, <2>2 DEF Planned
  <2>3. CASE /\ pc' = "ended" /\ faults' = faults
             /\ row.status # "none" /\ row'.status = "done"
             /\ row'.serves \in {"out", "trace"} /\ row'.tier = row.tier
             /\ row'.serves = "out" => files'.out = "repaired"
    BY <1>24, <2>1, <2>3 DEF Planned
  <2>4. CASE Raises /\ row' = row /\ faults' = faults + 1
    BY <1>24, <2>1, <2>4, RaiseMoves DEF Planned
  <2> QED
    BY <1>24, <2>2, <2>3, <2>4, PlannedMoves
<1>25. CASE Printed
  <2>1. files'.temp = files.temp /\ files'.out \in {"repaired", files.out}
    BY <1>25 DEF Printed, FileSet
  <2>2. Concluded("out", row.tier, row.report)
    BY <1>25, OutConcludes DEF Printed
  <2> QED
    BY <1>25, <2>1, <2>2, RaiseMoves DEF Printed, Concluded
<1>26. CASE Packed
  <2>1. CASE files' = files /\ Settle("raised")
    BY <1>26, <2>1, SettleMoves DEF Packed
  <2>2. CASE /\ files' = [files EXCEPT !.dir = TRUE, !.out = "repaired"]
             /\ UNCHANGED <<row, faults>> /\ pc' = "verifying"
    <3>1. files'.out = "repaired" /\ files'.temp = files.temp
      BY <2>2 DEF FileSet
    <3> QED
      BY <1>26, <2>2, <3>1 DEF Packed
  <2> QED
    BY <1>26, <2>1, <2>2 DEF Packed
<1>27. CASE Verified
  <2>1. Concluded("out", row.tier, row.report)
    BY <1>27, OutConcludes DEF Verified
  <2> QED
    BY <1>27, <2>1, RaiseMoves DEF Verified, Concluded
<1>28. CASE Delete
  <2>1. /\ files'.out = "none" /\ ~files'.temp /\ row'.status = "none"
        /\ row'.tier = "none"
    BY <1>28 DEF Delete, NoRow, NoFiles
  <2> QED
    BY <1>28, <2>1 DEF Delete, NoRow, NoFiles
<1>29. CASE Cancel
  BY <1>29 DEF Cancel, LateWork
<1>30. CASE LateWrite
  <2>1. /\ files'.temp = files.temp
        /\ files'.trace = files.trace
        /\ late = "out" => files'.out = "repaired"
        /\ late # "out" => files'.out = files.out /\ files'.report = files.out
    BY <1>30 DEF LateWrite, FileSet
  <2> QED
    BY <1>30, <2>1 DEF LateWrite
<1>31. CASE Done
  BY <1>31 DEF Done, vars
<1>32. CASE UNCHANGED vars
  BY <1>32 DEF vars
<1> QED
  BY <1>1, <1>2, <1>3, <1>4, <1>5, <1>6, <1>7, <1>8, <1>9, <1>10, <1>11, <1>12,
     <1>13, <1>14, <1>15, <1>16, <1>17, <1>18, <1>19, <1>20, <1>21, <1>22, <1>23,
     <1>24, <1>25, <1>26, <1>27, <1>28, <1>29, <1>30, <1>31, <1>32 DEF Next

LEMMA InitHasInv ==
  ASSUME Init
  PROVE  TypeOK /\ EngineInv
<1> USE DEF Init, NoFiles, NoRow, Fresh, Unseen
<1>1. TypeOK
  <2>1. row \in RowSet
    BY DEF RowSet
  <2>2. files \in FileSet
    BY DEF FileSet, Contents
  <2>3. seen \in SeenSet
    BY DEF SeenSet
  <2> QED
    BY <2>1, <2>2, <2>3, EngineAssumption DEF TypeOK, Places, Calls
<1>2. EngineInv
  BY DEF EngineInv, KindByPlace, EscalationByPlace, GatesPassed, RebuiltOnDisk,
         OutputOnDisk, TempByPlace, UnescalatedIsClean, LateIsFailed, ClientByPlace,
         DoneIsFinal, FaultsCounted, OfficeFailures, RebuildOnly, AfterProbe,
         RebuildCalls, Finished, OptInServesAccepted, DoneHasOutput,
         ReportDescribesServed, EndedRowsSettled
<1> QED
  BY <1>1, <1>2

\* What a step can do to the output.
LEMMA OutputMoves ==
  ASSUME TypeOK, [Next]_vars
  PROVE  \/ files'.out = files.out
         \/ files'.out = "repaired"
         \/ row'.status = "none"
         \/ /\ pc = "judging"
            /\ files'.out = "rebuilt"
            /\ seen'.judged
            /\ UNCHANGED job /\ seen'.asserted = seen.asserted
<1> USE DEF TypeOK, FileSet
<1>1. CASE Enter
  BY <1>1 DEF Enter
<1>2. CASE Fixed
  BY <1>2 DEF Fixed
<1>3. CASE Reported
  BY <1>3 DEF Reported
<1>4. CASE Rendered
  BY <1>4 DEF Rendered, WriteTemp, Raises
<1>5. CASE Asserted
  BY <1>5 DEF Asserted, WriteTemp, Raises
<1>6. CASE Judged
  BY <1>6 DEF Judged, MayReplace, Reject, Raises, SeenSet
<1>7. CASE Rereported
  BY <1>7 DEF Rereported
<1>8. CASE Remediated
  BY <1>8 DEF Remediated
<1>9. CASE Converted
  BY <1>9 DEF Converted
<1>10. CASE Planned
  BY <1>10 DEF Planned
<1>11. CASE Printed
  BY <1>11 DEF Printed
<1>12. CASE Packed
  BY <1>12 DEF Packed
<1>13. CASE Delete
  BY <1>13 DEF Delete, NoRow
<1>14. CASE LateWrite
  BY <1>14 DEF LateWrite
<1>15. CASE files' = files
  BY <1>15
<1> QED
  BY <1>1, <1>2, <1>3, <1>4, <1>5, <1>6, <1>7, <1>8, <1>9, <1>10, <1>11, <1>12,
     <1>13, <1>14, <1>15
     DEF Next, vars,
         CallRaises, StageUpdateRaises, CallTimesOut, ReportUnexpected,
         WorkerReports, Started, Accepted, Audited, Probed, Extracted, Composed,
         Checked, OfficeAudited, DocExtracted, Verified, Cancel, Done

\* What a step can do to the row: nothing, remove it, or settle it once, from a
\* handler that has not ended.
LEMMA RowMoves ==
  ASSUME TypeOK, [Next]_vars
  PROVE  \/ row' = row
         \/ row' = NoRow
         \/ /\ pc \notin Finished
            /\ row.status # "none"
            /\ row'.status \in {"done", "failed"}
<1> USE DEF Finished
<1>1. CASE ReportUnexpected \/ WorkerReports
  BY <1>1, SettleMoves DEF ReportUnexpected, WorkerReports
<1>2. CASE Reported
  <2>1. Concluded("out", row.tier, TRUE)
    BY <1>2, ReportedConcludes DEF Reported, TypeOK, SeenSet
  <2> QED
    BY <1>2, <2>1 DEF Reported, Concluded
<1>3. CASE Probed \/ Extracted \/ Composed
  BY <1>3, SettleMoves DEF Probed, Extracted, Composed, RebuildFails
<1>4. CASE Rendered
  BY <1>4, SettleMoves DEF Rendered, RebuildFails, WriteTemp
<1>5. CASE Asserted
  BY <1>5, SettleMoves DEF Asserted, RebuildFails, WriteTemp
<1>6. CASE Judged
  BY <1>6, SettleMoves DEF Judged, RebuildFails, Reject
<1>7. CASE Rereported
  BY <1>7, RereportedMoves DEF Rereported
<1>8. CASE Checked
  <2>1. UNCHANGED row \/ Concluded("out", row.tier, row.report)
    BY <1>8, OutConcludes DEF Checked
  <2> QED
    BY <1>8, <2>1 DEF Checked, Concluded
<1>9. CASE OfficeAudited
  <2>1. Concluded("out", row.tier, row.report)
    BY <1>9, AuditConcludes DEF OfficeAudited
  <2> QED
    BY <1>9, <2>1 DEF OfficeAudited, Concluded
<1>10. CASE Converted
  <2>1. UNCHANGED row \/ Concluded("out", row.tier, row.report)
    BY <1>10, OutConcludes DEF Converted
  <2> QED
    BY <1>10, <2>1 DEF Converted, Concluded
<1>11. CASE Planned
  BY <1>11, PlannedMoves DEF Planned
<1>12. CASE Printed
  <2>1. Concluded("out", row.tier, row.report)
    BY <1>12, OutConcludes DEF Printed
  <2> QED
    BY <1>12, <2>1 DEF Printed, Concluded
<1>13. CASE Packed
  BY <1>13, SettleMoves DEF Packed
<1>14. CASE Verified
  <2>1. Concluded("out", row.tier, row.report)
    BY <1>14, OutConcludes DEF Verified
  <2> QED
    BY <1>14, <2>1 DEF Verified, Concluded
<1>15. CASE Delete
  BY <1>15 DEF Delete
<1>16. CASE row' = row
  BY <1>16
<1> QED
  BY <1>1, <1>2, <1>3, <1>4, <1>5, <1>6, <1>7, <1>8, <1>9, <1>10, <1>11, <1>12,
     <1>13, <1>14, <1>15, <1>16
     DEF Next, vars, Enter, CallRaises, StageUpdateRaises, CallTimesOut, Started,
         Fixed, Accepted, Audited, Remediated, DocExtracted, Cancel, LateWrite, Done

\* A settled row has no handler, so a step of a handler settles only a running
\* one: it is a step of JobLifecycle or invisible to the client.
LEMMA StepFollowsLifecycle ==
  ASSUME TypeOK, EngineInv, [Next]_vars
  PROVE  [Lifecycle!Next]_JobState
<1>1. /\ JobState = [j \in {"job"} |-> JobState["job"]]
      /\ \A s : [JobState EXCEPT !["job"] = s] = [j \in {"job"} |-> s]
      /\ JobState["job"] = IF row.status = "none" THEN "gone" ELSE row.status
  BY DEF JobState
<1>2. row.status \in {"none", "running", "done", "failed"}
  BY DEF TypeOK, RowSet
<1>3. CASE row' = row
  BY <1>3 DEF JobState
<1>4. CASE row' = NoRow
  <2>1. JobState' = [j \in {"job"} |-> "gone"]
    BY <1>4 DEF JobState, NoRow
  <2>2. CASE row.status = "none"
    BY <2>1, <2>2 DEF JobState
  <2>3. CASE row.status # "none"
    <3>1. Lifecycle!Remove("job")
      BY <1>1, <1>2, <2>1, <2>3
         DEF Lifecycle!Remove, Lifecycle!Move, Lifecycle!Open, Lifecycle!Closed
    <3> QED
      BY <3>1 DEF Lifecycle!Next, Lifecycle!Step
  <2> QED
    BY <2>2, <2>3
<1>5. CASE /\ pc \notin Finished
           /\ row.status # "none"
           /\ row'.status \in {"done", "failed"}
  <2>1. row.status = "running"
    BY <1>2, <1>5 DEF EngineInv, DoneIsFinal, FaultsCounted, Finished
  <2>2. JobState' = [j \in {"job"} |-> row'.status]
    BY <1>5 DEF JobState
  <2>3. Lifecycle!Finish("job") \/ Lifecycle!Fail("job")
    BY <1>1, <1>5, <2>1, <2>2
       DEF Lifecycle!Finish, Lifecycle!Fail, Lifecycle!Move, Lifecycle!Open
  <2> QED
    BY <2>3 DEF Lifecycle!Next, Lifecycle!Step
<1> QED
  BY <1>3, <1>4, <1>5, RowMoves

-----------------------------------------------------------------------------
(* Theorems.                                                               *)

\* Every variable of a job keeps its type, for any kinds and any faults.
THEOREM EngineTypeCorrect == Spec => []TypeOK
<1>1. Init => TypeOK
  BY InitHasInv
<1>2. TypeOK /\ [Next]_vars => TypeOK'
  BY StepKeepsTypes
<1> QED
  BY <1>1, <1>2, PTL DEF Spec

\* The inductive invariant holds of every job.
THEOREM EngineInvHolds == Spec => []EngineInv
<1>1. Init => EngineInv
  BY InitHasInv
<1>2. TypeOK /\ TypeOK' /\ EngineInv /\ [Next]_vars => EngineInv'
  BY StepKeepsInv
<1> QED
  BY <1>1, <1>2, EngineTypeCorrect, PTL DEF Spec

\* A job that opted in to the rebuild tier is served a repaired PDF that passed or
\* a rebuilt one that passed every gate (engine_service.py:209-214).
THEOREM OptInIsServedAccepted == Spec => []OptInServesAccepted
<1>1. EngineInv => OptInServesAccepted
  BY DEF EngineInv, DoneIsFinal
<1> QED
  BY <1>1, EngineInvHolds, PTL

\* The rebuild tier never flattens a form (engine_service.py:594-596).
THEOREM FormsStayForms == Spec => []FormsNeverFlattened
<1>1. EngineInv => FormsNeverFlattened
  BY DEF EngineInv, RebuiltOnDisk, RebuildAccepted, FormsNeverFlattened
<1> QED
  BY <1>1, EngineInvHolds, PTL

\* A finished PDF job names a report only about the PDF it serves.
THEOREM ReportsDescribeServed == Spec => []ReportDescribesServed
<1>1. EngineInv => ReportDescribesServed
  BY DEF EngineInv, DoneIsFinal
<1> QED
  BY <1>1, EngineInvHolds, PTL

\* A finished job names a file that exists, for the kinds that look.
THEOREM DoneJobsHaveOutput == Spec => []DoneHasOutput
<1>1. EngineInv => DoneHasOutput
  BY DEF EngineInv, DoneIsFinal
<1> QED
  BY <1>1, EngineInvHolds, PTL

\* No handler that ends leaves the rebuild tier's temporary PDF behind.
THEOREM TempIsRemoved == Spec => []NoTempLeft
<1>1. EngineInv => NoTempLeft
  BY DEF EngineInv, TempByPlace, NoTempLeft
<1> QED
  BY <1>1, EngineInvHolds, PTL

\* A repaired Office file is served whatever its gate or audit say.
THEOREM OfficeOutputIsKept == Spec => []OfficeKeepsOutput
<1>1. TypeOK /\ EngineInv => OfficeKeepsOutput
  BY DEF TypeOK, RowSet, EngineInv, OfficeFailures, FaultsCounted, EndedRowsSettled,
         OfficeKeepsOutput
<1> QED
  BY <1>1, EngineTypeCorrect, EngineInvHolds, PTL

\* A handler that ends leaves its row running only after the faults that explain it.
THEOREM EndedJobsAreSettled == Spec => []EndedRowsSettled
<1>1. EngineInv => EndedRowsSettled
  BY DEF EngineInv, FaultsCounted
<1> QED
  BY <1>1, EngineInvHolds, PTL

\* No handler ends with a model client or browser it started still open.
THEOREM ClientsAreClosed == Spec => []ClientsClosed
<1>1. EngineInv => ClientsClosed
  BY DEF EngineInv, ClientByPlace, ClientsClosed, Finished
<1> QED
  BY <1>1, EngineInvHolds, PTL

\* The repaired PDF of the first tier stays until a rebuilt one has passed every
\* gate, or the job is deleted (engine_service.py:766-768).
THEOREM FirstTierSurvives == Spec => Tier1Survives
<1>1. ASSUME TypeOK, EngineInv, [Next]_vars, files.out = "repaired"
      PROVE  \/ files'.out = "repaired"
             \/ files'.out = "rebuilt" /\ RebuildAccepted'
             \/ row'.status = "none"
  BY <1>1, OutputMoves DEF EngineInv, EscalationByPlace, GatesPassed, RebuildAccepted,
     RebuildOnly, AfterProbe, RebuildCalls
<1> QED
  BY <1>1, EngineTypeCorrect, EngineInvHolds, PTL DEF Spec, Tier1Survives

\* Whatever raises and whoever deletes or stops it, a handler settles its job at
\* most once and never brings back a removed row: jobs.py:151 through
\* engine_service.py takes a job through the life of JobLifecycle.
THEOREM HandlersFollowLifecycle == Spec => HandlerFollowsLifecycle
<1>1. TypeOK /\ EngineInv /\ [Next]_vars => [Lifecycle!Next]_JobState
  BY StepFollowsLifecycle
<1> QED
  BY <1>1, EngineTypeCorrect, EngineInvHolds, PTL DEF Spec, HandlerFollowsLifecycle

-----------------------------------------------------------------------------
(* Every handler runs out of steps.                                        *)

\* How many awaits at most lie between this place and the end of the handler.
Ahead(place) ==
  CASE place = "entering"    -> 13 [] place = "fixing"     -> 12
    [] place = "accepting"   -> 11 [] place = "probing"    -> 10
    [] place = "starting"    -> 9  [] place = "extracting" -> 8
    [] place = "composing"   -> 7  [] place = "rendering"  -> 6
    [] place = "remediating" -> 6
    [] place \in {"asserting", "checking"}            -> 5
    [] place \in {"judging", "auditing", "packing"}   -> 4
    [] place \in {"rereporting", "reporting", "converting", "planning",
                  "printing", "verifying"}            -> 3
    [] place = "unexpected"  -> 2  [] place = "raised"     -> 1
    [] place \in Finished    -> 0

\* A thread left behind writes once, and a row is deleted once.
StepsLeft ==
  2 * Ahead(pc) + (IF late = "none" THEN 0 ELSE 1) + (IF row.status = "none" THEN 0 ELSE 1)

\* Every step uses up some of the steps that are left.
HandlerRunsDown == [](StepsLeft \in 0..28) /\ [][StepsLeft' < StepsLeft]_vars

LEMMA AheadFacts ==
  /\ Ahead("entering") = 13 /\ Ahead("fixing") = 12 /\ Ahead("accepting") = 11
  /\ Ahead("probing") = 10 /\ Ahead("starting") = 9 /\ Ahead("extracting") = 8
  /\ Ahead("composing") = 7 /\ Ahead("rendering") = 6 /\ Ahead("remediating") = 6
  /\ Ahead("asserting") = 5 /\ Ahead("checking") = 5
  /\ Ahead("judging") = 4 /\ Ahead("auditing") = 4 /\ Ahead("packing") = 4
  /\ Ahead("rereporting") = 3 /\ Ahead("reporting") = 3 /\ Ahead("converting") = 3
  /\ Ahead("planning") = 3 /\ Ahead("printing") = 3 /\ Ahead("verifying") = 3
  /\ Ahead("unexpected") = 2 /\ Ahead("raised") = 1
  /\ Ahead("ended") = 0 /\ Ahead("cancelled") = 0
  BY DEF Ahead, Finished

LEMMA AheadType == \A place \in Places : Ahead(place) \in 0..13
  BY AheadFacts DEF Places, Calls, RebuildCalls, Finished

LEMMA CallsAreAhead == \A place \in Calls : Ahead(place) >= 3
  BY AheadFacts DEF Calls, RebuildCalls

\* The ways out of a handler.
Out == {"ended", "raised", "unexpected"}

LEMMA WaysOut ==
  /\ \A r : Finish(r) => pc' \in Out
  /\ RebuildFails => pc' \in Out
  /\ Raises => pc' \in Out
  BY DEF Out, Finish, RebuildFails, Settle, Raises

LEMMA OutIsNear == \A place \in Out : Ahead(place) <= 2
  BY AheadFacts DEF Out

\* A handler of any kind that goes on is nearer to its end.
LEMMA HandlerComesNearer ==
  ASSUME TypeOK, Next
  PROVE  \/ Ahead(pc') < Ahead(pc)
         \/ UNCHANGED vars
         \/ Delete
         \/ LateWrite
<1>. USE DEF TypeOK
<1>1. CASE Enter
  <2>1. pc = "entering" /\ pc' \in {"fixing", "remediating", "packing", "starting"}
    BY <1>1 DEF Enter, First
  <2>. QED
    BY <2>1, AheadFacts
<1>2. CASE CallRaises \/ StageUpdateRaises \/ CallTimesOut
  <2>1. pc \in Calls /\ pc' \in Out
    BY <1>2, WaysOut DEF CallRaises, StageUpdateRaises, CallTimesOut, Calls, Timed
  <2>2. Ahead(pc) >= 3
    BY <2>1, CallsAreAhead
  <2>3. Ahead(pc') <= 2
    BY <2>1, OutIsNear
  <2>4. pc \in Places /\ pc' \in Places
    BY <2>1 DEF Places, Finished, Out
  <2>5. Ahead(pc) \in 0..13 /\ Ahead(pc') \in 0..13
    BY <2>4, AheadType
  <2>. QED
    BY <2>2, <2>3, <2>5
<1>3. CASE ReportUnexpected \/ WorkerReports
  <2>1. \/ pc = "unexpected" /\ pc' \in {"ended", "raised"}
        \/ pc = "raised" /\ pc' = "ended"
    BY <1>3 DEF ReportUnexpected, WorkerReports, Settle
  <2>. QED
    BY <2>1, AheadFacts
<1>4. CASE Started \/ Fixed \/ Accepted \/ Audited \/ DocExtracted \/ Remediated
  <2>1. \/ pc = "starting" /\ pc' \in {"planning", "printing", "extracting"}
        \/ pc = "fixing" /\ pc' = "accepting"
        \/ pc = "accepting" /\ pc' \in {"probing", "auditing", "reporting"}
        \/ pc = "auditing" /\ pc' = "reporting"
        \/ pc = "extracting" /\ pc' = "converting"
        \/ pc = "remediating" /\ pc' = "checking"
    BY <1>4 DEF Started, Fixed, Accepted, Audited, DocExtracted, Remediated
  <2>. QED
    BY <2>1, AheadFacts
<1>5. CASE Reported \/ Rereported \/ Converted \/ Planned \/ Printed \/ Verified \/ OfficeAudited
  <2>1. /\ pc \in {"reporting", "rereporting", "converting", "planning", "printing",
                   "verifying", "auditing"}
        /\ pc' \in Out
    BY <1>5, WaysOut
       DEF Reported, Rereported, Converted, Planned, Printed, Verified, OfficeAudited
  <2>2. Ahead(pc) >= 3
    BY <2>1, AheadFacts
  <2>. QED
    BY <2>1, <2>2, AheadFacts DEF Out
<1>6. CASE Probed \/ Extracted \/ Composed
  <2>1. \/ pc = "probing" /\ pc' \in Out \cup {"starting"}
        \/ pc = "extracting" /\ pc' \in Out \cup {"composing"}
        \/ pc = "composing" /\ pc' \in Out \cup {"rendering"}
    BY <1>6, WaysOut DEF Probed, Extracted, Composed
  <2>. QED
    BY <2>1, AheadFacts DEF Out
<1>7. CASE Rendered \/ Asserted
  <2>1. \/ pc = "rendering" /\ pc' \in Out \cup {"judging", "asserting"}
        \/ pc = "asserting" /\ pc' \in Out \cup {"judging"}
    BY <1>7, WaysOut DEF Rendered, Asserted, WriteTemp
  <2>. QED
    BY <2>1, AheadFacts DEF Out
<1>8. CASE Judged
  <2>1. pc = "judging" /\ pc' \in Out \cup {"rereporting"}
    BY <1>8, WaysOut DEF Judged, Reject
  <2>. QED
    BY <2>1, AheadFacts DEF Out
<1>9. CASE Checked
  <2>1. pc = "checking" /\ pc' \in Out \cup {"auditing"}
    BY <1>9, WaysOut DEF Checked
  <2>. QED
    BY <2>1, AheadFacts DEF Out
<1>10. CASE Packed
  BY <1>10, AheadFacts DEF Packed, Settle
<1>11. CASE Cancel
  <2>1. Ahead(pc) >= 1
    BY <1>11, AheadFacts DEF Cancel, Places, Calls, RebuildCalls, Finished
  <2>2. Ahead(pc') = 0
    BY <1>11, AheadFacts DEF Cancel
  <2>. QED
    BY <2>1, <2>2, AheadType
<1>12. CASE Done
  BY <1>12 DEF Done
<1>. QED
  BY <1>1, <1>2, <1>3, <1>4, <1>5, <1>6, <1>7, <1>8, <1>9, <1>10, <1>11, <1>12 DEF Next

\* Whatever fails, times out, is cancelled or deleted, a handler has fewer steps
\* left after every step, of at most 28: none of the layers of except hands a
\* failure back to a call made before it (engine_service.py:144-390, jobs.py:298).
THEOREM HandlersRunOut == Spec => HandlerRunsDown
<1>. DEFINE one(x) == IF x = "none" THEN 0 ELSE 1
<1>1. StepsLeft = 2 * Ahead(pc) + one(late) + one(row.status)
  BY DEF StepsLeft
<1>2. TypeOK => StepsLeft \in 0..28
  <2>1. SUFFICES ASSUME TypeOK PROVE StepsLeft \in 0..28
    OBVIOUS
  <2>2. \A m \in 0..13 : \A i, j \in 0..1 : 2 * m + i + j \in 0..28
    OBVIOUS
  <2>3. Ahead(pc) \in 0..13 /\ one(late) \in 0..1 /\ one(row.status) \in 0..1
    BY <2>1, AheadType DEF TypeOK
  <2>. QED
    BY <1>1, <2>2, <2>3
<1>3. ASSUME TypeOK, TypeOK', Next, ~UNCHANGED vars
      PROVE  StepsLeft' < StepsLeft
  <2>1. Ahead(pc) \in 0..13 /\ Ahead(pc') \in 0..13
    BY <1>3, AheadType DEF TypeOK
  <2>2. StepsLeft' = 2 * Ahead(pc') + one(late') + one(row'.status)
    BY DEF StepsLeft
  <2>3. row.status = "none" => row'.status = "none"
    BY <1>3, RowMoves DEF NoRow
  <2>4. CASE Ahead(pc') < Ahead(pc)
    <3>1. \A m, n \in 0..13 : m < n => 2 * m + 2 <= 2 * n
      OBVIOUS
    <3>2. one(row'.status) <= one(row.status) /\ one(late') <= one(late) + 1
      BY <2>3
    <3>3. 2 * Ahead(pc') + 2 <= 2 * Ahead(pc)
      BY <2>1, <2>4, <3>1
    <3>. QED
      BY <1>1, <2>1, <2>2, <3>2, <3>3
  <2>5. CASE Delete
    BY <1>1, <2>1, <2>2, <2>5 DEF Delete, NoRow
  <2>6. CASE LateWrite
    BY <1>1, <2>1, <2>2, <2>6 DEF LateWrite
  <2>. QED
    BY <1>3, <2>4, <2>5, <2>6, HandlerComesNearer
<1>. QED
  BY <1>2, <1>3, EngineTypeCorrect, PTL DEF Spec, HandlerRunsDown
=============================================================================
