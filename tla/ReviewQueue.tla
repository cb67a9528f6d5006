------------------------------ MODULE ReviewQueue ------------------------------
(***************************************************************************)
(* The specialist review queue: a JSONL file that the server rewrites      *)
(* (claim, completion) and the sampler, another process, appends to;       *)
(* annotations with their manifest, which the annotate tool writes too,    *)
(* and judge calibrations are stored beside it.  The handlers never await, *)
(* so the server serves one of these requests at a time, but the other     *)
(* processes run between its reads and writes, and a crash may stop it     *)
(* there.                                                                  *)
(*                                                                         *)
(* A document stands for its id with its format.  Nobody but the sampler   *)
(* adds rows, and only at the end: what the server has read is a prefix of *)
(* the file, given by its length.  One sampler and one annotate tool run   *)
(* at a time.  The log of submissions is written last, to a file nothing   *)
(* reads, and is left out.                                                 *)
(***************************************************************************)
EXTENDS Naturals, FiniteSets, Sequences

CONSTANTS
  Docs, Reviewers, NoOne,
  Someone,       \* author of what is annotated with the tool
  Torn,          \* author of an annotation file that is empty or no JSON
  Measurements,  \* keys of judge_calibration: judge, version, format, dimension, time
  MaxRows,       \* bound: rows of the file
  MaxEdits       \* bound: runs of the annotate tool

ASSUME ReviewAssumption ==
  /\ {NoOne, Torn} \cap (Reviewers \cup {Someone}) = {} /\ NoOne # Torn
  /\ MaxRows \in Nat /\ MaxEdits \in Nat

VARIABLES
  queue,        \* quality_review_queue.jsonl
  annotations,  \* author of each document's annotation file
  manifest,     \* documents in manifest.jsonl
  calibration,  \* rows of judge_calibration
  server,       \* the request being served
  sampler,      \* the sampler's progress
  tool,         \* the annotate tool's progress
  edits,        \* runs of the tool so far
  harmed        \* history: documents whose annotation the tool has opened since
                \* the server did, or whose row a rewrite of the manifest lost

corpus == <<annotations, manifest>>
stores == <<corpus, calibration>>
others == <<tool, edits>>
vars == <<queue, stores, server, sampler, others, harmed>>

-----------------------------------------------------------------------------
(* Vocabulary.                                                             *)

\* completedBy is completed_by; both names are "" in the code for nobody.
Row == [doc : Docs, status : {"queued", "claimed", "completed"},
        claimedBy : Reviewers \cup {NoOne}, completedBy : Reviewers \cup {NoOne}]

Queued(d) == [doc |-> d, status |-> "queued", claimedBy |-> NoOne, completedBy |-> NoOne]

\* Claim, submission and completion all stop at the first row of the document.
First(q, d) == {i \in DOMAIN q : q[i].doc = d /\ \A j \in 1..(i - 1) : q[j].doc # d}

Idle == [stage |-> "idle"]

\* The annotation of a submission: absent, null, or an object.  With rows null is as
\* good as absent, and without an object there is nothing to overwrite.
Annotated == {"absent", "null", "object"}
Submissions ==
  {s \in [doc : Docs, who : Reviewers, annotation : Annotated, rows : SUBSET Measurements,
          overwrite : BOOLEAN] :
     (s.annotation = "null" => s.rows = {}) /\ (s.overwrite => s.annotation = "object")}

Init ==
  /\ queue = <<>>
  /\ annotations = [d \in Docs |-> NoOne] /\ manifest = {}
  /\ calibration = {} /\ harmed = {}
  /\ server = Idle /\ sampler = Idle /\ tool = Idle /\ edits = 0

-----------------------------------------------------------------------------
(* The server rewrites the queue: a temporary file renamed over it.        *)

\* The rows read, with row i changed; rows appended since are gone, and a
\* sampler that has opened the old file writes where nobody looks.
Rewrite(n, i, row) ==
  /\ queue' = [SubSeq(queue, 1, n) EXCEPT ![i] = row]
  /\ sampler' = IF sampler.stage = "open" THEN [sampler EXCEPT !.stage = "orphaned"] ELSE sampler

\* Defect: a claim is open to everyone.
MayClaim_Anyone(row, r) == row.status # "completed"

MayClaim(row, r) == row.status # "completed" /\ row.claimedBy \in {NoOne, r}

ClaimRead(d, r) ==
  /\ server = Idle
  /\ \E i \in First(queue, d) :
       /\ MayClaim(queue[i], r)
       /\ server' = [stage |-> "claiming", row |-> i, who |-> r, read |-> Len(queue)]
  /\ UNCHANGED <<queue, stores, sampler, others, harmed>>

ClaimWrite ==
  /\ server.stage = "claiming"
  /\ Rewrite(server.read, server.row,
             [queue[server.row] EXCEPT !.status = "claimed", !.claimedBy = server.who])
  /\ server' = Idle
  /\ UNCHANGED <<stores, others, harmed>>

-----------------------------------------------------------------------------
(* write_annotation_record behind its check, step by step, for the process *)
(* whose progress w is: the server, with a submission, or the annotate     *)
(* tool.                                                                   *)

Goes(w, stage) == w' = [w EXCEPT !.stage = stage]

\* write_text empties the file, whatever has been put there since the check.
Truncate(w) ==
  /\ w.stage = "opening"
  /\ annotations' = [annotations EXCEPT ![w.sub.doc] = Torn]
  /\ Goes(w, "filling")
  /\ UNCHANGED manifest

\* Its text goes over the text of another process: the longer one's end stays.
Fill(w) ==
  /\ w.stage = "filling"
  /\ \E a \in {w.sub.who} \cup ({Torn} \ {annotations[w.sub.doc]}) :
       annotations' = [annotations EXCEPT ![w.sub.doc] = a]
  /\ Goes(w, "listing")
  /\ UNCHANGED <<manifest, harmed>>

\* _write_manifest_row: one line appended, or the whole file read first.
ReadManifest(w) ==
  /\ w.stage = "listing" /\ w.sub.overwrite
  /\ w' = [stage |-> "rewriting", sub |-> w.sub, rows |-> manifest \cup {w.sub.doc}]
  /\ UNCHANGED <<corpus, harmed>>

\* write_text again: the rows that were not read are lost for good.
EmptyManifest(w) ==
  /\ w.stage = "rewriting"
  /\ manifest' = {}
  /\ harmed' = harmed \cup (manifest \ w.rows)
  /\ Goes(w, "writing")
  /\ UNCHANGED annotations

\* The text goes over what was put there since; rows behind its end may stay.
FillManifest(w) ==
  /\ w.stage = "writing"
  /\ \E left \in SUBSET manifest : manifest' = w.rows \cup left
  /\ harmed' = harmed \cup (manifest \ manifest')
  /\ UNCHANGED annotations

AppendRow(w) ==
  /\ w.stage = "listing" /\ ~w.sub.overwrite
  /\ manifest' = manifest \cup {w.sub.doc}
  /\ UNCHANGED <<annotations, harmed>>

\* Killed, or a call of it raises: what it was about to write back is lost.
Dies(w) ==
  /\ w # Idle /\ w' = Idle
  /\ harmed' = IF w.stage = "writing" THEN harmed \cup (w.rows \ manifest) ELSE harmed
  /\ UNCHANGED <<queue, stores>>

-----------------------------------------------------------------------------
(* A submission: every check first, then one store after another.          *)

\* Defect: any evidence will do for queued work.
MayComplete_AnyEvidence(row, s) ==
  row.status # "completed" /\ row.claimedBy \in {NoOne, s.who}

\* _assert_review_submitter_can_complete
MayComplete(row, s) ==
  row.status # "completed" /\ row.claimedBy \in {NoOne, s.who} /\ s.annotation = "object"

HasEvidence(s) == s.annotation # "absent" \/ s.rows # {}

Submit(s) ==
  /\ server = Idle
  /\ s.rows \cap calibration = {}
  /\ \A i \in First(queue, s.doc) : MayComplete(queue[i], s)
  /\ HasEvidence(s)
  /\ server' = [stage |-> "annotating", sub |-> s]
  /\ UNCHANGED <<queue, stores, sampler, others, harmed>>

To(stage) == server' = [stage |-> stage, sub |-> server.sub]

\* The file is not there yet, or may be replaced.
Check ==
  /\ server.stage = "annotating"
  /\ annotations[server.sub.doc] = NoOne \/ server.sub.overwrite
  /\ Goes(server, "opening")
  /\ UNCHANGED <<corpus, harmed>>

\* The annotation is refused: invalid, bound to another source, or there already.
Refuse == server.stage = "annotating" /\ server' = Idle /\ UNCHANGED <<corpus, harmed>>

\* What the tool has opened and not yet written stays in its hands.
OpenForServer ==
  /\ Truncate(server)
  /\ harmed' = IF tool.stage = "filling" /\ tool.sub.doc = server.sub.doc THEN harmed
               ELSE harmed \ {server.sub.doc}

\* _write_annotation_if_present
Annotate ==
  /\ server.stage \in {"annotating", "opening", "filling"}
  /\ IF server.sub.annotation = "object"
     THEN Refuse \/ Check \/ OpenForServer \/ Fill(server)
     ELSE To("recording") /\ UNCHANGED <<corpus, harmed>>
  /\ UNCHANGED <<queue, calibration, sampler, others>>

List ==
  /\ \/ ReadManifest(server) \/ EmptyManifest(server)
     \/ (FillManifest(server) \/ AppendRow(server)) /\ To("recording")
  /\ UNCHANGED <<queue, calibration, sampler, others>>

\* One row, one transaction; the primary key refuses what another process has
\* recorded since the check, and the request ends there with an error.
Record ==
  /\ server.stage = "recording"
  /\ \E m \in server.sub.rows :
       IF m \in calibration THEN server' = Idle /\ UNCHANGED calibration
       ELSE /\ calibration' = calibration \cup {m}
            /\ server' = [server EXCEPT !.sub.rows = @ \ {m}]
  /\ UNCHANGED <<queue, corpus, sampler, others, harmed>>

\* _mark_review_completed_if_present reads the queue again, but checks no more.
CompleteRead ==
  /\ server.stage = "recording" /\ server.sub.rows = {}
  /\ IF First(queue, server.sub.doc) = {} THEN server' = Idle
     ELSE server' = [stage |-> "completing", sub |-> server.sub, read |-> Len(queue)]
  /\ UNCHANGED <<queue, stores, sampler, others, harmed>>

CompleteWrite ==
  /\ server.stage = "completing"
  /\ \E i \in First(queue, server.sub.doc) :
       Rewrite(server.read, i,
               [queue[i] EXCEPT !.status = "completed", !.completedBy = server.sub.who])
  /\ server' = Idle
  /\ UNCHANGED <<stores, others, harmed>>

-----------------------------------------------------------------------------
(* Other processes, and crashes.                                           *)

\* Defect: only rows nobody has claimed keep a document out.
Open_Unclaimed(d) == \E i \in DOMAIN queue : queue[i].doc = d /\ queue[i].status = "queued"

\* _dedupe_new_queue_items: completed rows do not count.
Open(d) == \E i \in DOMAIN queue : queue[i].doc = d /\ queue[i].status # "completed"

SampleRead(d) ==
  /\ sampler = Idle /\ Len(queue) < MaxRows
  /\ ~Open(d)
  /\ sampler' = [stage |-> "read", doc |-> d]
  /\ UNCHANGED <<queue, stores, server, others, harmed>>

SampleOpen ==
  /\ sampler.stage = "read"
  /\ sampler' = [sampler EXCEPT !.stage = "open"]
  /\ UNCHANGED <<queue, stores, server, others, harmed>>

\* The rows are written when the file is closed.
SampleWrite ==
  /\ sampler.stage \in {"open", "orphaned"}
  /\ queue' = IF sampler.stage = "open" THEN Append(queue, Queued(sampler.doc)) ELSE queue
  /\ sampler' = Idle
  /\ UNCHANGED <<stores, server, others, harmed>>

\* tools/calibrate_judges.py
Calibrate(m) ==
  /\ m \notin calibration
  /\ calibration' = calibration \cup {m}
  /\ UNCHANGED <<queue, corpus, server, sampler, others, harmed>>

\* annotate_corpus.py annotate: it knows neither queue nor claims.  It comes into
\* play with its check, before which it touches nothing.
ToolStart(d, overwrite) ==
  /\ tool = Idle /\ edits < MaxEdits
  /\ annotations[d] = NoOne \/ overwrite
  /\ edits' = edits + 1
  /\ tool' = [stage |-> "opening", sub |-> [doc |-> d, who |-> Someone, overwrite |-> overwrite]]
  /\ UNCHANGED <<queue, stores, server, sampler, harmed>>

ToolWrite ==
  /\ \/ Truncate(tool) /\ harmed' = harmed \cup {tool.sub.doc}
     \/ Fill(tool) \/ ReadManifest(tool) \/ EmptyManifest(tool)
     \/ (FillManifest(tool) \/ AppendRow(tool)) /\ tool' = Idle
  /\ UNCHANGED <<queue, calibration, server, sampler, edits>>

\* What was done stays done; a temporary file nobody renamed is overwritten later.
ServerCrash == Dies(server) /\ UNCHANGED <<sampler, others>>
ToolDies    == Dies(tool) /\ UNCHANGED <<server, sampler, edits>>
SamplerDies == sampler # Idle /\ sampler' = Idle /\ UNCHANGED <<queue, stores, server, others, harmed>>

Next ==
  \/ \E d \in Docs : SampleRead(d) \/ \E r \in Reviewers : ClaimRead(d, r)
  \/ \E s \in Submissions : Submit(s)
  \/ \E m \in Measurements : Calibrate(m)
  \/ \E d \in Docs, overwrite \in BOOLEAN : ToolStart(d, overwrite)
  \/ ClaimWrite \/ Annotate \/ List \/ Record \/ CompleteRead \/ CompleteWrite
  \/ SampleOpen \/ SampleWrite \/ ToolWrite
  \/ ServerCrash \/ SamplerDies \/ ToolDies

Spec == Init /\ [][Next]_vars

-----------------------------------------------------------------------------
(* Properties.                                                             *)

Edits == [doc : Docs, who : {Someone}, overwrite : BOOLEAN]
Before == {"opening", "filling", "listing"}
Rewriting == {"rewriting", "writing"}

ServerStates ==
  {Idle}
  \cup [stage : {"claiming"}, row : Nat, who : Reviewers, read : Nat]
  \cup [stage : Before \cup {"annotating", "recording"}, sub : Submissions]
  \cup [stage : Rewriting, sub : Submissions, rows : SUBSET Docs]
  \cup [stage : {"completing"}, sub : Submissions, read : Nat]

TypeOK ==
  /\ queue \in Seq(Row)
  /\ annotations \in [Docs -> Reviewers \cup {NoOne, Someone, Torn}]
  /\ manifest \subseteq Docs /\ harmed \subseteq Docs /\ calibration \subseteq Measurements
  /\ server \in ServerStates
  /\ tool \in {Idle} \cup [stage : Before, sub : Edits]
                     \cup [stage : Rewriting, sub : Edits, rows : SUBSET Docs]
  /\ edits \in Nat
  /\ sampler \in {Idle} \cup [stage : {"read", "open", "orphaned"}, doc : Docs]

\* However sampler and server interleave, a document never has two rows that
\* await review (sample_quality_reviews.py:254-270).
OneOpenRow ==
  \A i, j \in DOMAIN queue :
    queue[i].doc = queue[j].doc /\ queue[i].status # "completed" /\ queue[j].status # "completed"
      => i = j

\* Rewriting the file may drop rows appended meanwhile, never a claim or a
\* completion; a claim passes to nobody else and only its holder completes it
\* (quality_routes.py:970).
Survives(row, to) ==
  \/ to = row
  \/ /\ row.status = "claimed" /\ to.status = "completed"
     /\ to.doc = row.doc /\ to.claimedBy = row.claimedBy /\ to.completedBy = row.claimedBy

ReviewsAreNeverLost ==
  [][\A i \in DOMAIN queue :
       queue[i].status # "queued" => i \in DOMAIN queue' /\ Survives(queue[i], queue'[i])]_vars

\* A process has the document's row in memory and writes it back next.
InRewrite(d) == \E w \in {server, tool} : w.stage = "writing" /\ d \in w.rows

\* A claimed review that counts as completed has its holder's annotation on disk
\* and in the manifest, wherever a crash or a refused row stopped earlier
\* submissions (quality_routes.py:583-596).  Only the annotate tool takes the
\* annotation away, and only a rewrite of the manifest that is cut off, or that
\* did not see the row, takes the row (annotate_corpus.py:729-746).
ClaimedWorkIsAnnotated ==
  \A i \in DOMAIN queue :
    queue[i].status = "completed" /\ queue[i].claimedBy # NoOne /\ queue[i].doc \notin harmed =>
      /\ annotations[queue[i].doc] = queue[i].claimedBy
      /\ queue[i].doc \in manifest \/ InRewrite(queue[i].doc)

\* What the server answers otherwise (quality_routes.py:992): "queued review
\* completion requires annotation evidence".
CompletedIsAnnotated ==
  \A i \in DOMAIN queue : queue[i].status = "completed" => annotations[queue[i].doc] # NoOne
=============================================================================
