--------------------------- MODULE ReviewQueueProofs ---------------------------
(***************************************************************************)
(* Proofs about the review queue, for any documents, reviewers, keys and   *)
(* any length of the file.  The argument: what a request has checked when  *)
(* it read the queue still holds when it writes, since all that happens in *)
(* between is that the sampler appends queued rows at the end.  And a      *)
(* document nothing has harmed keeps its annotation, and its manifest row  *)
(* on disk or in the hands of the process that is about to write it back.  *)
(***************************************************************************)
EXTENDS ReviewQueue, TLAPS

\* A row nobody claimed is nobody's; one that left "queued" is the first of
\* its document, the one the handlers look at.
RowsInv ==
  \A i \in DOMAIN queue :
    /\ queue[i].status # "queued" => i \in First(queue, queue[i].doc)
    /\ queue[i].status = "queued" => queue[i].claimedBy = NoOne
    /\ queue[i].status = "claimed" => queue[i].claimedBy # NoOne

\* Rows appended after a handler has read the file are queued.
SinceRead(n) == n <= Len(queue) /\ \A j \in DOMAIN queue : j > n => queue[j].status = "queued"

ClaimInv ==
  server.stage = "claiming" =>
    /\ SinceRead(server.read)
    /\ server.row \in 1..server.read
    /\ server.row \in First(queue, queue[server.row].doc)
    /\ MayClaim(queue[server.row], server.who)

\* A submission on its way through the stores.
Submitting == Before \cup Rewriting \cup {"annotating", "recording"}

\* From the checks to the completion, the document's row stays open to the
\* submission.
SubmitInv ==
  server.stage \in Submitting \cup {"completing"} =>
    \A i \in First(queue, server.sub.doc) :
      /\ queue[i].status # "completed"
      /\ queue[i].claimedBy \in {NoOne, server.sub.who}
      /\ queue[i].claimedBy # NoOne => server.sub.annotation = "object"

CompleteInv ==
  server.stage = "completing" =>
    /\ SinceRead(server.read)
    /\ \E i \in First(queue, server.sub.doc) : i <= server.read

SamplerInv == sampler.stage \in {"read", "open"} => ~Open(sampler.doc)

ServerInv == ClaimInv /\ SubmitInv /\ CompleteInv

QueueInv ==
  /\ TypeOK
  /\ RowsInv /\ OneOpenRow
  /\ ServerInv
  /\ SamplerInv

\* The document's manifest row is where it belongs, or will be, or was lost.
Listed(d) == d \in manifest \/ InRewrite(d) \/ d \in harmed

\* What a submission has written is there, unless the tool has written since.
AnnotationInv ==
  LET s == server.sub
  IN  /\ server.stage \in {"opening", "filling", "listing"} \cup Rewriting => s.annotation = "object"
      /\ server.stage = "filling" /\ s.doc \notin harmed => annotations[s.doc] = Torn
      /\ server.stage \in {"listing", "recording", "completing"} \cup Rewriting
           /\ s.annotation = "object" /\ s.doc \notin harmed => annotations[s.doc] = s.who
      /\ server.stage \in Rewriting => s.doc \in server.rows
      /\ server.stage \in {"recording", "completing"} /\ s.annotation = "object" => Listed(s.doc)

\* A document the tool is writing counts as harmed.
ToolInv == tool.stage = "filling" => tool.sub.doc \in harmed

CorpusInv == AnnotationInv /\ ToolInv /\ ClaimedWorkIsAnnotated

-----------------------------------------------------------------------------
(* The file and its first rows.                                            *)

\* Members of the server's states by stage.
LEMMA ServerShape ==
  ASSUME server \in ServerStates
  PROVE  /\ server.stage = "claiming" =>
              server \in [stage : {"claiming"}, row : Nat, who : Reviewers, read : Nat]
         /\ server.stage \in Before \cup {"annotating", "recording"} =>
              server \in [stage : Before \cup {"annotating", "recording"}, sub : Submissions]
         /\ server.stage \in Rewriting =>
              server \in [stage : Rewriting, sub : Submissions, rows : SUBSET Docs]
         /\ server.stage = "completing" =>
              server \in [stage : {"completing"}, sub : Submissions, read : Nat]
  BY DEF ServerStates, Idle, Before, Rewriting

\* Members of the tool's.
LEMMA ToolShape ==
  ASSUME TypeOK
  PROVE  /\ tool.stage \in Before => tool \in [stage : Before, sub : Edits]
         /\ tool.stage \in Rewriting =>
              tool \in [stage : Rewriting, sub : Edits, rows : SUBSET Docs]
  BY DEF TypeOK, Idle, Before, Rewriting

LEMMA QueuedIsRow ==
  ASSUME NEW d \in Docs
  PROVE  Queued(d) \in Row
  BY DEF Queued, Row

\* Appending leaves the old rows and adds one.
LEMMA AppendFacts ==
  ASSUME NEW q \in Seq(Row), NEW row \in Row
  PROVE  /\ Append(q, row) \in Seq(Row) /\ Len(Append(q, row)) = Len(q) + 1
         /\ \A j \in 1..Len(q) : Append(q, row)[j] = q[j]
         /\ Append(q, row)[Len(q) + 1] = row
  OBVIOUS

\* A rewrite of the first n rows changes row i and drops the rest.
LEMMA RewriteFacts ==
  ASSUME NEW q \in Seq(Row), NEW n \in Nat, n <= Len(q), NEW i \in 1..n, NEW row \in Row,
         NEW z, z = [SubSeq(q, 1, n) EXCEPT ![i] = row]
  PROVE  /\ z \in Seq(Row) /\ Len(z) = n
         /\ z[i] = row
         /\ \A j \in 1..n : j # i => z[j] = q[j]
<1>1. /\ SubSeq(q, 1, n) \in Seq(Row) /\ Len(SubSeq(q, 1, n)) = n
      /\ \A j \in 1..n : SubSeq(q, 1, n)[j] = q[j]
  OBVIOUS
<1> DEFINE s == SubSeq(q, 1, n)
<1>2. s \in Seq(Row) /\ Len(s) = n /\ \A j \in 1..n : s[j] = q[j]
  BY <1>1
<1>3. z = [s EXCEPT ![i] = row]
  OBVIOUS
<1> HIDE DEF s
<1> QED
  BY <1>2, <1>3

\* A document has at most one first row.
LEMMA FirstIsOne ==
  ASSUME NEW q \in Seq(Row), NEW d, NEW i \in First(q, d), NEW j \in First(q, d)
  PROVE  i = j
  BY DEF First

\* The first rows of two files whose common rows are of the same documents.
LEMMA FirstAgrees ==
  ASSUME NEW q \in Seq(Row), NEW z \in Seq(Row),
         \A j \in 1..Len(q) : j <= Len(z) => q[j].doc = z[j].doc
  PROVE  \A d : \A i \in 1..Len(q) : i <= Len(z) => (i \in First(q, d) <=> i \in First(z, d))
<1> SUFFICES ASSUME NEW d, NEW i \in 1..Len(q), i <= Len(z)
             PROVE  i \in First(q, d) <=> i \in First(z, d)
  OBVIOUS
<1>1. i \in 1..Len(z) /\ \A j \in 1..(i - 1) : j \in 1..Len(q) /\ j <= Len(z)
  OBVIOUS
<1>2. q[i].doc = z[i].doc /\ \A j \in 1..(i - 1) : q[j].doc = z[j].doc
  BY <1>1
<1> QED
  BY <1>1, <1>2 DEF First

-----------------------------------------------------------------------------
(* The two ways the file changes.                                          *)

\* The sampler appends a queued row of a document with none open.
LEMMA Appending ==
  ASSUME TypeOK, RowsInv, OneOpenRow,
         NEW d \in Docs, ~Open(d), queue' = Append(queue, Queued(d))
  PROVE  /\ queue' \in Seq(Row) /\ Len(queue') = Len(queue) + 1
         /\ \A j \in DOMAIN queue : j \in DOMAIN queue' /\ queue'[j] = queue[j]
         /\ queue'[Len(queue) + 1] = Queued(d)
         /\ RowsInv' /\ OneOpenRow'
         /\ \A e : First(queue, e) \subseteq First(queue', e)
         /\ \A e : \A i \in First(queue', e) : i \in First(queue, e) \/ queue'[i] = Queued(d)
         /\ \A n \in Nat : SinceRead(n) => SinceRead(n)'
<1>1. queue \in Seq(Row) /\ Queued(d) \in Row
  BY QueuedIsRow DEF TypeOK
<1>2. /\ queue' \in Seq(Row) /\ Len(queue') = Len(queue) + 1
      /\ \A j \in 1..Len(queue) : queue'[j] = queue[j]
      /\ queue'[Len(queue) + 1] = Queued(d)
  BY <1>1, AppendFacts
<1>3. /\ DOMAIN queue = 1..Len(queue) /\ DOMAIN queue' = 1..(Len(queue) + 1)
      /\ Len(queue) \in Nat
  BY <1>1, <1>2
<1>4. \A j \in DOMAIN queue : j \in DOMAIN queue' /\ queue'[j] = queue[j]
  BY <1>2, <1>3
<1>5. \A e : \A i \in 1..Len(queue) : i \in First(queue, e) <=> i \in First(queue', e)
  <2>1. \A j \in 1..Len(queue) : j <= Len(queue') => queue[j].doc = queue'[j].doc
    BY <1>2
  <2>2. \A e : \A i \in 1..Len(queue) :
          i <= Len(queue') => (i \in First(queue, e) <=> i \in First(queue', e))
    BY <1>1, <1>2, <2>1, FirstAgrees
  <2>3. \A i \in 1..Len(queue) : i <= Len(queue')
    BY <1>2, <1>3
  <2> QED
    BY <2>2, <2>3
<1>6. \A e : First(queue, e) \subseteq First(queue', e)
  BY <1>3, <1>5 DEF First
<1>7. \A e : \A i \in First(queue', e) : i \in First(queue, e) \/ queue'[i] = Queued(d)
  <2> TAKE e
  <2> TAKE i \in First(queue', e)
  <2>1. i \in 1..Len(queue) \/ i = Len(queue) + 1
    BY <1>3 DEF First
  <2> QED
    BY <1>2, <1>5, <2>1
<1>8. RowsInv'
  <2> SUFFICES ASSUME NEW i \in DOMAIN queue'
               PROVE  /\ queue'[i].status # "queued" => i \in First(queue', queue'[i].doc)
                      /\ queue'[i].status = "queued" => queue'[i].claimedBy = NoOne
                      /\ queue'[i].status = "claimed" => queue'[i].claimedBy # NoOne
    BY DEF RowsInv
  <2>1. CASE i \in DOMAIN queue
    BY <1>4, <1>6, <2>1 DEF RowsInv
  <2>2. CASE i = Len(queue) + 1
    BY <1>2, <2>2 DEF Queued
  <2> QED
    BY <1>3, <2>1, <2>2
<1>9. OneOpenRow'
  <2> SUFFICES ASSUME NEW i \in DOMAIN queue', NEW j \in DOMAIN queue',
                      queue'[i].doc = queue'[j].doc,
                      queue'[i].status # "completed", queue'[j].status # "completed"
               PROVE  i = j
    BY DEF OneOpenRow
  <2>1. CASE i \in DOMAIN queue /\ j \in DOMAIN queue
    BY <1>4, <2>1 DEF OneOpenRow
  <2>2. CASE i = Len(queue) + 1 /\ j = Len(queue) + 1
    BY <2>2
  <2>3. Queued(d).doc = d
    BY DEF Queued
  <2>4. CASE i \in DOMAIN queue /\ j = Len(queue) + 1
    BY <1>2, <1>4, <2>3, <2>4 DEF Open
  <2>5. CASE i = Len(queue) + 1 /\ j \in DOMAIN queue
    BY <1>2, <1>4, <2>3, <2>5 DEF Open
  <2> QED
    BY <1>3, <2>1, <2>2, <2>4, <2>5
<1>10. \A n \in Nat : SinceRead(n) => SinceRead(n)'
  <2> SUFFICES ASSUME NEW n \in Nat, SinceRead(n)
               PROVE  n <= Len(queue') /\ \A j \in DOMAIN queue' :
                                             j > n => queue'[j].status = "queued"
    BY DEF SinceRead
  <2>1. n <= Len(queue')
    BY <1>2, <1>3 DEF SinceRead
  <2>2. ASSUME NEW j \in DOMAIN queue', j > n PROVE queue'[j].status = "queued"
    <3>1. CASE j \in DOMAIN queue
      BY <1>4, <2>2, <3>1 DEF SinceRead
    <3>2. CASE j = Len(queue) + 1
      BY <1>2, <3>2 DEF Queued
    <3> QED
      BY <1>3, <3>1, <3>2
  <2> QED
    BY <2>1, <2>2
<1> QED
  BY <1>2, <1>4, <1>6, <1>7, <1>8, <1>9, <1>10

\* The server rewrites an open first row, and drops what was appended since.
LEMMA RewritingRow ==
  ASSUME TypeOK, RowsInv, OneOpenRow,
         NEW n \in Nat, SinceRead(n), NEW i \in 1..n,
         i \in First(queue, queue[i].doc), queue[i].status # "completed",
         NEW row \in Row, row.doc = queue[i].doc, row.status # "queued",
         row.status = "claimed" => row.claimedBy # NoOne,
         queue' = [SubSeq(queue, 1, n) EXCEPT ![i] = row]
  PROVE  /\ queue' \in Seq(Row) /\ DOMAIN queue' = 1..n /\ DOMAIN queue' \subseteq DOMAIN queue
         /\ queue'[i] = row
         /\ \A j \in DOMAIN queue' : j # i => queue'[j] = queue[j]
         /\ RowsInv' /\ OneOpenRow'
         /\ \A e : ~Open(e) => ~Open(e)'
         /\ \A e : \A j \in DOMAIN queue' : j \in First(queue, e) <=> j \in First(queue', e)
<1>1. queue \in Seq(Row) /\ n <= Len(queue)
  BY DEF TypeOK, SinceRead
<1>2. /\ queue' \in Seq(Row) /\ Len(queue') = n
      /\ queue'[i] = row
      /\ \A j \in 1..n : j # i => queue'[j] = queue[j]
  BY <1>1, RewriteFacts, SMTT(30)
<1>3. DOMAIN queue = 1..Len(queue) /\ DOMAIN queue' = 1..n /\ Len(queue) \in Nat
  BY <1>1, <1>2
<1>4. DOMAIN queue' \subseteq DOMAIN queue
  BY <1>1, <1>3
<1>5. \A j \in DOMAIN queue' : queue'[j].doc = queue[j].doc
  BY <1>2, <1>3
<1>6. \A e : \A j \in DOMAIN queue' : j \in First(queue, e) <=> j \in First(queue', e)
  <2>1. \A j \in 1..Len(queue) : j <= Len(queue') => queue[j].doc = queue'[j].doc
    BY <1>2, <1>3, <1>5
  <2>2. \A e : \A j \in 1..Len(queue) :
          j <= Len(queue') => (j \in First(queue, e) <=> j \in First(queue', e))
    BY <1>1, <1>2, <2>1, FirstAgrees
  <2>3. \A j \in 1..n : j \in 1..Len(queue) /\ j <= Len(queue')
    BY <1>1, <1>2
  <2> QED
    BY <1>3, <2>2, <2>3
<1>7. RowsInv'
  <2> SUFFICES ASSUME NEW j \in DOMAIN queue'
               PROVE  /\ queue'[j].status # "queued" => j \in First(queue', queue'[j].doc)
                      /\ queue'[j].status = "queued" => queue'[j].claimedBy = NoOne
                      /\ queue'[j].status = "claimed" => queue'[j].claimedBy # NoOne
    BY DEF RowsInv
  <2>1. CASE j # i
    <3>1. queue'[j] = queue[j] /\ j \in DOMAIN queue
      BY <1>2, <1>3, <1>4, <2>1
    <3> QED
      BY <1>6, <3>1 DEF RowsInv
  <2>2. CASE j = i
    BY <1>2, <1>5, <1>6, <2>2
  <2> QED
    BY <2>1, <2>2
<1>8. \A j \in DOMAIN queue' : queue'[j].status # "completed" => queue[j].status # "completed"
  BY <1>2, <1>3
<1>9. OneOpenRow'
  BY <1>4, <1>5, <1>8 DEF OneOpenRow
<1>10. \A e : ~Open(e) => ~Open(e)'
  BY <1>4, <1>5, <1>8 DEF Open
<1> QED
  BY <1>2, <1>3, <1>4, <1>6, <1>7, <1>9, <1>10

-----------------------------------------------------------------------------
(* Steps that leave the file alone.                                        *)

LEMMA SameFile ==
  ASSUME RowsInv, OneOpenRow, UNCHANGED queue
  PROVE  /\ RowsInv' /\ OneOpenRow'
         /\ \A e : First(queue', e) = First(queue, e)
         /\ \A n : SinceRead(n) => SinceRead(n)'
         /\ \A e : Open(e)' <=> Open(e)
  BY DEF RowsInv, OneOpenRow, First, SinceRead, Open

LEMMA InitInv == Init => QueueInv /\ CorpusInv
<1> SUFFICES ASSUME Init PROVE QueueInv /\ CorpusInv
  OBVIOUS
<1>1. /\ queue = <<>> /\ DOMAIN queue = {} /\ server.stage = "idle" /\ sampler.stage = "idle"
      /\ tool.stage = "idle"
  BY DEF Init, Idle
<1>2. TypeOK
  BY DEF Init, TypeOK, ServerStates, Idle
<1>3. RowsInv /\ OneOpenRow /\ ClaimedWorkIsAnnotated
  BY <1>1 DEF RowsInv, OneOpenRow, ClaimedWorkIsAnnotated
<1>4. ServerInv /\ SamplerInv /\ AnnotationInv /\ ToolInv
  BY <1>1 DEF ServerInv, ClaimInv, SubmitInv, AnnotationInv, CompleteInv, SamplerInv, ToolInv,
              Before, Rewriting, Submitting
<1> QED
  BY <1>2, <1>3, <1>4 DEF QueueInv, CorpusInv

\* An idle server owes nothing.
LEMMA IdleServer ==
  ASSUME server' = Idle
  PROVE  ServerInv' /\ server' \in ServerStates
  BY DEF ServerInv, ClaimInv, SubmitInv, CompleteInv, Idle, ServerStates, Before, Rewriting,
         Submitting

LEMMA ClaimReads ==
  ASSUME QueueInv, NEW d \in Docs, NEW r \in Reviewers, ClaimRead(d, r)
  PROVE  QueueInv'
<1> USE DEF QueueInv
<1>1. PICK i \in First(queue, d) :
        /\ MayClaim(queue[i], r)
        /\ server' = [stage |-> "claiming", row |-> i, who |-> r, read |-> Len(queue)]
  BY DEF ClaimRead
<1>2. UNCHANGED <<queue, annotations, manifest, calibration, sampler, tool, edits, harmed>>
  BY DEF ClaimRead, stores, corpus, others
<1>3. i \in 1..Len(queue) /\ queue[i].doc = d /\ Len(queue) \in Nat /\ DOMAIN queue = 1..Len(queue)
  BY DEF TypeOK, First
<1>4. server' \in ServerStates
  BY <1>1, <1>3 DEF ServerStates
<1>5. TypeOK'
  BY <1>2, <1>4 DEF TypeOK
<1>6. SinceRead(Len(queue))
  BY <1>3 DEF SinceRead
<1>7. ClaimInv'
  BY <1>1, <1>2, <1>3, <1>6, SameFile DEF ClaimInv, MayClaim
<1>8. SubmitInv' /\ CompleteInv'
  BY <1>1 DEF SubmitInv, CompleteInv, Submitting, Before, Rewriting
<1>9. RowsInv' /\ OneOpenRow' /\ SamplerInv'
  BY <1>2, SameFile DEF SamplerInv
<1> QED
  BY <1>5, <1>7, <1>8, <1>9 DEF ServerInv

\* The claim is written over a row that is still open to its reviewer.
LEMMA ClaimRow ==
  ASSUME QueueInv, ClaimWrite
  PROVE  LET row == [queue[server.row] EXCEPT !.status = "claimed", !.claimedBy = server.who]
         IN  /\ row \in Row /\ server.who \in Reviewers /\ server.read \in Nat
             /\ row.doc = queue[server.row].doc
             /\ row.status = "claimed" /\ row.claimedBy = server.who /\ row.claimedBy # NoOne
             /\ queue[server.row] \in Row /\ queue[server.row].status # "completed"
             /\ queue[server.row].claimedBy \in {NoOne, server.who}
<1>1. server \in [stage : {"claiming"}, row : Nat, who : Reviewers, read : Nat]
  BY ServerShape DEF ClaimWrite, QueueInv, TypeOK
<1>2. server.who \in Reviewers /\ server.who # NoOne /\ server.read \in Nat
  BY <1>1, ReviewAssumption
<1>3. server.row \in DOMAIN queue /\ MayClaim(queue[server.row], server.who)
  BY DEF ClaimWrite, QueueInv, ServerInv, ClaimInv, First
<1>4. queue[server.row] \in Row
  BY <1>3 DEF QueueInv, TypeOK
<1> QED
  BY <1>2, <1>3, <1>4 DEF Row, MayClaim

LEMMA ClaimWrites ==
  ASSUME QueueInv, ClaimWrite
  PROVE  QueueInv'
<1> DEFINE row == [queue[server.row] EXCEPT !.status = "claimed", !.claimedBy = server.who]
<1>1. /\ queue' = [SubSeq(queue, 1, server.read) EXCEPT ![server.row] = row]
      /\ UNCHANGED <<annotations, manifest, calibration, tool, edits, harmed>> /\ server' = Idle
  BY DEF ClaimWrite, Rewrite, stores, corpus, others
<1>2. /\ row \in Row /\ row.doc = queue[server.row].doc /\ row.status = "claimed"
      /\ row.claimedBy # NoOne /\ queue[server.row].status # "completed"
      /\ server.read \in Nat
  BY ClaimRow
<1>3. /\ SinceRead(server.read) /\ server.row \in 1..server.read
      /\ server.row \in First(queue, queue[server.row].doc)
  BY DEF ClaimWrite, QueueInv, ServerInv, ClaimInv
<1> HIDE DEF row
<1>4. /\ queue' \in Seq(Row) /\ DOMAIN queue' \subseteq DOMAIN queue
      /\ queue'[server.row] = row
      /\ \A j \in DOMAIN queue' : j # server.row => queue'[j] = queue[j]
      /\ RowsInv' /\ OneOpenRow'
      /\ \A e : ~Open(e) => ~Open(e)'
  BY <1>1, <1>2, <1>3, RewritingRow DEF QueueInv
<1>5. sampler' = sampler \/ (sampler.stage = "open" /\ sampler' = [sampler EXCEPT !.stage = "orphaned"])
  BY DEF ClaimWrite, Rewrite
<1>6. TypeOK'
  <2>1. sampler' \in {Idle} \cup [stage : {"read", "open", "orphaned"}, doc : Docs]
    BY <1>5 DEF QueueInv, TypeOK, Idle
  <2> QED
    BY <1>1, <1>4, <2>1, IdleServer DEF QueueInv, TypeOK
<1>7. SamplerInv'
  <2>1. CASE sampler' = sampler
    BY <1>4, <2>1 DEF QueueInv, SamplerInv
  <2>2. CASE sampler.stage = "open" /\ sampler' = [sampler EXCEPT !.stage = "orphaned"]
    <3>1. sampler \in [stage : {"read", "open", "orphaned"}, doc : Docs]
      BY <2>2 DEF QueueInv, TypeOK, Idle
    <3> QED
      BY <2>2, <3>1 DEF SamplerInv
  <2> QED
    BY <1>5, <2>1, <2>2
<1> QED
  BY <1>1, <1>4, <1>6, <1>7, IdleServer DEF QueueInv

-----------------------------------------------------------------------------
(* A submission.                                                           *)

\* A submission's fields.
LEMMA SubmissionTyping ==
  ASSUME NEW s \in Submissions
  PROVE  s.doc \in Docs /\ s.who \in Reviewers /\ s.annotation \in Annotated
  BY DEF Submissions

LEMMA Submits ==
  ASSUME QueueInv, NEW s \in Submissions, Submit(s)
  PROVE  QueueInv'
<1>1. /\ server' = [stage |-> "annotating", sub |-> s]
      /\ UNCHANGED <<queue, annotations, manifest, calibration, sampler, tool, edits, harmed>>
      /\ \A i \in First(queue, s.doc) : MayComplete(queue[i], s)
  BY DEF Submit, stores, corpus, others
<1>2. TypeOK'
  <2>1. server' \in ServerStates
    BY <1>1 DEF ServerStates, Before
  <2> QED
    BY <1>1, <2>1 DEF QueueInv, TypeOK
<1>3. RowsInv' /\ OneOpenRow' /\ SamplerInv'
  BY <1>1, SameFile DEF QueueInv, SamplerInv
<1>4. SubmitInv'
  <2>1. \A i \in First(queue', s.doc) : MayComplete(queue'[i], s)
    BY <1>1
  <2> QED
    BY <1>1, <2>1 DEF SubmitInv, MayComplete
<1>5. ClaimInv' /\ CompleteInv'
  BY <1>1 DEF ClaimInv, CompleteInv
<1> QED
  BY <1>2, <1>3, <1>4, <1>5 DEF QueueInv, ServerInv

\* While a submission goes through the stores it keeps what it relies on.
LEMMA SubmissionGoesOn ==
  ASSUME QueueInv, TypeOK', UNCHANGED <<queue, sampler>>,
         server' = Idle \/ /\ server.stage \in Submitting /\ server'.stage \in Submitting
                           /\ server'.sub = server.sub
  PROVE  QueueInv'
<1>1. RowsInv' /\ OneOpenRow' /\ SamplerInv'
  BY SameFile DEF QueueInv, SamplerInv
<1>2. CASE server' = Idle
  BY <1>1, <1>2, IdleServer DEF QueueInv
<1>3. CASE /\ server.stage \in Submitting /\ server'.stage \in Submitting
           /\ server'.sub = server.sub
  <2>1. SubmitInv'
    BY <1>3 DEF QueueInv, ServerInv, SubmitInv, First
  <2>2. ClaimInv' /\ CompleteInv'
    BY <1>3 DEF ClaimInv, CompleteInv, Submitting, Before, Rewriting
  <2> QED
    BY <1>1, <2>1, <2>2 DEF QueueInv, ServerInv
<1> QED
  BY <1>2, <1>3

\* The steps of write_annotation_record for the server.
LEMMA ServerWriteTypes ==
  ASSUME TypeOK, Annotate \/ List
  PROVE  /\ TypeOK' /\ UNCHANGED <<queue, sampler>>
         /\ \/ server' = Idle
            \/ /\ server.stage \in Submitting /\ server'.stage \in Submitting
               /\ server'.sub = server.sub
<1> USE DEF Before, Rewriting, Submitting
<1> DEFINE s == server.sub
           Progress == server'.stage \in Submitting /\ server'.sub = s /\ server' \in ServerStates
<1>0. UNCHANGED <<queue, calibration, sampler, tool, edits>>
  BY DEF Annotate, List, others
<1>1. CASE server' = Idle /\ UNCHANGED <<annotations, manifest, harmed>>
  BY <1>0, <1>1, IdleServer DEF TypeOK
<1>2. CASE Annotate /\ server' # Idle
  <2>1. server \in [stage : Before \cup {"annotating", "recording"}, sub : Submissions]
    BY <1>2, ServerShape DEF Annotate, TypeOK
  <2>2. s.doc \in Docs /\ s.who \in Reviewers
    BY <2>1, SubmissionTyping
  <2>3. Progress
    <3>1. \/ server' = [server EXCEPT !.stage = "opening"]
          \/ server' = [server EXCEPT !.stage = "filling"]
          \/ server' = [server EXCEPT !.stage = "listing"]
          \/ server' = [stage |-> "recording", sub |-> server.sub]
      BY <1>2 DEF Annotate, Refuse, Check, OpenForServer, Truncate, Fill, Goes, To
    <3> QED
      BY <2>1, <3>1 DEF ServerStates
  <2>4. /\ annotations' \in [Docs -> Reviewers \cup {NoOne, Someone, Torn}]
        /\ manifest' = manifest /\ harmed' \subseteq harmed
    <3>1. \/ annotations' = annotations
          \/ \E a \in Reviewers \cup {Torn} : annotations' = [annotations EXCEPT ![s.doc] = a]
      BY <1>2, <2>2 DEF Annotate, Refuse, Check, OpenForServer, Truncate, Fill, corpus
    <3>2. manifest' = manifest /\ harmed' \subseteq harmed
      BY <1>2 DEF Annotate, Refuse, Check, OpenForServer, Truncate, Fill, corpus
    <3> QED
      BY <3>1, <3>2 DEF TypeOK
  <2> QED
    BY <1>0, <1>2, <2>1, <2>3, <2>4 DEF TypeOK
<1>3. CASE List
  <2>1. \/ server \in [stage : Before \cup {"annotating", "recording"}, sub : Submissions]
        \/ server \in [stage : Rewriting, sub : Submissions, rows : SUBSET Docs]
    BY <1>3, ServerShape
    DEF List, ReadManifest, EmptyManifest, FillManifest, AppendRow, TypeOK
  <2>2. s \in Submissions /\ s.doc \in Docs /\ server.stage \in Submitting
    BY <2>1, SubmissionTyping
  <2>3. CASE ReadManifest(server)
    <3>1. server' = [stage |-> "rewriting", sub |-> s, rows |-> manifest \cup {s.doc}]
      BY <2>3 DEF ReadManifest
    <3>2. Progress
      BY <2>2, <3>1 DEF ServerStates, TypeOK
    <3> QED
      BY <1>0, <2>2, <2>3, <3>2 DEF TypeOK, ReadManifest, corpus
  <2>4. CASE EmptyManifest(server)
    <3>1. Progress
      BY <2>1, <2>4 DEF EmptyManifest, Goes, ServerStates
    <3> QED
      BY <1>0, <2>2, <2>4, <3>1 DEF TypeOK, EmptyManifest
  <2>5. CASE (FillManifest(server) \/ AppendRow(server)) /\ To("recording")
    <3>1. Progress
      BY <2>2, <2>5 DEF To, ServerStates
    <3>2. server.stage = "writing" => server.rows \subseteq Docs
      BY <2>1
    <3>3. manifest' \subseteq Docs /\ harmed' \subseteq Docs /\ annotations' = annotations
      BY <2>2, <2>5, <3>2 DEF FillManifest, AppendRow, TypeOK
    <3> QED
      BY <1>0, <2>2, <3>1, <3>3 DEF TypeOK
  <2> QED
    BY <1>3, <2>3, <2>4, <2>5 DEF List
<1>4. CASE Annotate /\ server' = Idle
  <2>1. UNCHANGED <<annotations, manifest, harmed>>
    <3>1. server.stage \in Before \cup {"annotating"} /\ Idle.stage = "idle"
      BY <1>4 DEF Annotate, Idle
    <3>2. \/ Refuse
          \/ server' = [server EXCEPT !.stage = "opening"]
          \/ server' = [server EXCEPT !.stage = "filling"]
          \/ server' = [server EXCEPT !.stage = "listing"]
          \/ server' = [stage |-> "recording", sub |-> server.sub]
      BY <1>4 DEF Annotate, Check, OpenForServer, Truncate, Fill, Goes, To
    <3>3. server \in [stage : Before \cup {"annotating", "recording"}, sub : Submissions]
      BY <3>1, ServerShape DEF TypeOK
    <3>4. Refuse
      BY <1>4, <3>1, <3>2, <3>3
    <3> QED
      BY <3>4 DEF Refuse, corpus
  <2> QED
    BY <1>1, <1>4, <2>1
<1> QED
  BY <1>2, <1>3, <1>4

LEMMA ServerWrites ==
  ASSUME QueueInv, Annotate \/ List
  PROVE  QueueInv'
BY ServerWriteTypes, SubmissionGoesOn DEF QueueInv

LEMMA Records ==
  ASSUME QueueInv, Record
  PROVE  QueueInv'
<1>1. server.stage = "recording" /\ UNCHANGED <<queue, annotations, manifest, sampler, tool, edits, harmed>>
  BY DEF Record, corpus, others
<1>2. PICK m \in server.sub.rows :
        IF m \in calibration THEN server' = Idle /\ UNCHANGED calibration
        ELSE /\ calibration' = calibration \cup {m}
             /\ server' = [server EXCEPT !.sub.rows = @ \ {m}]
  BY DEF Record
<1>3. server \in [stage : Before \cup {"annotating", "recording"}, sub : Submissions]
  BY <1>1, ServerShape DEF QueueInv, TypeOK
<1>4. RowsInv' /\ OneOpenRow' /\ SamplerInv'
  BY <1>1, SameFile DEF QueueInv, SamplerInv
<1>5. CASE server' = Idle /\ UNCHANGED calibration
  BY <1>1, <1>4, <1>5, IdleServer DEF QueueInv, TypeOK
<1>6. CASE calibration' = calibration \cup {m} /\ server' = [server EXCEPT !.sub.rows = @ \ {m}]
  <2>1. server.sub \in Submissions /\ m \in Measurements
    BY <1>3 DEF Submissions
  <2>2. [server.sub EXCEPT !.rows = @ \ {m}] \in Submissions
    BY <2>1 DEF Submissions
  <2>3. /\ server'.sub = [server.sub EXCEPT !.rows = @ \ {m}] /\ server'.stage = "recording"
        /\ server' \in [stage : Before \cup {"annotating", "recording"}, sub : Submissions]
    BY <1>1, <1>3, <1>6, <2>2
  <2>4. /\ server'.sub.doc = server.sub.doc /\ server'.sub.who = server.sub.who
        /\ server'.sub.annotation = server.sub.annotation
    BY <2>1, <2>3 DEF Submissions
  <2>5. TypeOK'
    <3>1. server' \in ServerStates
      BY <2>3 DEF ServerStates
    <3> QED
      BY <1>1, <1>6, <2>1, <3>1 DEF QueueInv, TypeOK
  <2>6. SubmitInv'
    BY <1>1, <2>3, <2>4 DEF QueueInv, ServerInv, SubmitInv, Submitting
  <2>7. ClaimInv' /\ CompleteInv'
    BY <2>3 DEF ClaimInv, CompleteInv
  <2> QED
    BY <1>4, <2>5, <2>6, <2>7 DEF QueueInv, ServerInv
<1> QED
  BY <1>2, <1>5, <1>6

LEMMA CompleteReads ==
  ASSUME QueueInv, CompleteRead
  PROVE  QueueInv'
<1>1. /\ server.stage = "recording" /\ server \in ServerStates
      /\ UNCHANGED <<queue, annotations, manifest, calibration, sampler, tool, edits, harmed>>
  BY DEF CompleteRead, QueueInv, TypeOK, stores, corpus, others
<1>2. RowsInv' /\ OneOpenRow' /\ SamplerInv'
  BY <1>1, SameFile DEF QueueInv, SamplerInv
<1>3. server.sub \in Submissions /\ Len(queue) \in Nat /\ DOMAIN queue = 1..Len(queue)
  BY <1>1, ServerShape DEF QueueInv, TypeOK
<1>4. CASE server' = Idle
  BY <1>1, <1>2, <1>4, IdleServer DEF QueueInv, TypeOK
<1>5. CASE /\ First(queue, server.sub.doc) # {}
           /\ server' = [stage |-> "completing", sub |-> server.sub, read |-> Len(queue)]
  <2>1. server' \in ServerStates
    BY <1>3, <1>5 DEF ServerStates
  <2>2. TypeOK'
    BY <1>1, <2>1 DEF QueueInv, TypeOK
  <2>3. SubmitInv' /\ ClaimInv'
    BY <1>1, <1>5 DEF QueueInv, ServerInv, SubmitInv, ClaimInv, Submitting
  <2>4. CompleteInv'
    <3>1. SinceRead(Len(queue))
      BY <1>3 DEF SinceRead
    <3>2. \E i \in First(queue, server.sub.doc) : i <= Len(queue)
      BY <1>3, <1>5 DEF First
    <3> QED
      BY <1>1, <1>5, <3>1, <3>2, SameFile DEF QueueInv, CompleteInv
  <2> QED
    BY <1>2, <2>2, <2>3, <2>4 DEF QueueInv, ServerInv
<1> QED
  BY <1>4, <1>5 DEF CompleteRead

\* The row completed: an open one, claimed by nobody or by the submitter, who
\* in that case has sent an annotation.
LEMMA CompletedRow ==
  ASSUME QueueInv, server.stage = "completing", NEW i \in First(queue, server.sub.doc)
  PROVE  LET row == [queue[i] EXCEPT !.status = "completed", !.completedBy = server.sub.who]
         IN  /\ row \in Row /\ row.doc = queue[i].doc /\ queue[i].doc = server.sub.doc
             /\ row.status = "completed" /\ row.completedBy = server.sub.who
             /\ row.claimedBy = queue[i].claimedBy
             /\ queue[i] \in Row /\ queue[i].status # "completed"
             /\ server.read \in Nat /\ i \in 1..server.read /\ SinceRead(server.read)
             /\ row.claimedBy # NoOne =>
                  row.claimedBy = server.sub.who /\ server.sub.annotation = "object"
<1>1. server \in [stage : {"completing"}, sub : Submissions, read : Nat]
  BY ServerShape DEF QueueInv, TypeOK
<1>2. server.sub.who \in Reviewers /\ server.read \in Nat
  BY <1>1, SubmissionTyping
<1>3. i \in 1..Len(queue) /\ queue[i] \in Row /\ queue[i].doc = server.sub.doc
  BY DEF First, QueueInv, TypeOK
<1>4. /\ queue[i].status # "completed"
      /\ queue[i].claimedBy \in {NoOne, server.sub.who}
      /\ queue[i].claimedBy # NoOne => server.sub.annotation = "object"
  BY DEF QueueInv, ServerInv, SubmitInv
<1>6. SinceRead(server.read) /\ i <= server.read
  <2>1. PICK j \in First(queue, server.sub.doc) : j <= server.read
    BY DEF QueueInv, ServerInv, CompleteInv
  <2>2. i = j
    BY FirstIsOne, <2>1 DEF QueueInv, TypeOK
  <2> QED
    BY <2>1, <2>2 DEF QueueInv, ServerInv, CompleteInv
<1>7. i \in 1..server.read
  BY <1>2, <1>3, <1>6
<1> QED
  BY <1>2, <1>3, <1>4, <1>6, <1>7 DEF Row

LEMMA CompleteWrites ==
  ASSUME QueueInv, CompleteWrite
  PROVE  QueueInv'
<1>1. server.stage = "completing" /\ server \in ServerStates
  BY DEF CompleteWrite, QueueInv, TypeOK
<1>2. PICK i \in First(queue, server.sub.doc) :
        Rewrite(server.read, i,
                [queue[i] EXCEPT !.status = "completed", !.completedBy = server.sub.who])
  BY DEF CompleteWrite
<1> DEFINE row == [queue[i] EXCEPT !.status = "completed", !.completedBy = server.sub.who]
<1>3. /\ row \in Row /\ row.doc = queue[i].doc /\ queue[i].doc = server.sub.doc
      /\ row.status = "completed" /\ queue[i].status # "completed"
      /\ server.read \in Nat /\ i \in 1..server.read /\ SinceRead(server.read)
  BY <1>1, CompletedRow
<1>4. /\ queue' = [SubSeq(queue, 1, server.read) EXCEPT ![i] = row]
      /\ UNCHANGED <<annotations, manifest, calibration, tool, edits, harmed>>
      /\ server' = Idle
      /\ sampler' = sampler \/ (sampler.stage = "open" /\ sampler' = [sampler EXCEPT !.stage = "orphaned"])
  BY <1>2 DEF CompleteWrite, Rewrite, stores, corpus, others
<1> HIDE DEF row
<1>5. i \in First(queue, queue[i].doc)
  BY <1>3
<1>6. /\ queue' \in Seq(Row) /\ DOMAIN queue' \subseteq DOMAIN queue
      /\ queue'[i] = row
      /\ \A j \in DOMAIN queue' : j # i => queue'[j] = queue[j]
      /\ RowsInv' /\ OneOpenRow'
      /\ \A e : ~Open(e) => ~Open(e)'
  BY <1>3, <1>4, <1>5, RewritingRow DEF QueueInv
<1>7. TypeOK'
  <2>1. sampler' \in {Idle} \cup [stage : {"read", "open", "orphaned"}, doc : Docs]
    BY <1>4 DEF QueueInv, TypeOK, Idle
  <2> QED
    BY <1>4, <1>6, <2>1, IdleServer DEF QueueInv, TypeOK
<1>8. SamplerInv'
  <2>1. CASE sampler' = sampler
    BY <1>6, <2>1 DEF QueueInv, SamplerInv
  <2>2. CASE sampler.stage = "open" /\ sampler' = [sampler EXCEPT !.stage = "orphaned"]
    <3>1. sampler \in [stage : {"read", "open", "orphaned"}, doc : Docs]
      BY <2>2 DEF QueueInv, TypeOK, Idle
    <3> QED
      BY <2>2, <3>1 DEF SamplerInv
  <2> QED
    BY <1>4, <2>1, <2>2
<1> QED
  BY <1>4, <1>6, <1>7, <1>8, IdleServer DEF QueueInv

\* A step that leaves the file alone and ends the request, or does not touch it.
LEMMA Aside ==
  ASSUME QueueInv, TypeOK', UNCHANGED <<queue, sampler>>, server' = Idle \/ server' = server
  PROVE  QueueInv'
<1>1. RowsInv' /\ OneOpenRow' /\ SamplerInv'
  BY SameFile DEF QueueInv, SamplerInv
<1>2. server' = server => ServerInv'
  BY SameFile DEF QueueInv, ServerInv, ClaimInv, SubmitInv, CompleteInv
<1>3. ServerInv'
  BY <1>2, IdleServer
<1> QED
  BY <1>1, <1>3 DEF QueueInv

\* The tool and the calibration tool, and crashes, keep the types.
LEMMA OtherTypes ==
  ASSUME TypeOK,
         \/ \E m \in Measurements : Calibrate(m)
         \/ \E d \in Docs, overwrite \in BOOLEAN : ToolStart(d, overwrite)
         \/ ToolWrite \/ ServerCrash \/ ToolDies
  PROVE  /\ TypeOK' /\ UNCHANGED <<queue, sampler>>
         /\ server' = Idle \/ server' = server
<1> USE DEF Before, Rewriting
<1>1. ASSUME NEW m \in Measurements, Calibrate(m)
      PROVE  TypeOK' /\ UNCHANGED <<queue, sampler, server>>
  BY <1>1 DEF Calibrate, TypeOK, corpus, others
<1>2. ASSUME NEW d \in Docs, NEW overwrite \in BOOLEAN, ToolStart(d, overwrite)
      PROVE  TypeOK' /\ UNCHANGED <<queue, sampler, server>>
  <2>1. [doc |-> d, who |-> Someone, overwrite |-> overwrite] \in Edits
    BY DEF Edits
  <2> QED
    BY <1>2, <2>1 DEF ToolStart, TypeOK, stores, corpus
<1>3. CASE ToolWrite
  <2>0. UNCHANGED <<queue, calibration, server, sampler, edits>>
    BY <1>3 DEF ToolWrite
  <2>1. \/ tool \in [stage : Before, sub : Edits]
        \/ tool \in [stage : Rewriting, sub : Edits, rows : SUBSET Docs]
    BY <1>3, ToolShape DEF ToolWrite, Truncate, Fill, ReadManifest, EmptyManifest,
                           FillManifest, AppendRow
  <2>2. tool.sub \in Edits /\ tool.sub.doc \in Docs /\ tool.sub.who = Someone
    BY <2>1 DEF Edits
  <2>3. CASE Truncate(tool) /\ harmed' = harmed \cup {tool.sub.doc}
    BY <2>0, <2>1, <2>2, <2>3 DEF Truncate, Goes, TypeOK
  <2>4. CASE Fill(tool)
    <3>1. PICK a \in {Someone, Torn} : annotations' = [annotations EXCEPT ![tool.sub.doc] = a]
      BY <2>2, <2>4 DEF Fill
    <3> QED
      BY <2>0, <2>1, <2>4, <3>1 DEF Fill, Goes, TypeOK
  <2>5. CASE ReadManifest(tool)
    BY <2>0, <2>2, <2>5 DEF ReadManifest, TypeOK, corpus
  <2>6. CASE EmptyManifest(tool)
    BY <2>0, <2>1, <2>6 DEF EmptyManifest, Goes, TypeOK
  <2>7. CASE (FillManifest(tool) \/ AppendRow(tool)) /\ tool' = Idle
    <3>1. tool.stage = "writing" => tool.rows \subseteq Docs
      BY <2>1
    <3>2. manifest' \subseteq Docs /\ harmed' \subseteq Docs /\ annotations' = annotations
      BY <2>2, <2>7, <3>1 DEF FillManifest, AppendRow, TypeOK
    <3> QED
      BY <2>0, <2>7, <3>2 DEF TypeOK
  <2> QED
    BY <1>3, <2>0, <2>3, <2>4, <2>5, <2>6, <2>7 DEF ToolWrite
<1>4. CASE ServerCrash
  <2>1. server.stage = "writing" => server.rows \subseteq Docs
    BY ServerShape DEF TypeOK
  <2> QED
    BY <1>4, <2>1, IdleServer DEF ServerCrash, Dies, TypeOK, stores, corpus, others
<1>5. CASE ToolDies
  <2>1. tool.stage = "writing" => tool.rows \subseteq Docs
    BY ToolShape
  <2> QED
    BY <1>5, <2>1 DEF ToolDies, Dies, TypeOK, stores, corpus
<1> QED
  BY <1>1, <1>2, <1>3, <1>4, <1>5 DEF ServerCrash, ToolDies, Dies

-----------------------------------------------------------------------------
(* The sampler.                                                            *)

\* While only the sampler moves, a request keeps what it relies on.
LEMMA SamplerSteps ==
  ASSUME QueueInv, UNCHANGED <<queue, stores, server, others, harmed>>,
         sampler' \in {Idle} \cup [stage : {"read", "open", "orphaned"}, doc : Docs],
         SamplerInv'
  PROVE  QueueInv'
<1>1. RowsInv' /\ OneOpenRow'
  BY SameFile DEF QueueInv
<1>2. ServerInv'
  BY DEF QueueInv, ServerInv, ClaimInv, SubmitInv, CompleteInv, SinceRead
<1>3. TypeOK'
  BY DEF QueueInv, TypeOK, stores, corpus, others
<1> QED
  BY <1>1, <1>2, <1>3 DEF QueueInv

LEMMA Samples ==
  ASSUME QueueInv, (\E d \in Docs : SampleRead(d)) \/ SampleOpen \/ SamplerDies
  PROVE  QueueInv'
<1>1. ASSUME NEW d \in Docs, SampleRead(d) PROVE QueueInv'
  <2>1. SamplerInv'
    BY <1>1, SameFile DEF SampleRead, SamplerInv, QueueInv
  <2> QED
    BY <1>1, <2>1, SamplerSteps DEF SampleRead
<1>2. CASE SampleOpen
  <2>1. sampler \in [stage : {"read", "open", "orphaned"}, doc : Docs]
    BY <1>2 DEF SampleOpen, QueueInv, TypeOK, Idle
  <2>2. /\ sampler' \in [stage : {"read", "open", "orphaned"}, doc : Docs]
        /\ sampler'.doc = sampler.doc
    BY <1>2, <2>1 DEF SampleOpen
  <2>3. SamplerInv'
    BY <1>2, <2>2, SameFile DEF SampleOpen, SamplerInv, QueueInv
  <2> QED
    BY <1>2, <2>2, <2>3, SamplerSteps DEF SampleOpen
<1>3. CASE SamplerDies
  <2>1. SamplerInv'
    BY <1>3 DEF SamplerDies, SamplerInv, Idle
  <2> QED
    BY <1>3, <2>1, SamplerSteps DEF SamplerDies
<1> QED
  BY <1>1, <1>2, <1>3

LEMMA SampleWrites ==
  ASSUME QueueInv, SampleWrite
  PROVE  QueueInv'
<1>1. /\ UNCHANGED <<annotations, manifest, calibration, server, tool, edits, harmed>>
      /\ sampler' = Idle
      /\ sampler.stage \in {"open", "orphaned"}
  BY DEF SampleWrite, stores, corpus, others
<1>2. SamplerInv'
  BY <1>1 DEF SamplerInv, Idle
<1>3. CASE sampler.stage = "orphaned"
  <2>1. queue' = queue
    BY <1>3 DEF SampleWrite
  <2> QED
    BY <1>1, <1>2, <2>1, SamplerSteps DEF stores, corpus, others
<1>4. CASE sampler.stage = "open"
  <2> DEFINE d == sampler.doc
  <2>1. d \in Docs /\ ~Open(d) /\ queue' = Append(queue, Queued(d))
    BY <1>4 DEF QueueInv, TypeOK, Idle, SamplerInv, SampleWrite
  <2>2. Queued(d).status = "queued" /\ Queued(d).claimedBy = NoOne
    BY DEF Queued
  <2> HIDE DEF d
  <2>3. /\ queue' \in Seq(Row) /\ Len(queue') = Len(queue) + 1
        /\ \A j \in DOMAIN queue : j \in DOMAIN queue' /\ queue'[j] = queue[j]
        /\ queue'[Len(queue) + 1] = Queued(d)
        /\ RowsInv' /\ OneOpenRow'
        /\ \A e : First(queue, e) \subseteq First(queue', e)
        /\ \A e : \A i \in First(queue', e) : i \in First(queue, e) \/ queue'[i] = Queued(d)
        /\ \A n \in Nat : SinceRead(n) => SinceRead(n)'
    BY <2>1, Appending DEF QueueInv
  <2>4. TypeOK'
    BY <1>1, <2>3 DEF QueueInv, TypeOK
  <2>5. \A e : \A i \in First(queue, e) : i \in DOMAIN queue
    BY DEF First
  <2>6. ClaimInv'
    <3> SUFFICES ASSUME server.stage = "claiming" PROVE ClaimInv'
      BY <1>1 DEF ClaimInv
    <3>1. server.read \in Nat
      BY ServerShape DEF QueueInv, TypeOK
    <3>2. server.row \in First(queue, queue[server.row].doc)
      BY DEF QueueInv, ServerInv, ClaimInv
    <3>3. queue'[server.row] = queue[server.row]
      BY <2>3, <2>5, <3>2
    <3> QED
      BY <1>1, <2>3, <3>1, <3>2, <3>3 DEF QueueInv, ServerInv, ClaimInv
  <2>7. SubmitInv'
    <3> SUFFICES ASSUME server.stage \in Submitting \cup {"completing"},
                        NEW i \in First(queue', server.sub.doc)
                 PROVE  /\ queue'[i].status # "completed"
                        /\ queue'[i].claimedBy \in {NoOne, server.sub.who}
                        /\ queue'[i].claimedBy # NoOne => server.sub.annotation = "object"
      BY <1>1 DEF SubmitInv
    <3>1. CASE i \in First(queue, server.sub.doc)
      <4>1. queue'[i] = queue[i]
        BY <2>3, <2>5, <3>1
      <4> QED
        BY <3>1, <4>1 DEF QueueInv, ServerInv, SubmitInv
    <3>2. CASE queue'[i] = Queued(d)
      BY <2>2, <3>2
    <3> QED
      BY <2>3, <3>1, <3>2
  <2>9. CompleteInv'
    <3> SUFFICES ASSUME server.stage = "completing" PROVE CompleteInv'
      BY <1>1 DEF CompleteInv
    <3>1. server.read \in Nat
      BY ServerShape DEF QueueInv, TypeOK
    <3> QED
      BY <1>1, <2>3, <3>1 DEF QueueInv, ServerInv, CompleteInv
  <2> QED
    BY <1>2, <2>3, <2>4, <2>6, <2>7, <2>9 DEF QueueInv, ServerInv
<1> QED
  BY <1>1, <1>3, <1>4

-----------------------------------------------------------------------------
(* Every step.                                                             *)

LEMMA QueueStep == QueueInv /\ [Next]_vars => QueueInv'
<1> SUFFICES ASSUME QueueInv, [Next]_vars PROVE QueueInv'
  OBVIOUS
<1>1. ASSUME NEW d \in Docs, NEW r \in Reviewers, ClaimRead(d, r) PROVE QueueInv'
  BY <1>1, ClaimReads
<1>2. ASSUME NEW s \in Submissions, Submit(s) PROVE QueueInv'
  BY <1>2, Submits
<1>3. CASE \/ \E m \in Measurements : Calibrate(m)
           \/ \E d \in Docs, overwrite \in BOOLEAN : ToolStart(d, overwrite)
           \/ ToolWrite \/ ServerCrash \/ ToolDies
  BY <1>3, OtherTypes, Aside DEF QueueInv
<1>4. CASE ClaimWrite
  BY <1>4, ClaimWrites
<1>5. CASE Annotate \/ List
  BY <1>5, ServerWrites
<1>7. CASE Record
  BY <1>7, Records
<1>8. CASE CompleteRead
  BY <1>8, CompleteReads
<1>9. CASE CompleteWrite
  BY <1>9, CompleteWrites
<1>11. CASE SampleOpen \/ SamplerDies \/ \E d \in Docs : SampleRead(d)
  BY <1>11, Samples
<1>12. CASE SampleWrite
  BY <1>12, SampleWrites
<1>14. CASE UNCHANGED vars
  <2>1. TypeOK'
    BY <1>14 DEF vars, stores, corpus, others, QueueInv, TypeOK
  <2> QED
    BY <1>14, <2>1, Aside DEF vars
<1> QED
  BY <1>1, <1>2, <1>3, <1>4, <1>5, <1>7, <1>8, <1>9, <1>11, <1>12, <1>14
  DEF Next

-----------------------------------------------------------------------------
(* The annotations and their manifest.                                     *)

\* The step takes nothing from the document without harming it.
Spares(d) ==
  /\ d \notin harmed' => d \notin harmed /\ annotations'[d] = annotations[d]
  /\ Listed(d) => Listed(d)'

\* A completed document is not the one a submission is about.
LEMMA NotSubmitted ==
  ASSUME QueueInv, server.stage \in Submitting \cup {"completing"},
         NEW i \in DOMAIN queue, queue[i].status = "completed"
  PROVE  queue[i].doc # server.sub.doc /\ queue[i].doc \in Docs
<1>1. i \in First(queue, queue[i].doc)
  BY DEF QueueInv, RowsInv
<1>2. queue[i] \in Row
  BY DEF QueueInv, TypeOK
<1> QED
  BY <1>1, <1>2 DEF QueueInv, ServerInv, SubmitInv, Row

\* What is spared stays annotated.
LEMMA StaysAnnotated ==
  ASSUME ClaimedWorkIsAnnotated,
         \A i \in DOMAIN queue' :
           queue'[i].status = "completed" =>
             /\ i \in DOMAIN queue /\ queue'[i] = queue[i]
             /\ \A d \in Docs : d = queue[i].doc => Spares(d),
         queue \in Seq(Row)
  PROVE  ClaimedWorkIsAnnotated'
<1> SUFFICES ASSUME NEW i \in DOMAIN queue', queue'[i].status = "completed",
                    queue'[i].claimedBy # NoOne, queue'[i].doc \notin harmed'
             PROVE  /\ annotations'[queue'[i].doc] = queue'[i].claimedBy
                    /\ \/ queue'[i].doc \in manifest'
                       \/ \E w \in {server', tool'} : w.stage = "writing" /\ queue'[i].doc \in w.rows
  BY DEF ClaimedWorkIsAnnotated, InRewrite
<1>0. PICK d \in Docs : d = queue'[i].doc
  <2>1. queue'[i] \in Row
    OBVIOUS
  <2> QED
    BY <2>1 DEF Row
<1>1. i \in DOMAIN queue /\ queue'[i] = queue[i] /\ Spares(d) /\ d = queue[i].doc
  BY <1>0
<1>2. annotations[d] = queue[i].claimedBy /\ (d \in manifest \/ InRewrite(d))
  BY <1>1 DEF ClaimedWorkIsAnnotated, Spares
<1> QED
  BY <1>0, <1>1, <1>2 DEF Spares, Listed, InRewrite

\* What the tool does, however it ends.
LEMMA ToolSpares ==
  ASSUME TypeOK, ToolInv,
         \/ \E d \in Docs, overwrite \in BOOLEAN : ToolStart(d, overwrite)
         \/ ToolWrite \/ ToolDies
  PROVE  (\A d \in Docs : Spares(d)) /\ ToolInv' /\ server' = server
<1> USE DEF Spares, Listed, InRewrite, ToolInv
<1>1. ASSUME NEW d \in Docs, NEW overwrite \in BOOLEAN, ToolStart(d, overwrite)
      PROVE  (\A e \in Docs : Spares(e)) /\ ToolInv' /\ server' = server
  BY <1>1 DEF ToolStart, stores, corpus, Idle
<1>2. CASE ToolWrite
  <2>0. server' = server
    BY <1>2 DEF ToolWrite
  <2>1. \/ tool \in [stage : Before, sub : Edits]
        \/ tool \in [stage : Rewriting, sub : Edits, rows : SUBSET Docs]
    BY <1>2, ToolShape
    DEF ToolWrite, Truncate, Fill, ReadManifest, EmptyManifest, FillManifest, AppendRow,
        Before, Rewriting
  <2>2. tool.sub.doc \in Docs /\ annotations \in [Docs -> Reviewers \cup {NoOne, Someone, Torn}]
    BY <2>1 DEF Edits, TypeOK
  <2>3. CASE Truncate(tool) /\ harmed' = harmed \cup {tool.sub.doc}
    BY <2>0, <2>1, <2>2, <2>3 DEF Truncate, Goes
  <2>4. CASE Fill(tool)
    <3>1. tool.sub.doc \in harmed /\ UNCHANGED <<manifest, harmed>>
      BY <2>4 DEF Fill
    <3>2. \A d \in Docs : d # tool.sub.doc => annotations'[d] = annotations[d]
      BY <2>2, <2>4 DEF Fill
    <3>3. tool'.stage = "listing" /\ tool.stage = "filling"
      BY <2>1, <2>4 DEF Fill, Goes
    <3> QED
      BY <2>0, <3>1, <3>2, <3>3
  <2>5. CASE ReadManifest(tool)
    BY <2>0, <2>5 DEF ReadManifest, corpus
  <2>6. CASE EmptyManifest(tool)
    <3>1. tool'.stage = "writing" /\ tool'.rows = tool.rows /\ tool.stage = "rewriting"
      BY <2>1, <2>6 DEF EmptyManifest, Goes, Before
    <3> QED
      BY <2>0, <2>6, <3>1 DEF EmptyManifest
  <2>7. CASE (FillManifest(tool) \/ AppendRow(tool)) /\ tool' = Idle
    <3>1. tool'.stage = "idle"
      BY <2>7 DEF Idle
    <3> QED
      BY <2>0, <2>7, <3>1 DEF FillManifest, AppendRow
  <2> QED
    BY <1>2, <2>0, <2>3, <2>4, <2>5, <2>6, <2>7 DEF ToolWrite
<1>3. CASE ToolDies
  BY <1>3 DEF ToolDies, Dies, stores, corpus, Idle
<1> QED
  BY <1>1, <1>2, <1>3

\* A submission's steps on the manifest, and the end of a request.
LEMMA ServerSpares ==
  ASSUME TypeOK, List \/ ServerCrash
  PROVE  (\A d \in Docs : Spares(d)) /\ tool' = tool
<1> USE DEF Spares, Listed, InRewrite
<1>1. CASE List
  <2>0. tool' = tool
    BY <1>1 DEF List, others
  <2>1. \/ server \in [stage : Before \cup {"annotating", "recording"}, sub : Submissions]
        \/ server \in [stage : Rewriting, sub : Submissions, rows : SUBSET Docs]
    BY <1>1, ServerShape
    DEF List, ReadManifest, EmptyManifest, FillManifest, AppendRow, TypeOK, Before, Rewriting
  <2>2. CASE ReadManifest(server)
    BY <2>0, <2>2 DEF ReadManifest, corpus
  <2>3. CASE EmptyManifest(server)
    <3>1. server'.stage = "writing" /\ server'.rows = server.rows /\ server.stage = "rewriting"
      BY <2>1, <2>3 DEF EmptyManifest, Goes, Before
    <3> QED
      BY <2>0, <2>3, <3>1 DEF EmptyManifest
  <2>4. CASE (FillManifest(server) \/ AppendRow(server)) /\ To("recording")
    <3>1. server'.stage = "recording"
      BY <2>4 DEF To
    <3> QED
      BY <2>0, <2>4, <3>1 DEF FillManifest, AppendRow
  <2> QED
    BY <1>1, <2>0, <2>2, <2>3, <2>4 DEF List
<1>2. CASE ServerCrash
  BY <1>2 DEF ServerCrash, Dies, stores, corpus, others, Idle
<1> QED
  BY <1>1, <1>2

\* Its steps on the annotation touch no other document.
LEMMA AnnotateSpares ==
  ASSUME TypeOK, Annotate
  PROVE  /\ \A d \in Docs : d # server.sub.doc => Spares(d)
         /\ tool' = tool /\ server.stage \in {"annotating", "opening", "filling"}
<1> USE DEF Spares, Listed, InRewrite
<1>1. server.stage \in {"annotating", "opening", "filling"} /\ tool' = tool
  BY DEF Annotate, others
<1>2. server \in [stage : Before \cup {"annotating", "recording"}, sub : Submissions]
  BY <1>1, ServerShape DEF TypeOK, Before
<1>3. /\ server.sub.doc \in Docs
      /\ annotations \in [Docs -> Reviewers \cup {NoOne, Someone, Torn}]
  BY <1>2, SubmissionTyping DEF TypeOK
<1>4. server.stage # "writing" /\ server'.stage # "writing" /\ manifest' = manifest
  BY <1>1, <1>2
  DEF Annotate, Refuse, Check, OpenForServer, Truncate, Fill, Goes, To, corpus, Idle
<1>5. \A d \in Docs : d # server.sub.doc =>
        annotations'[d] = annotations[d] /\ (d \in harmed <=> d \in harmed')
  BY <1>3 DEF Annotate, Refuse, Check, OpenForServer, Truncate, Fill, corpus
<1> QED
  BY <1>1, <1>4, <1>5

\* The submission itself through those steps.
LEMMA SubmissionAnnotates ==
  ASSUME TypeOK, AnnotationInv, ToolInv, Annotate
  PROVE  AnnotationInv' /\ ToolInv'
<1> DEFINE s == server.sub
<1>1. server.stage \in {"annotating", "opening", "filling"} /\ UNCHANGED tool
  BY DEF Annotate, others
<1>2. server \in [stage : Before \cup {"annotating", "recording"}, sub : Submissions]
  BY <1>1, ServerShape DEF TypeOK, Before
<1>3. s.doc \in Docs /\ annotations \in [Docs -> Reviewers \cup {NoOne, Someone, Torn}]
  BY <1>2, SubmissionTyping DEF TypeOK
<1>4. CASE server' = Idle /\ UNCHANGED harmed
  BY <1>1, <1>4 DEF AnnotationInv, ToolInv, Idle, Rewriting
<1>5. CASE s.annotation # "object" /\ To("recording") /\ UNCHANGED <<corpus, harmed>>
  BY <1>1, <1>5 DEF To, AnnotationInv, ToolInv, Rewriting, corpus
<1>6. CASE Check /\ s.annotation = "object"
  <2>1. server'.stage = "opening" /\ server'.sub = s
    BY <1>2, <1>6 DEF Check, Goes
  <2> QED
    BY <1>1, <1>6, <2>1 DEF Check, AnnotationInv, ToolInv, Rewriting
<1>7. CASE OpenForServer /\ s.annotation = "object"
  <2>1. server'.stage = "filling" /\ server'.sub = s
    BY <1>2, <1>7 DEF OpenForServer, Truncate, Goes
  <2>2. annotations'[s.doc] = Torn
    BY <1>3, <1>7 DEF OpenForServer, Truncate
  <2>3. AnnotationInv'
    BY <1>7, <2>1, <2>2 DEF AnnotationInv, Rewriting
  <2>4. tool.stage = "filling" => tool.sub.doc \in harmed'
    BY <1>7 DEF OpenForServer, ToolInv
  <2> QED
    BY <1>1, <2>3, <2>4 DEF ToolInv
<1>8. CASE Fill(server) /\ s.annotation = "object"
  <2>1. server'.stage = "listing" /\ server'.sub = s /\ server.stage = "filling"
    BY <1>2, <1>8 DEF Fill, Goes
  <2>2. /\ s.doc \notin harmed => annotations'[s.doc] = s.who
        /\ harmed' = harmed
    <3>1. PICK a \in {s.who} \cup ({Torn} \ {annotations[s.doc]}) :
            annotations' = [annotations EXCEPT ![s.doc] = a]
      BY <1>8 DEF Fill
    <3>2. s.doc \notin harmed => a = s.who
      BY <2>1, <3>1 DEF AnnotationInv
    <3> QED
      BY <1>3, <1>8, <3>1, <3>2 DEF Fill
  <2>3. AnnotationInv'
    BY <1>8, <2>1, <2>2 DEF AnnotationInv, Rewriting
  <2> QED
    BY <1>1, <2>2, <2>3 DEF ToolInv
<1> QED
  BY <1>4, <1>5, <1>6, <1>7, <1>8 DEF Annotate, Refuse

\* And through the steps on the manifest.
LEMMA SubmissionLists ==
  ASSUME TypeOK, AnnotationInv, List
  PROVE  AnnotationInv'
<1> DEFINE s == server.sub
<1>1. \/ server \in [stage : Before \cup {"annotating", "recording"}, sub : Submissions]
      \/ server \in [stage : Rewriting, sub : Submissions, rows : SUBSET Docs]
  BY ServerShape
  DEF List, ReadManifest, EmptyManifest, FillManifest, AppendRow, TypeOK, Before, Rewriting
<1>2. /\ s.annotation = "object"
      /\ s.doc \notin harmed => annotations[s.doc] = s.who
  BY DEF List, ReadManifest, EmptyManifest, FillManifest, AppendRow, AnnotationInv, Rewriting
<1>3. annotations' = annotations /\ harmed \subseteq harmed'
  BY DEF List, ReadManifest, EmptyManifest, FillManifest, AppendRow, corpus
<1>4. CASE ReadManifest(server)
  <2>1. server'.stage = "rewriting" /\ server'.sub = s /\ s.doc \in server'.rows
    BY <1>4 DEF ReadManifest
  <2> QED
    BY <1>2, <1>3, <2>1 DEF AnnotationInv, Rewriting
<1>5. CASE EmptyManifest(server)
  <2>1. /\ server'.stage = "writing" /\ server'.sub = s /\ server'.rows = server.rows
        /\ server.stage = "rewriting"
    BY <1>1, <1>5 DEF EmptyManifest, Goes, Before
  <2> QED
    BY <1>2, <1>3, <2>1 DEF AnnotationInv, Rewriting
<1>6. CASE (FillManifest(server) \/ AppendRow(server)) /\ To("recording")
  <2>1. server'.stage = "recording" /\ server'.sub = s
    BY <1>6 DEF To
  <2>2. s.doc \in manifest'
    BY <1>6 DEF FillManifest, AppendRow, AnnotationInv, Rewriting
  <2> QED
    BY <1>2, <1>3, <2>1, <2>2 DEF AnnotationInv, Rewriting, Listed
<1> QED
  BY <1>4, <1>5, <1>6 DEF List

\* A document that is spared keeps what its submission has written.
LEMMA SubmissionSpared ==
  ASSUME AnnotationInv, UNCHANGED server,
         server.stage \in Submitting \cup {"completing"} =>
           \A d : d = server.sub.doc => Spares(d)
  PROVE  AnnotationInv'
BY DEF AnnotationInv, Spares, Listed, InRewrite, Submitting, Before, Rewriting

\* The step keeps what is written about the corpus.
LEMMA CorpusKept ==
  ASSUME QueueInv, CorpusInv, UNCHANGED queue, AnnotationInv', ToolInv',
         \A d \in Docs :
           d # server.sub.doc \/ server.stage \notin Submitting \cup {"completing"} => Spares(d)
  PROVE  CorpusInv'
<1>1. \A i \in DOMAIN queue : queue[i].status = "completed" =>
        \A d \in Docs : d = queue[i].doc => Spares(d)
  BY NotSubmitted
<1>2. ClaimedWorkIsAnnotated'
  BY <1>1, StaysAnnotated DEF CorpusInv, QueueInv, TypeOK
<1> QED
  BY <1>2 DEF CorpusInv

\* Steps that leave the corpus and the tool alone.
LEMMA CorpusAlone ==
  ASSUME UNCHANGED <<annotations, manifest, harmed, tool>>,
         server.stage # "writing" \/ UNCHANGED server
  PROVE  (\A d : Spares(d)) /\ (ToolInv => ToolInv')
BY DEF Spares, Listed, InRewrite, ToolInv

\* The steps of the submission after the annotation.
LEMMA SubmissionRecords ==
  ASSUME TypeOK, AnnotationInv, Record \/ CompleteRead
  PROVE  AnnotationInv'
<1>1. /\ server.stage = "recording"
      /\ UNCHANGED <<annotations, manifest, harmed, tool>>
  BY DEF Record, CompleteRead, corpus, stores, others
<1>2. server \in [stage : Before \cup {"annotating", "recording"}, sub : Submissions]
  BY <1>1, ServerShape DEF TypeOK
<1>3. \/ server' = Idle
      \/ /\ server'.stage \in {"recording", "completing"}
         /\ server'.sub.doc = server.sub.doc /\ server'.sub.who = server.sub.who
         /\ server'.sub.annotation = server.sub.annotation
  BY <1>1, <1>2 DEF Record, CompleteRead, Submissions
<1>4. \A d : Listed(d) => Listed(d)'
  BY <1>1, CorpusAlone DEF Spares
<1>5. CASE server' = Idle
  BY <1>5 DEF AnnotationInv, Idle, Rewriting
<1>6. CASE /\ server'.stage \in {"recording", "completing"}
           /\ server'.sub.doc = server.sub.doc /\ server'.sub.who = server.sub.who
           /\ server'.sub.annotation = server.sub.annotation
  BY <1>1, <1>6 DEF AnnotationInv, Rewriting, Listed, InRewrite
<1> QED
  BY <1>3, <1>5, <1>6

\* The completion finds the annotation it needs.
LEMMA CompletionIsAnnotated ==
  ASSUME QueueInv, CorpusInv, CompleteWrite
  PROVE  CorpusInv'
<1>1. /\ server.stage = "completing" /\ server' = Idle
      /\ UNCHANGED <<annotations, manifest, harmed, tool>>
  BY DEF CompleteWrite, stores, corpus, others
<1>2. PICK i \in First(queue, server.sub.doc) :
        Rewrite(server.read, i,
                [queue[i] EXCEPT !.status = "completed", !.completedBy = server.sub.who])
  BY DEF CompleteWrite
<1> DEFINE row == [queue[i] EXCEPT !.status = "completed", !.completedBy = server.sub.who]
<1>3. /\ row \in Row /\ row.doc = server.sub.doc /\ server.read \in Nat
      /\ i \in 1..server.read /\ SinceRead(server.read)
      /\ row.claimedBy # NoOne =>
           row.claimedBy = server.sub.who /\ server.sub.annotation = "object"
  BY <1>1, CompletedRow
<1>4. queue' = [SubSeq(queue, 1, server.read) EXCEPT ![i] = row]
  BY <1>2 DEF Rewrite
<1> HIDE DEF row
<1>5. queue \in Seq(Row) /\ server.read <= Len(queue)
  BY <1>3 DEF QueueInv, TypeOK, SinceRead
<1>6. /\ queue' \in Seq(Row) /\ Len(queue') = server.read
      /\ queue'[i] = row
      /\ \A j \in 1..server.read : j # i => queue'[j] = queue[j]
  <2>1. row \in Row /\ server.read \in Nat /\ i \in 1..server.read
    BY <1>3
  <2>2. ASSUME NEW r \in Row, NEW n \in Nat, n <= Len(queue), NEW k \in 1..n,
               queue' = [SubSeq(queue, 1, n) EXCEPT ![k] = r]
        PROVE  /\ queue' \in Seq(Row) /\ Len(queue') = n /\ queue'[k] = r
               /\ \A j \in 1..n : j # k => queue'[j] = queue[j]
    BY <1>5, <2>2, RewriteFacts, SMTT(30)
  <2> QED
    BY <1>4, <1>5, <2>1, <2>2
<1>7. DOMAIN queue' = 1..server.read /\ DOMAIN queue' \subseteq DOMAIN queue
  BY <1>3, <1>5, <1>6
<1>8. (\A d : Spares(d)) /\ ToolInv'
  BY <1>1, CorpusAlone DEF CorpusInv
<1>9. \A d : d = row.doc /\ row.claimedBy # NoOne /\ d \notin harmed =>
        annotations[d] = row.claimedBy /\ (d \in manifest \/ InRewrite(d))
  BY <1>1, <1>3 DEF CorpusInv, AnnotationInv, Listed
<1>10. ClaimedWorkIsAnnotated'
  <2> SUFFICES ASSUME NEW j \in DOMAIN queue', queue'[j].status = "completed",
                      queue'[j].claimedBy # NoOne, queue'[j].doc \notin harmed'
               PROVE  /\ annotations'[queue'[j].doc] = queue'[j].claimedBy
                      /\ \/ queue'[j].doc \in manifest'
                         \/ \E w \in {server', tool'} : w.stage = "writing" /\ queue'[j].doc \in w.rows
    BY DEF ClaimedWorkIsAnnotated, InRewrite
  <2>0. PICK d : d = queue'[j].doc
    OBVIOUS
  <2>1. annotations[d] = queue'[j].claimedBy /\ (d \in manifest \/ InRewrite(d))
    <3>1. CASE j = i
      BY <1>1, <1>6, <1>9, <2>0, <3>1
    <3>2. CASE j # i
      <4>1. j \in DOMAIN queue /\ queue'[j] = queue[j]
        BY <1>6, <1>7, <3>2
      <4> QED
        BY <1>1, <2>0, <4>1 DEF CorpusInv, ClaimedWorkIsAnnotated
    <3> QED
      BY <3>1, <3>2
  <2> QED
    BY <1>1, <1>8, <2>0, <2>1 DEF Spares, Listed, InRewrite
<1>11. AnnotationInv'
  BY <1>1 DEF AnnotationInv, Idle, Rewriting
<1> QED
  BY <1>8, <1>10, <1>11 DEF CorpusInv

\* Claims and samples complete nothing.
LEMMA OthersCompleteNothing ==
  ASSUME QueueInv, CorpusInv, ClaimWrite \/ SampleWrite
  PROVE  CorpusInv'
<1>1. /\ UNCHANGED <<annotations, manifest, harmed, tool>>
      /\ server.stage # "writing" \/ UNCHANGED server
  BY DEF ClaimWrite, SampleWrite, stores, corpus, others
<1>2. (\A d : Spares(d)) /\ ToolInv'
  BY <1>1, CorpusAlone DEF CorpusInv
<1>3. CASE ClaimWrite
  <2> DEFINE row == [queue[server.row] EXCEPT !.status = "claimed", !.claimedBy = server.who]
  <2>1. row \in Row /\ row.status = "claimed" /\ server.read \in Nat
    BY <1>3, ClaimRow
  <2>2. /\ queue' = [SubSeq(queue, 1, server.read) EXCEPT ![server.row] = row]
        /\ server' = Idle /\ SinceRead(server.read) /\ server.row \in 1..server.read
    BY <1>3 DEF ClaimWrite, Rewrite, QueueInv, ServerInv, ClaimInv
  <2> HIDE DEF row
  <2>3. queue \in Seq(Row) /\ server.read <= Len(queue)
    BY <2>2 DEF QueueInv, TypeOK, SinceRead
  <2>4. /\ queue' \in Seq(Row) /\ Len(queue') = server.read
        /\ queue'[server.row] = row
        /\ \A j \in 1..server.read : j # server.row => queue'[j] = queue[j]
    <3>1. queue' = [SubSeq(queue, 1, server.read) EXCEPT ![server.row] = row]
      BY <2>2
    <3>2. server.row \in 1..server.read
      BY <2>2
    <3> QED
      BY <2>1, <2>3, <3>1, <3>2, RewriteFacts, SMTT(60)
  <2>5. DOMAIN queue' = 1..server.read /\ DOMAIN queue' \subseteq DOMAIN queue
    BY <2>1, <2>3, <2>4
  <2>6. ClaimedWorkIsAnnotated'
    BY <1>2, <2>1, <2>4, <2>5, StaysAnnotated DEF CorpusInv, QueueInv, TypeOK
  <2>7. AnnotationInv'
    BY <2>2 DEF AnnotationInv, Idle, Rewriting
  <2> QED
    BY <1>2, <2>6, <2>7 DEF CorpusInv
<1>4. CASE SampleWrite
  <2>1. AnnotationInv'
    BY <1>2, <1>4, SubmissionSpared DEF SampleWrite, CorpusInv
  <2>2. queue' = queue \/ (sampler.stage = "open" /\ queue' = Append(queue, Queued(sampler.doc)))
    BY <1>4 DEF SampleWrite
  <2>3. CASE queue' = queue
    BY <1>2, <2>1, <2>3, StaysAnnotated DEF CorpusInv, QueueInv, TypeOK
  <2>4. CASE sampler.stage = "open" /\ queue' = Append(queue, Queued(sampler.doc))
    <3>1. sampler.doc \in Docs /\ queue \in Seq(Row)
      BY <2>4 DEF QueueInv, TypeOK, Idle
    <3>2. Queued(sampler.doc) \in Row /\ Queued(sampler.doc).status = "queued"
      BY <3>1, QueuedIsRow DEF Queued
    <3>3. /\ queue' \in Seq(Row) /\ Len(queue') = Len(queue) + 1
          /\ \A j \in 1..Len(queue) : queue'[j] = queue[j]
          /\ queue'[Len(queue) + 1] = Queued(sampler.doc)
      BY <2>4, <3>1, <3>2, AppendFacts
    <3>4. /\ \A j \in DOMAIN queue' : j \in DOMAIN queue \/ j = Len(queue) + 1
          /\ DOMAIN queue = 1..Len(queue)
      BY <3>1, <3>3
    <3>5. ClaimedWorkIsAnnotated'
      BY <1>2, <3>2, <3>3, <3>4, StaysAnnotated DEF CorpusInv, QueueInv, TypeOK
    <3> QED
      BY <1>2, <2>1, <3>5 DEF CorpusInv
  <2> QED
    BY <2>2, <2>3, <2>4
<1> QED
  BY <1>3, <1>4

\* Steps that are not about the corpus.
LEMMA RestOfCorpus ==
  ASSUME QueueInv, CorpusInv,
         \/ \E d \in Docs, r \in Reviewers : ClaimRead(d, r)
         \/ \E s \in Submissions : Submit(s)
         \/ \E m \in Measurements : Calibrate(m)
         \/ Record \/ CompleteRead \/ SampleOpen \/ SamplerDies \/ UNCHANGED vars
         \/ \E d \in Docs : SampleRead(d)
  PROVE  CorpusInv'
<1>1. /\ UNCHANGED <<queue, annotations, manifest, harmed, tool>>
      /\ server.stage # "writing" \/ UNCHANGED server
  BY DEF ClaimRead, Submit, Calibrate, Record, CompleteRead, SampleOpen, SamplerDies, SampleRead,
         vars, stores, corpus, others, Idle
<1>2. (\A d : Spares(d)) /\ ToolInv'
  BY <1>1, CorpusAlone DEF CorpusInv
<1>3. ClaimedWorkIsAnnotated'
  BY <1>1, <1>2, StaysAnnotated DEF CorpusInv, QueueInv, TypeOK
<1>4. AnnotationInv'
  <2>1. CASE UNCHANGED server
    BY <1>2, <2>1, SubmissionSpared DEF CorpusInv
  <2>2. CASE Record \/ CompleteRead
    BY <2>2, SubmissionRecords DEF QueueInv, CorpusInv
  <2>3. CASE server'.stage \in {"claiming", "annotating"}
    BY <2>3 DEF AnnotationInv, Rewriting
  <2> QED
    BY <2>1, <2>2, <2>3
    DEF ClaimRead, Submit, Calibrate, SampleOpen, SamplerDies, SampleRead, vars
<1> QED
  BY <1>2, <1>3, <1>4 DEF CorpusInv

LEMMA CorpusStep == QueueInv /\ CorpusInv /\ [Next]_vars => CorpusInv'
<1> SUFFICES ASSUME QueueInv, CorpusInv, [Next]_vars PROVE CorpusInv'
  OBVIOUS
<1>0. TypeOK /\ AnnotationInv /\ ToolInv
  BY DEF QueueInv, CorpusInv
<1>1. CASE \/ \E d \in Docs, overwrite \in BOOLEAN : ToolStart(d, overwrite)
           \/ ToolWrite \/ ToolDies
  <2>1. (\A d \in Docs : Spares(d)) /\ ToolInv' /\ UNCHANGED <<server, queue>>
    BY <1>0, <1>1, ToolSpares, OtherTypes
  <2>2. server.stage \in Submitting \cup {"completing"} => server.sub.doc \in Docs
    BY <1>0, ServerShape, SubmissionTyping DEF TypeOK, Submitting
  <2>3. AnnotationInv'
    BY <1>0, <2>1, <2>2, SubmissionSpared
  <2> QED
    BY <2>1, <2>3, CorpusKept
<1>2. CASE ServerCrash
  <2>1. (\A d \in Docs : Spares(d)) /\ ToolInv' /\ AnnotationInv' /\ queue' = queue
    BY <1>0, <1>2, ServerSpares DEF ServerCrash, Dies, AnnotationInv, ToolInv, Idle, Rewriting, others, Spares
  <2> QED
    BY <2>1, CorpusKept
<1>3. CASE List
  <2>1. AnnotationInv' /\ UNCHANGED <<queue, tool>>
    BY <1>0, <1>3, SubmissionLists, ServerSpares DEF List
  <2>2. \A d \in Docs : Spares(d)
    BY <1>0, <1>3, ServerSpares
  <2>3. ToolInv'
    <3>1. harmed \subseteq harmed'
      BY <1>3 DEF List, ReadManifest, EmptyManifest, FillManifest, AppendRow
    <3> QED
      BY <1>0, <2>1, <3>1 DEF ToolInv
  <2> QED
    BY <2>1, <2>2, <2>3, CorpusKept
<1>4. CASE Annotate
  <2>1. AnnotationInv' /\ ToolInv' /\ queue' = queue
    BY <1>0, <1>4, SubmissionAnnotates DEF Annotate
  <2>2. /\ \A d \in Docs : d # server.sub.doc => Spares(d)
        /\ server.stage \in Submitting
    BY <1>0, <1>4, AnnotateSpares DEF Submitting, Before
  <2> QED
    BY <2>1, <2>2, CorpusKept
<1>5. CASE CompleteWrite
  BY <1>5, CompletionIsAnnotated
<1>6. CASE ClaimWrite \/ SampleWrite
  BY <1>6, OthersCompleteNothing
<1>7. CASE \/ \E d \in Docs, r \in Reviewers : ClaimRead(d, r)
           \/ \E s \in Submissions : Submit(s)
           \/ \E m \in Measurements : Calibrate(m)
           \/ Record \/ CompleteRead \/ SampleOpen \/ SamplerDies \/ UNCHANGED vars
           \/ \E d \in Docs : SampleRead(d)
  BY <1>7, RestOfCorpus
<1> QED
  BY <1>1, <1>2, <1>3, <1>4, <1>5, <1>6, <1>7 DEF Next

-----------------------------------------------------------------------------
(* The theorems.                                                           *)

\* All that the requests, the sampler and the tools keep.
ReviewInv == QueueInv /\ CorpusInv

\* The inductive invariant: what the requests and the sampler rely on, what is
\* in the annotations and their manifest, and the three properties.
THEOREM ReviewInvariance == Spec => []ReviewInv
<1>1. Init => ReviewInv
  BY InitInv DEF ReviewInv
<1>2. ReviewInv /\ [Next]_vars => ReviewInv'
  BY QueueStep, CorpusStep DEF ReviewInv
<1> QED
  BY <1>1, <1>2, PTL DEF Spec

\* The queue, the stores beside it and the processes on them keep their types
\* (quality_routes.py:722-806, sample_quality_reviews.py:277-321,
\* annotate_corpus.py:690-746).
THEOREM ReviewTyping == Spec => []TypeOK
<1>1. ReviewInv => TypeOK
  BY DEF ReviewInv, QueueInv
<1> QED
  BY <1>1, ReviewInvariance, PTL

\* However many documents and rows there are, a document never has two rows
\* that await review (sample_quality_reviews.py:254-270).
THEOREM ReviewOneOpenRow == Spec => []OneOpenRow
<1>1. ReviewInv => OneOpenRow
  BY DEF ReviewInv, QueueInv
<1> QED
  BY <1>1, ReviewInvariance, PTL

\* Every claimed review that counts as completed has its holder's annotation on
\* disk and in the manifest, or the annotate tool has opened the annotation, or
\* a rewrite of the manifest lost the row (quality_routes.py:583-596,
\* annotate_corpus.py:690-746).
THEOREM ReviewClaimedIsAnnotated == Spec => []ClaimedWorkIsAnnotated
<1>1. ReviewInv => ClaimedWorkIsAnnotated
  BY DEF ReviewInv, CorpusInv
<1> QED
  BY <1>1, ReviewInvariance, PTL

\* What a rewrite does to the rows that are claimed or completed.
LEMMA RewriteKeeps ==
  ASSUME QueueInv, NEW n \in Nat, SinceRead(n), NEW i \in 1..n, NEW row \in Row,
         row = queue[i] \/ queue[i].status = "queued" \/ Survives(queue[i], row),
         queue' = [SubSeq(queue, 1, n) EXCEPT ![i] = row]
  PROVE  \A j \in DOMAIN queue :
           queue[j].status # "queued" => j \in DOMAIN queue' /\ Survives(queue[j], queue'[j])
<1>1. queue \in Seq(Row) /\ n <= Len(queue)
  BY DEF QueueInv, TypeOK, SinceRead
<1>2. /\ queue' \in Seq(Row) /\ Len(queue') = n
      /\ queue'[i] = row
      /\ \A j \in 1..n : j # i => queue'[j] = queue[j]
  BY <1>1, RewriteFacts
<1>3. DOMAIN queue = 1..Len(queue) /\ DOMAIN queue' = 1..n /\ Len(queue) \in Nat
  BY <1>1, <1>2
<1> SUFFICES ASSUME NEW j \in DOMAIN queue, queue[j].status # "queued"
             PROVE  j \in DOMAIN queue' /\ Survives(queue[j], queue'[j])
  OBVIOUS
<1>4. j \in 1..n
  BY <1>3 DEF SinceRead
<1>5. CASE j # i
  BY <1>2, <1>3, <1>4, <1>5 DEF Survives
<1>6. CASE j = i
  BY <1>2, <1>3, <1>4, <1>6 DEF Survives
<1> QED
  BY <1>5, <1>6

\* No step drops or hands over a claim, or undoes a completion; a claim ends
\* only when its holder completes it (quality_routes.py:914-1012).
THEOREM ReviewReviewsAreNeverLost == Spec => ReviewsAreNeverLost
<1> DEFINE Kept == \A i \in DOMAIN queue :
                     queue[i].status # "queued" => i \in DOMAIN queue' /\ Survives(queue[i], queue'[i])
<1>1. QueueInv /\ [Next]_vars => Kept
  <2> SUFFICES ASSUME QueueInv, [Next]_vars PROVE Kept
    OBVIOUS
  <2>1. CASE ClaimWrite
    <3> DEFINE row == [queue[server.row] EXCEPT !.status = "claimed", !.claimedBy = server.who]
    <3>1. /\ queue' = [SubSeq(queue, 1, server.read) EXCEPT ![server.row] = row]
          /\ SinceRead(server.read) /\ server.row \in 1..server.read
          /\ server.row \in DOMAIN queue
      BY <2>1 DEF ClaimWrite, Rewrite, QueueInv, ServerInv, ClaimInv, First
    <3>2. /\ row \in Row /\ server.read \in Nat /\ queue[server.row] \in Row
          /\ queue[server.row].status # "completed"
          /\ queue[server.row].claimedBy \in {NoOne, server.who}
      BY <2>1, ClaimRow
    <3>3. queue[server.row].status = "claimed" => queue[server.row].claimedBy = server.who
      BY <3>1, <3>2 DEF QueueInv, RowsInv
    <3>4. queue[server.row].status = "queued" \/ row = queue[server.row]
      BY <3>2, <3>3 DEF Row
    <3> HIDE DEF row
    <3> QED
      BY <3>1, <3>2, <3>4, RewriteKeeps
  <2>2. CASE CompleteWrite
    <3>1. PICK i \in First(queue, server.sub.doc) :
            Rewrite(server.read, i,
                    [queue[i] EXCEPT !.status = "completed", !.completedBy = server.sub.who])
      BY <2>2 DEF CompleteWrite
    <3> DEFINE row == [queue[i] EXCEPT !.status = "completed", !.completedBy = server.sub.who]
    <3>2. queue' = [SubSeq(queue, 1, server.read) EXCEPT ![i] = row] /\ i \in DOMAIN queue
      BY <3>1 DEF Rewrite, First
    <3>3. /\ row \in Row /\ server.read \in Nat /\ i \in 1..server.read /\ SinceRead(server.read)
          /\ row.doc = queue[i].doc /\ row.status = "completed"
          /\ row.completedBy = server.sub.who /\ row.claimedBy = queue[i].claimedBy
          /\ queue[i] \in Row /\ queue[i].status # "completed"
          /\ row.claimedBy # NoOne => row.claimedBy = server.sub.who
      BY <2>2, CompletedRow DEF CompleteWrite
    <3> HIDE DEF row
    <3>4. queue[i].status = "claimed" => queue[i].claimedBy # NoOne
      BY <3>2 DEF QueueInv, RowsInv
    <3>5. queue[i].status = "queued" \/ queue[i].status = "claimed"
      BY <3>3 DEF Row
    <3>6. queue[i].status = "queued" \/ Survives(queue[i], row)
      BY <3>3, <3>4, <3>5 DEF Survives
    <3> QED
      BY <3>2, <3>3, <3>6, RewriteKeeps
  <2>3. CASE SampleWrite
    <3>1. queue' = queue \/ (sampler.stage = "open" /\ queue' = Append(queue, Queued(sampler.doc)))
      BY <2>3 DEF SampleWrite
    <3>2. CASE queue' = queue
      BY <3>2 DEF Survives
    <3>3. CASE sampler.stage = "open" /\ queue' = Append(queue, Queued(sampler.doc))
      <4>1. sampler.doc \in Docs /\ queue \in Seq(Row)
        BY <3>3 DEF QueueInv, TypeOK, Idle
      <4>2. Queued(sampler.doc) \in Row
        BY <4>1, QueuedIsRow
      <4>3. /\ queue' \in Seq(Row) /\ Len(queue') = Len(queue) + 1
            /\ \A j \in 1..Len(queue) : queue'[j] = queue[j]
        BY <3>3, <4>1, <4>2, AppendFacts
      <4>4. \A j \in DOMAIN queue : j \in DOMAIN queue' /\ queue'[j] = queue[j]
        BY <4>1, <4>3
      <4> QED
        BY <4>4 DEF Survives
    <3> QED
      BY <3>1, <3>2, <3>3
  <2>4. CASE queue' = queue
    BY <2>4 DEF Survives
  <2>5. queue' = queue \/ ClaimWrite \/ CompleteWrite \/ SampleWrite
    BY DEF Next, ClaimRead, Submit, Calibrate, Annotate, List, Record, CompleteRead,
           SampleRead, SampleOpen, ToolStart, ToolWrite, ServerCrash, SamplerDies, ToolDies, Dies,
           vars
  <2> QED
    BY <2>1, <2>2, <2>3, <2>4, <2>5
<1>2. ReviewInv => QueueInv
  BY DEF ReviewInv
<1> QED
  BY <1>1, <1>2, ReviewInvariance, PTL DEF Spec, ReviewsAreNeverLost
=============================================================================
