---------------------------- MODULE FixVerifyProofs ----------------------------
(***************************************************************************)
(* What the judgements on an evaluated PDF are worth, and that the report  *)
(* and the verdict of a fix are true of the PDF it leaves behind.          *)
(***************************************************************************)
EXTENDS FixVerify, FiniteSetTheorems, TLAPS

-----------------------------------------------------------------------------
(* Judgements.                                                             *)

\* An evaluation repeats the facts wherever no validator broke down.
LEMMA EvaluationsReport ==
  ASSUME NEW f \in Facts, NEW inst \in BOOLEAN, NEW e \in Evaluations(f, inst)
  PROVE  /\ e \in Evidence /\ e.openable /\ e.similar
         /\ e.veraChecked = inst
         /\ ~e.checkerError => e.checker = f.checker
         /\ ~e.readerError => e.reader = f.reader
         /\ inst /\ ~e.veraError => e.vera = f.vera
<1> DEFINE o == [NoEvidence EXCEPT !.openable = TRUE]
           After(c) == UNION {Validated(r, f, inst) : r \in Read(c, f)}
<1>1. PICK c \in Inspected(o, f) : e \in After(c)
  <2>1. e \in UNION {After(c) : c \in Inspected(o, f)}
    BY DEF Evaluations
  <2> HIDE DEF After, o
  <2> QED
    BY <2>1
<1>2. PICK r \in Read(c, f) : e \in Validated(r, f, inst)
  BY <1>1
<1>3. NoEvidence \in Evidence
  BY DEF NoEvidence, Evidence
<1>4. /\ o \in Evidence /\ o.openable = TRUE /\ o.similar = TRUE
      /\ o.reader = FALSE /\ o.readerError = FALSE /\ o.checkerError = FALSE
      /\ o.veraChecked = FALSE /\ o.vera = {} /\ o.veraError = FALSE
  <2>1. /\ NoEvidence.similar = TRUE
        /\ NoEvidence.reader = FALSE /\ NoEvidence.readerError = FALSE
        /\ NoEvidence.checkerError = FALSE
        /\ NoEvidence.veraChecked = FALSE /\ NoEvidence.vera = {} /\ NoEvidence.veraError = FALSE
    BY DEF NoEvidence
  <2> HIDE DEF NoEvidence
  <2> QED
    BY <1>3, <2>1 DEF Evidence
<1> HIDE DEF o
<1>5. /\ c \in Evidence /\ c.openable = TRUE /\ c.similar = TRUE
      /\ c.reader = FALSE /\ c.readerError = FALSE
      /\ c.veraChecked = FALSE /\ c.vera = {} /\ c.veraError = FALSE
      /\ c.checkerError = FALSE => c.checker = f.checker
  <2>1. CASE c = [o EXCEPT !.checker = f.checker]
    BY <1>4, <2>1 DEF Evidence, Facts
  <2>2. CASE c = [o EXCEPT !.checkerError = TRUE]
    BY <1>4, <2>2 DEF Evidence
  <2> QED
    BY <2>1, <2>2 DEF Inspected
<1>6. /\ r \in Evidence /\ r.openable = TRUE /\ r.similar = TRUE
      /\ r.veraChecked = FALSE /\ r.vera = {} /\ r.veraError = FALSE
      /\ r.checkerError = FALSE => r.checker = f.checker
      /\ r.readerError = FALSE => r.reader = f.reader
  <2>1. CASE r = [c EXCEPT !.reader = f.reader]
    BY <1>5, <2>1 DEF Evidence, Facts
  <2>2. CASE r = [c EXCEPT !.readerError = TRUE]
    BY <1>5, <2>2 DEF Evidence
  <2> QED
    BY <1>2, <2>1, <2>2 DEF Read
<1>7. /\ e \in Evidence /\ e.openable = TRUE /\ e.similar = TRUE
      /\ e.veraChecked = inst
      /\ e.checkerError = FALSE => e.checker = f.checker
      /\ e.readerError = FALSE => e.reader = f.reader
      /\ inst /\ e.veraError = FALSE => e.vera = f.vera
  <2>1. CASE ~inst
    BY <1>2, <1>6, <2>1 DEF Validated
  <2>2. CASE inst /\ e = [r EXCEPT !.veraChecked = TRUE, !.vera = f.vera]
    BY <1>6, <2>2 DEF Evidence, Facts
  <2>3. CASE inst /\ e = [r EXCEPT !.veraChecked = TRUE, !.veraError = TRUE]
    BY <1>6, <2>3 DEF Evidence
  <2> QED
    BY <1>2, <2>1, <2>2, <2>3 DEF Validated
<1> QED
  BY <1>7 DEF Evidence

\* In a PDF called clean no validator finds anything but what the code lets through
\* - the checker's failures of the source's font encoding and checks left to a human
\* (pdf_acceptance.py:237-240) - and none broke down: where veraPDF is installed it
\* has passed (cli_pdf.py:409).
THEOREM CleanIsVerified ==
  ASSUME NEW f \in Facts, NEW inst \in BOOLEAN,
         NEW e \in Evaluations(f, inst), Clean(e)
  PROVE  /\ f.checker \cap {"cosmetic", "blocking"} = {} /\ ~f.reader
         /\ inst => f.vera = {}
         /\ Passed(e)
  BY EvaluationsReport DEF Clean, Warned, Passed, CheckerBlocks, VeraPassed

\* What the report calls conformant has no blocking failure, no screen reader error
\* and, where veraPDF is installed, violates font rules at most - even though
\* passed, which it is computed from, says less (compliance_report.py:207, 216).
THEOREM FullConformanceIsVerified ==
  ASSUME NEW f \in Facts, NEW inst \in BOOLEAN,
         NEW e \in Evaluations(f, inst), Conformance(e) = "full"
  PROVE  /\ "blocking" \notin f.checker /\ ~f.reader
         /\ inst => f.vera \subseteq {"source_font"}
<1>1. CASE Clean(e)
  BY <1>1, CleanIsVerified
<1>2. CASE Harmless(e)
  BY <1>2, EvaluationsReport DEF Harmless, OnlySourceFont, VeraPassed
<1> QED
  BY <1>1, <1>2, EvaluationsReport DEF Conformance

\* No document that opens is reported as Not Conformant: without a warning the
\* verdict has passed, and the last two returns are never reached
\* (compliance_report.py:229-233).
THEOREM OpenableIsAtLeastPartial ==
  ASSUME NEW e \in Evidence, e.openable
  PROVE  Conformance(e) \in {"full", "partial"}
  BY DEF Conformance, Clean

\* Level 3 and above is reached only through veraPDF, installed and without a
\* violation, level 4 only by a conformant document (levels.py:186, 202).
THEOREM LevelsAreEarned ==
  ASSUME NEW f \in Facts, NEW inst \in BOOLEAN, NEW e \in Evaluations(f, inst),
         NEW p \in Probes, NEW q \in Qualities
  PROVE  /\ Level(e, p, q) >= 3 => inst /\ f.vera = {} /\ p.declared
         /\ Level(e, p, q) = 4 => ~f.reader /\ "blocking" \notin f.checker /\ q = "passed"
<1>1. ASSUME ~(e.veraChecked /\ VeraPassed(e) /\ p.declared) PROVE Level(e, p, q) \in 0..2
  BY <1>1 DEF Level
<1>2. Level(e, p, q) = 4 => Conformance(e) = "full" /\ q = "passed"
  BY DEF Level
<1>3. e.veraChecked /\ VeraPassed(e) => inst /\ f.vera = {}
  BY EvaluationsReport DEF VeraPassed
<1> QED
  BY <1>1, <1>2, <1>3, FullConformanceIsVerified

\* The gate of the rebuild tier lets nothing but font violations through, except
\* when a validator breaks down (pdf_acceptance.py:317).
THEOREM PassedIsVerifiedUnlessBroken ==
  ASSUME NEW f \in Facts, NEW inst \in BOOLEAN, NEW e \in Evaluations(f, inst),
         Passed(e), ~(e.checkerError \/ e.readerError \/ e.veraError)
  PROVE  /\ "blocking" \notin f.checker /\ ~f.reader
         /\ inst => f.vera \subseteq {"source_font"}
  BY EvaluationsReport DEF Passed, CheckerBlocks, VeraPassed, OnlySourceFont

-----------------------------------------------------------------------------
(* The fix.                                                                *)

\* Until the gate nothing is said about looks; the second try starts from a report
\* that is true of the PDF; from then on the report stays true.
Early == {"fix_all", "cycle", "lists", "vision", "conformance", "cleanup", "gate"}

ReportInv ==
  /\ pc \in Early => ~flagged /\ action = ""
  /\ pc = "recovery" => ~flagged /\ action = "" /\ (measured => visual = pdf.diff)
  /\ (pc = "closing" \/ (pc \in {"end", "returned"} /\ opts.original)) /\ measured =>
       visual = pdf.diff /\ (flagged <=> pdf.diff > Review)

\* While fix_all runs nothing is saved, and what it has changed in memory is listed,
\* as changed or as skipped.
MemoryInv ==
  pc = "fix_all" => held = {} /\ changes \subseteq memory /\ memory \subseteq changes \cup skipped

VerdictInv == verdict # "" => pc = "returned"

FixInv == TypeOK /\ ReportInv /\ MemoryInv /\ ReportAccountsForFile /\ VerdictInv

LEMMA PdfFields ==
  ASSUME NEW p \in Pdfs
  PROVE  p.facts \in Found /\ p.diff \in Diffs
  BY DEF Pdfs

\* What a pass leaves is a PDF that looks as it did.
LEMMA RetaggedFields ==
  ASSUME NEW p \in Pdfs, NEW q \in Retagged(p)
  PROVE  q \in Pdfs /\ q.diff = p.diff
  BY PdfFields DEF Retagged, Pdfs

LEMMA InitFix == Init => FixInv
<1> SUFFICES ASSUME Init PROVE FixInv
  OBVIOUS
<1>1. pdf \in Pdfs
  <2>1. Unfixed \in Found
    BY FixAssumption DEF Unfixed, Found
  <2>2. 0 \in Diffs
    BY FixAssumption DEF Diffs
  <2>3. pdf = [facts |-> Unfixed, diff |-> 0]
    BY DEF Init
  <2> QED
    BY <2>1, <2>2, <2>3 DEF Pdfs
<1>2. opts \in Options /\ visual \in Diffs
  <2>1. opts \in {o \in Options : Sensible(o)} /\ visual = 0
    BY DEF Init
  <2> QED
    BY <2>1, FixAssumption DEF Diffs
<1>3. /\ installed \in BOOLEAN /\ tier = 1 /\ pc = "fix_all" /\ late = FALSE
      /\ action = "" /\ flagged = FALSE /\ measured = TRUE /\ verdict = ""
  BY DEF Init
<1>4. cycle = 0 /\ done = 0 /\ memory = {} /\ held = {} /\ changes = {} /\ skipped = {}
  BY DEF Init
<1>5. cycle \in 0..MaxCycles /\ done \in 0..FixCount
  BY <1>4, FixAssumption
<1>6. TypeOK
  BY <1>1, <1>2, <1>3, <1>4, <1>5 DEF TypeOK
<1> QED
  BY <1>3, <1>4, <1>6
  DEF FixInv, ReportInv, MemoryInv, ReportAccountsForFile, VerdictInv, Early

\* A save that is listed, or neither, keeps the two in step.
LEMMA SavesAreListed ==
  ASSUME FixInv, pc # "fix_all", pc' # "fix_all",
         \/ held' = held \cup {Later} /\ changes' = changes \cup {Later}
         \/ UNCHANGED <<held, changes>>,
         UNCHANGED <<skipped, action>>, pc' = "raised" \/ pc # "raised"
  PROVE  MemoryInv' /\ ReportAccountsForFile'
  BY DEF FixInv, MemoryInv, ReportAccountsForFile

\* The passes around the gate, in one lemma: the PDF keeps its looks, or the gate is
\* yet to come.
LEMMA PassKeepsFix ==
  ASSUME FixInv, NEW at \in {"lists", "vision", "conformance", "cleanup", "closing"},
         NEW enabled, NEW results, NEW next \in (Early \ {"fix_all", "cycle"}) \cup {"end"},
         Pass(at, enabled, results, next),
         \A q \in results : q \in Pdfs,
         \/ at # "closing" /\ (next = "end" => ~opts.original)
         \/ at = "closing" /\ next = "end" /\ \A q \in results : q.diff = pdf.diff
  PROVE  FixInv'
<1>1. /\ UNCHANGED <<installed, opts, tier, cycle, done, memory, skipped, visual, action, flagged,
                     measured, verdict>>
      /\ pc = at /\ pc' = next /\ late' \in BOOLEAN
  BY DEF Pass, Keep, Tick, run, open, FixInv, TypeOK
<1>2. \/ pdf' \in results /\ held' = held \cup {Later} /\ changes' = changes \cup {Later}
      \/ UNCHANGED <<pdf, held, changes>>
  BY DEF Pass, Save, Skip, file
<1>3. /\ pdf' \in Pdfs
      /\ held' \subseteq Fixes \cup {Later} /\ changes' \subseteq Fixes \cup {Later}
      /\ at = "closing" => pdf'.diff = pdf.diff
  BY <1>2 DEF FixInv, TypeOK
<1>4. pc' # "fix_all" /\ pc' # "raised" /\ pc # "fix_all" /\ pc # "raised"
  BY <1>1 DEF Early
<1>5. TypeOK'
  BY <1>1, <1>3, ZenonT(30) DEF FixInv, TypeOK, Early
<1>6. ReportInv'
  BY <1>1, <1>3 DEF FixInv, ReportInv, Early
<1>7. MemoryInv' /\ ReportAccountsForFile'
  BY <1>1, <1>2, <1>4, SavesAreListed
<1>8. VerdictInv'
  BY <1>1, <1>4 DEF FixInv, VerdictInv, Early
<1> QED
  BY <1>5, <1>6, <1>7, <1>8 DEF FixInv

LEMMA RunFixKeepsFix ==
  ASSUME FixInv, RunFix PROVE FixInv'
<1>1. /\ UNCHANGED <<installed, opts, tier, pc, cycle, pdf, held, visual, action, flagged,
                     measured, verdict>>
      /\ pc = "fix_all" /\ done' = done + 1 /\ done < FixCount /\ late' \in BOOLEAN
  BY DEF RunFix, Tick, run, file, FixInv, TypeOK
<1>2. /\ done \in 0..FixCount /\ done' \in 0..FixCount
      /\ done + 1 \in Fixes
  <2>1. done \in 0..FixCount
    BY DEF FixInv, TypeOK
  <2>2. FixCount \in Nat
    BY FixAssumption
  <2>3. done' = done + 1 /\ done < FixCount
    BY <1>1
  <2> QED
    BY <2>1, <2>2, <2>3 DEF Fixes
<1>3. PICK f \in Fixes :
        \/ memory' = memory \cup {f} /\ changes' = changes \cup {f} /\ UNCHANGED skipped
        \/ /\ memory' \in {memory, memory \cup {f}} /\ skipped' = skipped \cup {f}
           /\ UNCHANGED changes
        \/ UNCHANGED <<memory, changes, skipped>>
  BY <1>2 DEF RunFix, Fails
<1>4. /\ memory' \subseteq Fixes /\ changes' \subseteq Fixes \cup {Later} /\ skipped' \subseteq Fixes
      /\ held' = {} /\ changes' \subseteq memory' /\ memory' \subseteq changes' \cup skipped'
  BY <1>1, <1>3 DEF FixInv, TypeOK, MemoryInv
<1>5. TypeOK'
  BY <1>1, <1>2, <1>4 DEF FixInv, TypeOK
<1> QED
  BY <1>1, <1>4, <1>5 DEF FixInv, ReportInv, MemoryInv, ReportAccountsForFile, VerdictInv, Early

LEMMA FixAllKeepsFix ==
  ASSUME FixInv, FixAll PROVE FixInv'
<1>1. /\ UNCHANGED <<installed, opts, tier, cycle, done, changes, skipped, visual, action,
                     flagged, measured, verdict>>
      /\ pc = "fix_all"
  BY DEF FixAll, Raise, Keep, run, report, open
<1>2. late' \in BOOLEAN /\ ~flagged /\ action = "" /\ verdict = ""
  BY <1>1 DEF FixAll, Tick, FixInv, TypeOK, ReportInv, VerdictInv, Early
<1>3. \/ pc' = "raised" /\ UNCHANGED <<pdf, held, memory>>
      \/ pc' = "cycle" /\ pdf' \in Pdfs /\ held' = memory /\ memory' = {}
  BY DEF FixAll, Raise, file, open
<1>4. /\ pdf' \in Pdfs /\ memory' \subseteq Fixes /\ held' \subseteq Fixes \cup {Later}
      /\ pc' \in {"raised", "cycle"}
  BY <1>3 DEF FixInv, TypeOK
<1>5. ReportAccountsForFile'
  BY <1>1, <1>3 DEF FixInv, MemoryInv, ReportAccountsForFile
<1>6. TypeOK'
  BY <1>1, <1>2, <1>4 DEF FixInv, TypeOK
<1> QED
  BY <1>1, <1>2, <1>4, <1>5, <1>6 DEF FixInv, ReportInv, MemoryInv, VerdictInv, Early

LEMMA CycleKeepsFix ==
  ASSUME FixInv, Cycle PROVE FixInv'
<1>1. /\ UNCHANGED <<installed, opts, tier, done, memory, skipped, visual, action, flagged,
                     measured, verdict>>
      /\ pc = "cycle"
  BY DEF Cycle, Raise, Keep, run, report, open
<1>2. late' \in BOOLEAN /\ ~flagged /\ action = "" /\ verdict = ""
  BY <1>1 DEF Cycle, Tick, FixInv, TypeOK, ReportInv, VerdictInv, Early
<1>3. pc' \in {"raised", "lists", "cycle"}
  BY <1>1 DEF Cycle, Raise
<1>4. \/ UNCHANGED <<pdf, held, changes, cycle>>
      \/ /\ pdf' \in Retagged(pdf) /\ held' = held \cup {Later} /\ changes' = changes \cup {Later}
         /\ cycle < MaxCycles /\ cycle' = cycle + 1
  BY DEF Cycle, Raise, Save, Skip, report, file
<1>5. pdf \in Pdfs /\ cycle \in 0..MaxCycles
  BY DEF FixInv, TypeOK
<1>6. /\ pdf' \in Pdfs
      /\ held' \subseteq Fixes \cup {Later} /\ changes' \subseteq Fixes \cup {Later}
  BY <1>4, <1>5, RetaggedFields DEF FixInv, TypeOK
<1>7. cycle' \in 0..MaxCycles
  BY <1>4, <1>5, FixAssumption
<1>8. TypeOK'
  BY <1>1, <1>2, <1>3, <1>6, <1>7 DEF FixInv, TypeOK
<1>9. MemoryInv' /\ ReportAccountsForFile'
  BY <1>1, <1>3, <1>4, SavesAreListed
<1> QED
  BY <1>1, <1>2, <1>3, <1>8, <1>9 DEF FixInv, ReportInv, VerdictInv, Early

\* Whatever was measured is a difference, and it is that of the PDF if it is real.
LEMMA MeasureFields ==
  ASSUME NEW p \in Pdfs, NEW m \in Measure(p)
  PROVE  m.diff \in Diffs /\ m.real \in BOOLEAN /\ (m.real => m.diff = p.diff)
<1>1. p.diff \in Diffs /\ 0 \in Diffs
  BY PdfFields, FixAssumption DEF Diffs
<1>2. CASE m = [diff |-> p.diff, real |-> TRUE]
  BY <1>1, <1>2
<1>3. CASE m = [diff |-> 0, real |-> FALSE]
  BY <1>1, <1>3
<1> QED
  BY <1>2, <1>3 DEF Measure

LEMMA FlagFields ==
  ASSUME NEW d, ~flagged, Flag(d) PROVE flagged' \in BOOLEAN /\ (flagged' <=> d > Review)
<1> DEFINE b == flagged \/ d > Review
<1>1. flagged' = b
  BY DEF Flag
<1>2. b \in BOOLEAN /\ (b <=> d > Review)
  BY Zenon
<1> HIDE DEF b
<1> QED
  BY <1>1, <1>2, Zenon

LEMMA GateKeepsFix ==
  ASSUME FixInv, Gate PROVE FixInv'
<1>1. PICK m \in Measure(pdf) :
        /\ visual' = m.diff /\ measured' = (measured /\ m.real)
        /\ \/ pc' = "recovery" /\ UNCHANGED flagged
           \/ pc' = "closing" /\ Flag(m.diff)
  BY DEF Gate
<1>2. /\ UNCHANGED <<installed, opts, tier, cycle, done, memory, pdf, held, changes, skipped,
                     action, verdict>>
      /\ pc = "gate" /\ late' \in BOOLEAN
  BY DEF Gate, run, open, file, Tick, FixInv, TypeOK
<1>3. /\ pdf \in Pdfs /\ pdf.diff \in Diffs /\ measured \in BOOLEAN
      /\ ~flagged /\ action = "" /\ verdict = ""
  BY <1>2, PdfFields DEF FixInv, TypeOK, ReportInv, VerdictInv, Early
<1>4. m.diff \in Diffs /\ m.real \in BOOLEAN /\ (m.real => m.diff = pdf.diff)
  BY <1>3, MeasureFields
<1>5. visual' \in Diffs /\ measured' \in BOOLEAN /\ (measured' => visual' = pdf'.diff)
  BY <1>1, <1>2, <1>3, <1>4
<1>6. /\ flagged' \in BOOLEAN
      /\ pc' = "recovery" => ~flagged'
      /\ pc' = "closing" => (flagged' <=> visual' > Review)
  <2>1. CASE pc' = "recovery" /\ UNCHANGED flagged
    <3>1. flagged \in BOOLEAN /\ ~flagged
      BY <1>3 DEF FixInv, TypeOK
    <3> QED
      BY <2>1, <3>1
  <2>2. CASE pc' = "closing" /\ Flag(m.diff)
    <3>1. flagged' \in BOOLEAN /\ (flagged' <=> m.diff > Review)
      BY <1>3, <2>2, FlagFields
    <3> QED
      BY <1>1, <2>2, <3>1
  <2>3. \/ pc' = "recovery" /\ UNCHANGED flagged
        \/ pc' = "closing" /\ Flag(m.diff)
    BY <1>1
  <2> QED
    BY <2>1, <2>2, <2>3
<1>7. pc' \in {"recovery", "closing"}
  BY <1>1
<1>8. TypeOK'
  BY <1>2, <1>5, <1>6, <1>7 DEF FixInv, TypeOK
<1> QED
  BY <1>2, <1>3, <1>5, <1>6, <1>7, <1>8
  DEF FixInv, ReportInv, MemoryInv, ReportAccountsForFile, VerdictInv, Early

\* The three ways out of the second try.
LEMMA RecoverCases ==
  ASSUME Recover
  PROVE  \/ /\ pc' = "closing" /\ action' = "kept_gs" /\ Flag(visual)
            /\ UNCHANGED <<pdf, held, visual>> /\ (measured' => measured)
            /\ measured' \in {measured, FALSE}
         \/ /\ pc' = "raised" /\ UNCHANGED <<pdf, held, visual, action, flagged>>
            /\ measured' \in {measured, FALSE}
         \/ \E p \in Pdfs : \E m \in Measure(p) :
              /\ Better(m.diff) /\ Replace(p, m.diff) /\ pc' = "closing"
              /\ measured' = (measured /\ m.real)
<1>1. CASE /\ pc' = "closing" /\ action' = "kept_gs" /\ Flag(visual)
           /\ UNCHANGED <<pdf, held, visual, measured>>
  BY <1>1
<1>2. ASSUME NEW p \in Pdfs, NEW m \in Measure(p),
             measured' = (measured /\ m.real),
             IF Better(m.diff)
             THEN \/ pc' = "closing" /\ Replace(p, m.diff)
                  \/ pc' = "raised" /\ UNCHANGED <<pdf, held, visual, action, flagged>>
             ELSE /\ pc' = "closing" /\ action' = "kept_gs" /\ Flag(visual)
                  /\ UNCHANGED <<pdf, held, visual>>
      PROVE  \/ /\ pc' = "closing" /\ action' = "kept_gs" /\ Flag(visual)
                /\ UNCHANGED <<pdf, held, visual>> /\ (measured' => measured)
                /\ measured' \in {measured, FALSE}
             \/ /\ pc' = "raised" /\ UNCHANGED <<pdf, held, visual, action, flagged>>
                /\ measured' \in {measured, FALSE}
             \/ /\ Better(m.diff) /\ Replace(p, m.diff) /\ pc' = "closing"
                /\ measured' = (measured /\ m.real)
  <2>1. m.real \in BOOLEAN
    BY MeasureFields
  <2> QED
    BY <1>2, <2>1
<1> QED
  BY <1>1, <1>2 DEF Recover, file

LEMMA RecoverKeepsFix ==
  ASSUME FixInv, Recover PROVE FixInv'
<1>1. /\ UNCHANGED <<installed, opts, tier, cycle, done, memory, changes, skipped, verdict>>
      /\ pc = "recovery" /\ late' \in BOOLEAN
  BY DEF Recover, run, open, Tick, FixInv, TypeOK
<1>2. /\ pdf \in Pdfs /\ pdf.diff \in Diffs /\ visual \in Diffs /\ measured \in BOOLEAN
      /\ ~flagged /\ action = "" /\ verdict = ""
      /\ measured => visual = pdf.diff
  BY <1>1, PdfFields DEF FixInv, TypeOK, ReportInv, VerdictInv
<1>3. CASE /\ pc' = "closing" /\ action' = "kept_gs" /\ Flag(visual)
           /\ UNCHANGED <<pdf, held, visual>> /\ (measured' => measured)
           /\ measured' \in {measured, FALSE}
  <2>1. flagged' \in BOOLEAN /\ (flagged' <=> visual > Review)
    BY <1>2, <1>3, FlagFields
  <2>2. TypeOK'
    BY <1>1, <1>2, <1>3, <2>1 DEF FixInv, TypeOK
  <2> QED
    BY <1>1, <1>2, <1>3, <2>1, <2>2
    DEF FixInv, ReportInv, MemoryInv, ReportAccountsForFile, VerdictInv, Early
<1>4. CASE /\ pc' = "raised" /\ UNCHANGED <<pdf, held, visual, action, flagged>>
           /\ measured' \in {measured, FALSE}
  <2>1. TypeOK'
    BY <1>1, <1>2, <1>4 DEF FixInv, TypeOK
  <2> QED
    BY <1>1, <1>2, <1>4, <2>1
    DEF FixInv, ReportInv, MemoryInv, ReportAccountsForFile, VerdictInv, Early
<1>5. CASE \E p \in Pdfs : \E m \in Measure(p) :
             /\ Better(m.diff) /\ Replace(p, m.diff) /\ pc' = "closing"
             /\ measured' = (measured /\ m.real)
  <2>1. PICK p \in Pdfs : \E m \in Measure(p) :
             /\ Better(m.diff) /\ Replace(p, m.diff) /\ pc' = "closing"
             /\ measured' = (measured /\ m.real)
    BY <1>5
  <2>2. PICK m \in Measure(p) :
             /\ Better(m.diff) /\ Replace(p, m.diff) /\ pc' = "closing"
             /\ measured' = (measured /\ m.real)
    BY <2>1
  <2>3. m.diff \in Diffs /\ m.real \in BOOLEAN /\ (m.real => m.diff = p.diff)
    BY MeasureFields
  <2>4. pdf' = p /\ held' = {} /\ visual' = m.diff /\ action' = "reverted_no_gs" /\ pc' = "closing"
    BY <2>2 DEF Replace
  <2>5. flagged' \in BOOLEAN /\ (flagged' <=> m.diff > Review)
    BY <1>2, <2>2, FlagFields DEF Replace
  <2>6. measured' \in BOOLEAN /\ (measured' => m.diff = p.diff)
    BY <1>2, <2>2, <2>3
  <2>7. TypeOK'
    BY <1>1, <2>3, <2>4, <2>5, <2>6 DEF FixInv, TypeOK
  <2> QED
    BY <1>1, <1>2, <2>3, <2>4, <2>5, <2>6, <2>7
    DEF FixInv, ReportInv, MemoryInv, ReportAccountsForFile, VerdictInv, Early
<1> QED
  BY <1>3, <1>4, <1>5, RecoverCases

\* A verdict of clean is passed on from the evidence, which the facts bear out.
LEMMA AcceptCases ==
  ASSUME FixInv, Accept
  PROVE  \/ /\ tier' = 2 /\ pc' = "fix_all" /\ cycle' = 0 /\ late' = FALSE
            /\ done' = 0 /\ memory' = {} /\ held' = {} /\ changes' = {} /\ skipped' = {}
            /\ visual' = 0 /\ action' = "" /\ flagged' = FALSE
            /\ measured' = TRUE /\ verdict' = verdict
         \/ /\ verdict' \in {"passed", "warnings", "failing"}
            /\ pc' = "returned" /\ UNCHANGED <<tier, cycle, late, open, held, report, measured>>
            /\ verdict' = "passed" =>
                 \E e \in Evaluations(pdf.facts, installed) : Clean(e)
<1>1. PICK e \in {NoEvidence} \cup Evaluations(pdf.facts, installed) :
        \/ /\ tier' = 2 /\ pc' = "fix_all" /\ cycle' = 0 /\ late' = FALSE
           /\ done' = 0 /\ memory' = {} /\ held' = {} /\ changes' = {} /\ skipped' = {}
           /\ visual' = 0 /\ action' = "" /\ flagged' = FALSE
           /\ measured' = TRUE /\ UNCHANGED verdict
        \/ /\ verdict' = IF IsClean(e) THEN "passed"
                         ELSE IF e.openable THEN "warnings" ELSE "failing"
           /\ pc' = "returned" /\ UNCHANGED <<tier, cycle, late, open, held, report, measured>>
  <2> HIDE DEF IsClean, NoEvidence, Evaluations, report, Escalates
  <2> QED
    BY DEF Accept
<1>2. ~Clean(NoEvidence)
  BY DEF Clean, NoEvidence
<1> QED
  BY <1>1, <1>2 DEF IsClean

LEMMA AcceptKeepsFix ==
  ASSUME FixInv, Accept PROVE FixInv'
<1>1. pc = "end" /\ UNCHANGED <<installed, opts, pdf>>
  BY DEF Accept
<1>2. verdict = ""
  BY <1>1 DEF FixInv, VerdictInv
<1>3. 0 \in Diffs /\ 0 \in 0..MaxCycles /\ 0 \in 0..FixCount
  BY FixAssumption DEF Diffs
<1>4. CASE /\ tier' = 2 /\ pc' = "fix_all" /\ cycle' = 0 /\ late' = FALSE
           /\ done' = 0 /\ memory' = {} /\ held' = {} /\ changes' = {} /\ skipped' = {}
           /\ visual' = 0 /\ action' = "" /\ flagged' = FALSE
           /\ measured' = TRUE /\ verdict' = verdict
  <2>1. TypeOK'
    <3>1. TypeOK
      BY DEF FixInv
    <3>2. /\ installed' \in BOOLEAN /\ opts' \in Options /\ tier' \in {1, 2}
          /\ pdf' \in Pdfs
      BY <1>1, <1>4, <3>1 DEF TypeOK
    <3>3. /\ cycle' \in 0..MaxCycles /\ late' \in BOOLEAN /\ done' \in 0..FixCount
          /\ visual' \in Diffs /\ flagged' \in BOOLEAN /\ measured' \in BOOLEAN
      BY <1>3, <1>4
    <3>4. verdict' \in {"", "passed", "warnings", "failing"}
      BY <1>2, <1>4
    <3>5. /\ held' \subseteq Fixes \cup {Later} /\ changes' \subseteq Fixes \cup {Later}
          /\ skipped' \subseteq Fixes /\ memory' \subseteq Fixes
      BY <1>4
    <3>6. /\ pc' \in {"fix_all", "cycle", "lists", "vision", "conformance", "cleanup", "gate",
                      "recovery", "closing", "end", "returned", "raised"}
          /\ action' \in {"", "kept_gs", "reverted_no_gs"}
      BY <1>4
    <3> QED
      BY <3>2, <3>3, <3>4, <3>5, <3>6 DEF TypeOK
  <2> QED
    BY <1>1, <1>2, <1>4, <2>1 DEF FixInv, ReportInv, MemoryInv, ReportAccountsForFile, VerdictInv, Early
<1>5. CASE /\ verdict' \in {"passed", "warnings", "failing"}
           /\ pc' = "returned" /\ UNCHANGED <<tier, cycle, late, open, held, report, measured>>
  <2>1. TypeOK'
    BY <1>1, <1>5 DEF FixInv, TypeOK, report, open
  <2> QED
    BY <1>1, <1>5, <2>1
    DEF FixInv, ReportInv, MemoryInv, ReportAccountsForFile, VerdictInv, Early, report, open
<1> QED
  BY <1>4, <1>5, AcceptCases

\* A step that returns to the caller, or changes nothing.
LEMMA ReturnKeepsFix ==
  ASSUME FixInv, Return \/ UNCHANGED vars PROVE FixInv'
<1>1. CASE Return
  <2>1. /\ UNCHANGED <<installed, opts, tier, cycle, late, done, memory, pdf, held, changes,
                       skipped, visual, action, flagged, measured, verdict>>
        /\ pc = "end" /\ pc' = "returned"
    BY <1>1 DEF Return, run, report, open, file
  <2>2. TypeOK'
    BY <2>1 DEF FixInv, TypeOK
  <2> QED
    BY <2>1, <2>2 DEF FixInv, ReportInv, MemoryInv, ReportAccountsForFile, VerdictInv, Early
<1>2. CASE UNCHANGED vars
  <2>1. UNCHANGED <<installed, opts, tier, pc, cycle, late, done, memory, pdf, held, changes,
                    skipped, visual, action, flagged, measured, verdict>>
    BY <1>2 DEF vars, run, report, open, file
  <2>2. TypeOK'
    BY <2>1, ZenonT(30) DEF FixInv, TypeOK
  <2> QED
    BY <2>1, <2>2 DEF FixInv, ReportInv, MemoryInv, ReportAccountsForFile, VerdictInv, Early
<1> QED
  BY <1>1, <1>2

LEMMA PassesKeepFix ==
  ASSUME FixInv, Lists \/ Vision \/ Conform \/ Cleanup \/ Closing PROVE FixInv'
<1>0. pdf \in Pdfs
  BY DEF FixInv, TypeOK
<1>1. \A q \in Retagged(pdf) : q \in Pdfs /\ q.diff = pdf.diff
  BY <1>0, RetaggedFields
<1>3. CASE Lists
  <2>1. Pass("lists", TRUE, Retagged(pdf), "vision")
    BY <1>3 DEF Lists
  <2> HIDE DEF Pass, Retagged, FixInv
  <2> QED
    BY <1>1, <2>1, PassKeepsFix DEF Early
<1>4. CASE Vision
  <2>1. Pass("vision", ~late, Retagged(pdf), "conformance")
    BY <1>4 DEF Vision
  <2> HIDE DEF Pass, Retagged, FixInv
  <2> QED
    BY <1>1, <2>1, PassKeepsFix DEF Early
<1>5. CASE Conform
  <2> DEFINE may == opts.repair /\ ~late /\ installed /\ pdf.facts.vera # {}
  <2>1. Pass("conformance", may, Pdfs, "cleanup")
    BY <1>5 DEF Conform
  <2> HIDE DEF Pass, Pdfs, FixInv, may
  <2> QED
    BY <2>1, PassKeepsFix DEF Early
<1>6. CASE Cleanup
  <2> DEFINE next == IF opts.original THEN "gate" ELSE "end"
  <2>1. Pass("cleanup", TRUE, Retagged(pdf), next)
    BY <1>6 DEF Cleanup
  <2>2. /\ next \in (Early \ {"fix_all", "cycle"}) \cup {"end"}
        /\ next = "end" => ~opts.original
    BY DEF Early
  <2> HIDE DEF Pass, Retagged, FixInv, next
  <2> QED
    BY <1>1, <2>1, <2>2, PassKeepsFix
<1>7. CASE Closing
  <2>1. Pass("closing", TRUE, Retagged(pdf), "end")
    BY <1>7 DEF Closing
  <2> HIDE DEF Pass, Retagged, FixInv
  <2> QED
    BY <1>1, <2>1, PassKeepsFix DEF Early
<1> QED
  BY <1>3, <1>4, <1>5, <1>6, <1>7

LEMMA NextFix == FixInv /\ [Next]_vars => FixInv'
  BY RunFixKeepsFix, FixAllKeepsFix, CycleKeepsFix, PassesKeepFix, GateKeepsFix, RecoverKeepsFix,
     AcceptKeepsFix, ReturnKeepsFix
  DEF Next

LEMMA FixInvHolds == Spec => []FixInv
  BY InitFix, NextFix, PTL DEF Spec

\* Every variable keeps its type, whatever a pass does to the PDF.
THEOREM FixTyping == Spec => []TypeOK
<1>1. FixInv => TypeOK
  BY DEF FixInv
<1> QED
  BY <1>1, FixInvHolds, PTL

\* After whichever way through the visual gate, the report a caller gets tells the
\* difference of the PDF that is served, for every threshold and number of cycles.
THEOREM FixReportDescribesServedPdf == Spec => []ReportDescribesServedPdf
<1>1. FixInv => ReportDescribesServedPdf
  BY DEF FixInv, ReportInv, ReportDescribesServedPdf
<1> QED
  BY <1>1, FixInvHolds, PTL

\* For any number of fixes: whatever raises where, all that the report lists as
\* changed is in the file, and no pass has changed the file that is listed neither as
\* changed nor as skipped (pdf_fixer.py:17147-17158, 17258).
THEOREM FixReportAccountsForFile == Spec => []ReportAccountsForFile
<1>1. FixInv => ReportAccountsForFile
  BY DEF FixInv
<1> QED
  BY <1>1, FixInvHolds, PTL

\* A version is taken back only for one that looks better, where both were measured.
THEOREM FixNeverRevertsToWorse == Spec => NeverRevertsToWorse
<1>1. ASSUME FixInv, Next, action' = "reverted_no_gs", action = "", measured'
      PROVE  pdf'.diff < pdf.diff
  <2>1. Recover
    <3>1. ~(RunFix \/ FixAll \/ Cycle \/ Lists \/ Vision \/ Conform \/ Cleanup \/ Closing)
      BY <1>1 DEF RunFix, FixAll, Raise, report, Cycle, Keep, Lists, Vision, Conform, Cleanup,
                 Closing, Pass
    <3>2. ~(Gate \/ Return \/ Accept)
      BY <1>1, AcceptCases DEF Gate, Return, report
    <3> QED
      BY <1>1, <3>1, <3>2 DEF Next
  <2>2. /\ pdf \in Pdfs /\ measured \in BOOLEAN
        /\ measured => visual = pdf.diff
    BY <1>1, <2>1 DEF Recover, FixInv, TypeOK, ReportInv
  <2>3. \E p \in Pdfs : \E m \in Measure(p) :
          Better(m.diff) /\ Replace(p, m.diff) /\ measured' = (measured /\ m.real)
    BY <1>1, <2>1, RecoverCases
  <2>4. PICK p \in Pdfs : \E m \in Measure(p) :
          Better(m.diff) /\ Replace(p, m.diff) /\ measured' = (measured /\ m.real)
    BY <2>3
  <2>5. PICK m \in Measure(p) :
          Better(m.diff) /\ Replace(p, m.diff) /\ measured' = (measured /\ m.real)
    BY <2>4
  <2>6. m.real \in BOOLEAN /\ (m.real => m.diff = p.diff)
    BY MeasureFields
  <2>7. measured /\ m.real
    BY <1>1, <2>2, <2>5, <2>6
  <2> QED
    BY <2>2, <2>5, <2>6, <2>7 DEF Better, Replace
<1>2. FixInv /\ [Next]_vars =>
        [action' = "reverted_no_gs" /\ action = "" /\ measured' => pdf'.diff < pdf.diff]_vars
  BY <1>1
<1> QED
  BY <1>2, FixInvHolds, PTL DEF Spec, NeverRevertsToWorse

\* A clean verdict is announced only of a PDF in which no validator finds anything
\* but source-font failures of the checker and checks left to a human, whatever the
\* checker may find (cli_pdf.py:409, pdf_acceptance.py:237-240).
THEOREM FixCleanVerdictIsReal == Spec => []CleanVerdictIsReal
<1>1. Init => CleanVerdictIsReal
  BY DEF Init, CleanVerdictIsReal
<1>2. ASSUME FixInv, CleanVerdictIsReal, [Next]_vars PROVE CleanVerdictIsReal'
  <2>1. CASE UNCHANGED <<verdict, pdf, installed>>
    BY <1>2, <2>1 DEF CleanVerdictIsReal
  <2>2. CASE verdict' = ""
    BY <2>2 DEF CleanVerdictIsReal
  <2>3. CASE Accept /\ verdict' = "passed"
    <3>1. UNCHANGED <<pdf, installed>> /\ pdf.facts \in Found /\ installed \in BOOLEAN
      BY <1>2, <2>3, PdfFields DEF Accept, FixInv, TypeOK
    <3>2. verdict = ""
      BY <1>2, <2>3 DEF Accept, FixInv, VerdictInv
    <3>3. PICK e \in Evaluations(pdf.facts, installed) : Clean(e)
      BY <1>2, <2>3, <3>2, AcceptCases
    <3>4. pdf.facts \in Facts
      BY <3>1, FixAssumption DEF Found, Facts, VeraFindings
    <3>5. /\ pdf.facts.checker \cap {"cosmetic", "blocking"} = {} /\ ~pdf.facts.reader
          /\ installed => pdf.facts.vera = {}
      BY <3>1, <3>3, <3>4, CleanIsVerified
    <3>6. pdf.facts.checker \subseteq {"source_font", "manual"}
      BY <3>4, <3>5 DEF Facts, CheckerFindings
    <3> QED
      BY <3>1, <3>5, <3>6 DEF CleanVerdictIsReal
  <2>4. CASE Accept /\ verdict' # "passed"
    BY <2>4 DEF CleanVerdictIsReal
  <2>5. CASE UNCHANGED vars
    BY <2>1, <2>5 DEF vars, run, file
  <2>6. CASE Next /\ ~Accept
    <3>1. verdict' = verdict /\ pc # "returned"
      BY <2>6 DEF Next, RunFix, FixAll, Cycle, Lists, Vision, Conform, Cleanup, Closing, Pass,
                 Gate, Recover, Return
    <3> QED
      BY <1>2, <2>2, <3>1 DEF FixInv, VerdictInv
  <2> QED
    BY <1>2, <2>3, <2>4, <2>5, <2>6
<1> QED
  BY <1>1, <1>2, FixInvHolds, PTL DEF Spec

-----------------------------------------------------------------------------
(* Progress.                                                               *)

\* How far the end of a tier is: the cycles that may still come, then one pass each.
Ahead ==
  CASE pc = "fix_all" -> MaxCycles + 11 + (FixCount - done) [] pc = "cycle" -> MaxCycles - cycle + 10
    [] pc = "lists" -> 9 [] pc = "vision" -> 8 [] pc = "conformance" -> 7
    [] pc = "cleanup" -> 6 [] pc = "gate" -> 5 [] pc = "recovery" -> 4
    [] pc = "closing" -> 3 [] pc = "end" -> 2 [] OTHER -> 0

\* More steps than this the fix cannot take; the first tier has the second ahead.
SecondTier == IF tier = 1 THEN MaxCycles + FixCount + 12 ELSE 0
StepsLeft  == Ahead + SecondTier

StepsRunOut == [](StepsLeft \in Nat) /\ [][StepsLeft' < StepsLeft]_vars

LEMMA AheadType == TypeOK => Ahead \in 0..(MaxCycles + FixCount + 11)
<1>. SUFFICES ASSUME TypeOK PROVE Ahead \in 0..(MaxCycles + FixCount + 11)
  OBVIOUS
<1>1. /\ MaxCycles \in Nat /\ cycle \in 0..MaxCycles
      /\ FixCount \in Nat /\ done \in 0..FixCount
  BY FixAssumption DEF TypeOK
<1>. QED
  BY <1>1 DEF Ahead

\* Within a tier the end comes nearer with every pass and every cycle.
LEMMA PassComesNearer ==
  ASSUME TypeOK, Lists \/ Vision \/ Conform \/ Cleanup \/ Closing
  PROVE  tier' = tier /\ Ahead' < Ahead
<1>1. CASE Lists
  <2>1. pc = "lists" /\ pc' = "vision" /\ tier' = tier
    BY <1>1 DEF Lists, Pass, run
  <2> QED
    BY <2>1 DEF Ahead
<1>2. CASE Vision
  <2>1. pc = "vision" /\ pc' = "conformance" /\ tier' = tier
    BY <1>2 DEF Vision, Pass, run
  <2> QED
    BY <2>1 DEF Ahead
<1>3. CASE Conform
  <2>1. pc = "conformance" /\ pc' = "cleanup" /\ tier' = tier
    BY <1>3 DEF Conform, Pass, run
  <2> QED
    BY <2>1 DEF Ahead
<1>4. CASE Cleanup
  <2>1. pc = "cleanup" /\ pc' \in {"gate", "end"} /\ tier' = tier
    BY <1>4 DEF Cleanup, Pass, run
  <2> QED
    BY <2>1 DEF Ahead
<1>5. CASE Closing
  <2>1. pc = "closing" /\ pc' = "end" /\ tier' = tier
    BY <1>5 DEF Closing, Pass, run
  <2> QED
    BY <2>1 DEF Ahead
<1> QED
  BY <1>1, <1>2, <1>3, <1>4, <1>5

LEMMA CycleComesNearer ==
  ASSUME TypeOK, Cycle
  PROVE  tier' = tier /\ Ahead' < Ahead
<1>1. pc = "cycle" /\ tier' = tier
  BY DEF Cycle, run
<1>2. MaxCycles \in Nat /\ cycle \in 0..MaxCycles
  BY FixAssumption DEF TypeOK
<1>3. Ahead = MaxCycles - cycle + 10
  BY <1>1 DEF Ahead
<1>4. \/ pc' = "lists"
      \/ pc' = "raised"
      \/ pc' = "cycle" /\ cycle' = cycle + 1
  BY <1>1 DEF Cycle, Raise
<1>5. CASE pc' = "lists" \/ pc' = "raised"
  <2>1. Ahead' \in {0, 9}
    BY <1>5 DEF Ahead
  <2> QED
    BY <1>1, <1>2, <1>3, <2>1
<1>6. CASE pc' = "cycle" /\ cycle' = cycle + 1
  <2>1. Ahead' = MaxCycles - (cycle + 1) + 10
    BY <1>6 DEF Ahead
  <2> QED
    BY <1>1, <1>2, <1>3, <2>1
<1> QED
  BY <1>4, <1>5, <1>6

\* The second tier is entered from the first only.
LEMMA AcceptComesNearer ==
  ASSUME TypeOK, Accept
  PROVE  \/ tier' = tier /\ Ahead' < Ahead
         \/ tier = 1 /\ tier' = 2 /\ pc = "end"
<1>1. pc = "end"
  BY DEF Accept
<1>2. \/ tier = 1 /\ tier' = 2
      \/ pc' = "returned" /\ tier' = tier
  BY DEF Accept, Escalates
<1>3. pc' = "returned" => Ahead' < Ahead
  BY <1>1 DEF Ahead
<1> QED
  BY <1>1, <1>2, <1>3

LEMMA OtherStepsComeNearer ==
  ASSUME TypeOK, RunFix \/ FixAll \/ Gate \/ Recover \/ Return
  PROVE  tier' = tier /\ Ahead' < Ahead
<1>1. CASE FixAll
  <2>1. pc = "fix_all" /\ tier' = tier
    BY <1>1 DEF FixAll, run
  <2>2. pc' = "raised" \/ (pc' = "cycle" /\ cycle' = cycle)
    BY <1>1 DEF FixAll, Raise
  <2>3. /\ MaxCycles \in Nat /\ cycle \in 0..MaxCycles
        /\ FixCount \in Nat /\ done \in 0..FixCount
    BY FixAssumption DEF TypeOK
  <2>4. Ahead = MaxCycles + 11 + (FixCount - done)
    BY <2>1 DEF Ahead
  <2>5. Ahead' \in {0, MaxCycles - cycle + 10}
    BY <2>2 DEF Ahead
  <2> QED
    BY <2>1, <2>3, <2>4, <2>5
<1>0. CASE RunFix
  <2>1. /\ pc = "fix_all" /\ pc' = "fix_all" /\ tier' = tier
        /\ done' = done + 1 /\ done \in 0..FixCount
    BY <1>0 DEF RunFix, run, TypeOK
  <2>2. MaxCycles \in Nat /\ FixCount \in Nat
    BY FixAssumption
  <2>3. /\ Ahead = MaxCycles + 11 + (FixCount - done)
        /\ Ahead' = MaxCycles + 11 + (FixCount - (done + 1))
    BY <2>1 DEF Ahead
  <2> QED
    BY <2>1, <2>2, <2>3
<1>2. CASE Gate
  <2>1. pc = "gate" /\ tier' = tier /\ pc' \in {"recovery", "closing"}
    BY <1>2 DEF Gate, run
  <2> QED
    BY <2>1 DEF Ahead
<1>3. CASE Recover
  <2>1. pc = "recovery" /\ tier' = tier /\ pc' \in {"closing", "raised"}
    BY <1>3 DEF Recover, run
  <2> QED
    BY <2>1 DEF Ahead
<1>4. CASE Return
  <2>1. pc = "end" /\ tier' = tier /\ pc' = "returned"
    BY <1>4 DEF Return, run
  <2> QED
    BY <2>1 DEF Ahead
<1> QED
  BY <1>0, <1>1, <1>2, <1>3, <1>4

\* Whatever the passes make of the PDF and wherever the deadline falls, every step
\* leaves fewer to take: two tiers of FixCount fixes, at most MaxCycles cycles and eleven
\* passes.
THEOREM FixRunsOut == Spec => StepsRunOut
<1>1. TypeOK => StepsLeft \in Nat
  BY AheadType, FixAssumption DEF StepsLeft, SecondTier
<1>2. TypeOK /\ TypeOK' /\ Next => StepsLeft' < StepsLeft
  <2> SUFFICES ASSUME TypeOK, TypeOK', Next
               PROVE  StepsLeft' < StepsLeft
    OBVIOUS
  <2>1. Ahead \in 0..(MaxCycles + FixCount + 11)
    BY AheadType
  <2>2. Ahead' \in 0..(MaxCycles + FixCount + 11)
    <3>1. /\ MaxCycles \in Nat /\ cycle' \in 0..MaxCycles
          /\ FixCount \in Nat /\ done' \in 0..FixCount
      BY FixAssumption DEF TypeOK
    <3> QED
      BY <3>1 DEF Ahead
  <2>3. MaxCycles + FixCount \in Nat
    BY FixAssumption
  <2>4. \/ tier' = tier /\ Ahead' < Ahead
        \/ tier = 1 /\ tier' = 2 /\ pc = "end"
    BY PassComesNearer, CycleComesNearer, AcceptComesNearer, OtherStepsComeNearer DEF Next
  <2>sums. StepsLeft = Ahead + SecondTier /\ StepsLeft' = Ahead' + SecondTier'
    BY DEF StepsLeft
  <2>within. \A x, y, u \in Nat : y < x => x + u \in Nat /\ y + u \in Nat /\ y + u < x + u
    OBVIOUS
  <2>across. \A M, y \in Nat : y <= M + 11 =>
          2 + (M + 12) \in Nat /\ y + 0 \in Nat /\ y + 0 < 2 + (M + 12)
    OBVIOUS
  <2>types. Ahead \in Nat /\ Ahead' \in Nat /\ Ahead' <= (MaxCycles + FixCount) + 11
    BY <2>1, <2>2, <2>3
  <2>5. CASE tier' = tier /\ Ahead' < Ahead
    <3>1. SecondTier \in Nat /\ SecondTier' = SecondTier
      BY <2>3, <2>5 DEF SecondTier
    <3> QED
      BY <2>sums, <2>within, <2>types, <2>5, <3>1
  <2>6. CASE tier = 1 /\ tier' = 2 /\ pc = "end"
    <3>1. Ahead = 2
      BY <2>6 DEF Ahead
    <3>2. SecondTier = (MaxCycles + FixCount) + 12 /\ SecondTier' = 0
      BY <2>6 DEF SecondTier
    <3> QED
      BY <2>sums, <2>across, <2>types, <2>3, <3>1, <3>2
  <2> QED
    BY <2>4, <2>5, <2>6
<1> QED
  BY <1>1, <1>2, FixTyping, PTL DEF Spec, StepsRunOut
=============================================================================
