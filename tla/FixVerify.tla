------------------------------- MODULE FixVerify -------------------------------
(***************************************************************************)
(* fix_and_verify on one document, and the two tiers "pdf escalate" makes  *)
(* of it: all fixes, bounded verification cycles, four repair passes that  *)
(* swallow their exceptions, and the visual gate with its second try       *)
(* without Ghostscript.                                                    *)
(*                                                                         *)
(* The PDF at output_path is what the validators would find in it and how  *)
(* far it has drifted from the original.  A save replaces it whole.        *)
(***************************************************************************)
EXTENDS Naturals, PdfAcceptance

CONSTANTS
  FixCount,   \* steps of fix_all with a try of their own: ALL_FIXES, and four more
  MaxCycles,  \* max_cycles; 1 for a large document
  Seen,       \* the failures a checker run may show, as sets of kinds
  MaxDiff,    \* bound: visual difference in steps, 0 none
  Recovery,   \* the largest difference Ghostscript may have made
  Review      \* the largest difference no human has to look at

ASSUME FixAssumption ==
  /\ FixCount \in Nat /\ MaxCycles \in Nat \ {0} /\ MaxDiff \in Nat
  /\ Seen \subseteq SUBSET CheckerFindings /\ {"blocking"} \in Seen
  /\ Recovery \in Nat /\ Review \in Nat /\ Recovery <= Review

Diffs == 0..MaxDiff

\* Of veraPDF one finding is enough to tell verdicts apart.
Found == [checker : Seen, reader : BOOLEAN,
          vera : {{}, {"source_font"}, {"other"}}, similar : {TRUE}]
Unfixed == [checker |-> {"blocking"}, reader |-> TRUE, vera |-> {"other"}, similar |-> TRUE]

Pdfs == [facts : Found, diff : Diffs]

\* Passes: the steps of fix_all in their order, and all that follow it as one.
Fixes == 1..FixCount
Later == 0

VARIABLES
  installed,  \* a veraPDF binary was found
  opts,       \* the arguments; escalate: run by "pdf escalate"
  tier,       \* 1, or 2 with the escalation model
  pc, cycle,
  late,       \* the deadline has passed
  done,       \* how many fixes fix_all has run
  memory,     \* fixes that have changed the PDF fix_all has open, if only in part
  pdf,        \* what output_path holds
  held,       \* history: passes of this run whose changes are in it
  changes, skipped,  \* passes FixReport.changes and .skipped are about
  visual, action, flagged,  \* visual_diff_pct, gs_corrective_action, needs_manual_review
  measured,   \* every difference was really measured
  verdict     \* what "pdf escalate" prints

file   == <<pdf, held>>
open   == <<done, memory>>
report == <<changes, skipped, visual, action, flagged>>
run    == <<installed, opts, tier>>
vars   == <<run, pc, cycle, late, open, file, report, measured, verdict>>

Options == [gs : BOOLEAN, original : BOOLEAN, repair : BOOLEAN, escalate : BOOLEAN]

\* "pdf escalate" never uses Ghostscript, passes the original and asks for repair;
\* other callers differ in what they pass.
Sensible(o) == o.escalate => ~o.gs /\ o.original /\ o.repair

Init ==
  /\ installed \in BOOLEAN /\ opts \in {o \in Options : Sensible(o)}
  /\ tier = 1 /\ pc = "fix_all" /\ cycle = 0 /\ late = FALSE
  /\ done = 0 /\ memory = {}
  /\ pdf = [facts |-> Unfixed, diff |-> 0] /\ held = {}
  /\ changes = {} /\ skipped = {} /\ visual = 0 /\ action = "" /\ flagged = FALSE
  /\ measured = TRUE /\ verdict = ""

-----------------------------------------------------------------------------
(* One pass over the PDF.                                                  *)

\* What a pass changes it may repair or break: any PDF may come out, but passes on
\* structure and marked content leave the page as it looks.
Retagged(p) == [facts : Found, diff : {p.diff}]

\* _save_remediated_pdf, then the report
Save(results) ==
  /\ pdf' \in results /\ held' = held \cup {Later}
  /\ changes' = changes \cup {Later}

\* Nothing to change, or an exception the pass swallows before it has saved: what
\* it had changed in memory is gone.  Only fix_all's skips are told apart.
Skip == UNCHANGED <<file, changes>>

Keep == UNCHANGED <<skipped, visual, action, flagged, measured>>

\* PDF_FIX_DEADLINE_SECONDS may run out at any time.
Tick == late' \in {late, TRUE}

Raise == pc' = "raised" /\ UNCHANGED <<open, file, report, measured, cycle>>

\* Defect: an exception of a fix is swallowed without a word.
Fails_Silently(f) == memory' \in {memory, memory \cup {f}} /\ UNCHANGED <<changes, skipped>>

\* A fix that raises is listed as skipped, whatever it has changed by then.
Fails(f) ==
  /\ memory' \in {memory, memory \cup {f}}
  /\ skipped' = skipped \cup {f}
  /\ UNCHANGED changes

\* The next fix works on the open PDF.
RunFix ==
  /\ pc = "fix_all" /\ done < FixCount
  /\ done' = done + 1
  /\ LET f == done + 1
     IN  \/ memory' = memory \cup {f} /\ changes' = changes \cup {f} /\ UNCHANGED skipped
         \/ Fails(f)
         \/ UNCHANGED <<memory, changes, skipped>>
  /\ Tick /\ UNCHANGED <<run, pc, cycle, file, visual, action, flagged, measured, verdict>>

\* One save after the last fix, of all that has been changed; only what stands
\* before and behind the fixes raises.
FixAll ==
  /\ pc = "fix_all"
  /\ \/ done \in {0, FixCount} /\ Raise
     \/ /\ done = FixCount
        /\ pdf' \in Pdfs /\ held' = memory /\ memory' = {}
        /\ pc' = "cycle" /\ Keep /\ UNCHANGED <<done, changes, cycle>>
  /\ Tick /\ UNCHANGED <<run, verdict>>

\* Warnings alone start no cycle; the last cycle's outcome is not validated.
Cycle ==
  /\ pc = "cycle"
  /\ \/ /\ late \/ cycle = MaxCycles \/ ~pdf.facts.reader
        /\ pc' = "lists" /\ Skip /\ UNCHANGED cycle /\ Keep
     \/ /\ ~late /\ cycle < MaxCycles
        /\ \/ Raise
           \/ /\ pdf.facts.reader
              /\ \/ Save(Retagged(pdf)) /\ cycle' = cycle + 1 /\ UNCHANGED pc
                 \/ Skip /\ pc' = "lists" /\ UNCHANGED cycle
              /\ Keep
  /\ Tick /\ UNCHANGED <<run, open, verdict>>

\* The passes behind the cycles: each saves, or leaves the PDF as it is.
Pass(at, enabled, results, next) ==
  /\ pc = at /\ pc' = next
  /\ \/ enabled /\ Save(results)
     \/ Skip
  /\ Tick /\ Keep /\ UNCHANGED <<run, cycle, open, verdict>>

Lists  == Pass("lists", TRUE, Retagged(pdf), "vision")
Vision == Pass("vision", ~late, Retagged(pdf), "conformance")

\* validate_with_verapdf names no rule when it breaks down: nothing is repaired.
Conform ==
  Pass("conformance",
       opts.repair /\ ~late /\ installed /\ pdf.facts.vera # {},
       Pdfs, "cleanup")

Cleanup == Pass("cleanup", TRUE, Retagged(pdf),
                IF opts.original THEN "gate" ELSE "end")

-----------------------------------------------------------------------------
(* The visual gate.                                                        *)

\* compute_visual_diff: a difference that cannot be measured counts as none.
Measure(p) == {[diff |-> p.diff, real |-> TRUE], [diff |-> 0, real |-> FALSE]}

Flag(d) == flagged' = (flagged \/ d > Review)

Gate ==
  /\ pc = "gate"
  /\ \E m \in Measure(pdf) :
       /\ visual' = m.diff /\ measured' = (measured /\ m.real)
       /\ IF opts.gs /\ m.diff > Recovery
          THEN pc' = "recovery" /\ UNCHANGED flagged
          ELSE pc' = "closing" /\ Flag(m.diff)
  /\ Tick /\ UNCHANGED <<run, cycle, open, file, changes, skipped, action, verdict>>

\* Defect: the version that looks worse is the one kept.
Better_Worse(d) == d > visual

Better(d) == d < visual

\* Defect: the report keeps the difference of the version that was replaced.
Replace_Silently(p, d) ==
  pdf' = p /\ held' = {} /\ UNCHANGED visual /\ action' = "reverted_no_gs" /\ Flag(visual)

\* The version put in place has a report of its own, which is dropped.
Replace(p, d) ==
  pdf' = p /\ held' = {} /\ visual' = d /\ action' = "reverted_no_gs" /\ Flag(d)

\* fix_all once more, from the original; no cycle and no repair pass follows.
\* The copy over output_path stands outside the try.
Recover ==
  /\ pc = "recovery"
  /\ \/ /\ pc' = "closing" /\ action' = "kept_gs" /\ Flag(visual)
        /\ UNCHANGED <<file, visual, measured>>
     \/ \E p \in Pdfs : \E m \in Measure(p) :
          /\ measured' = (measured /\ m.real)
          /\ IF Better(m.diff)
             THEN \/ pc' = "closing" /\ Replace(p, m.diff)
                  \/ pc' = "raised" /\ UNCHANGED <<file, visual, action, flagged>>
             ELSE /\ pc' = "closing" /\ action' = "kept_gs" /\ Flag(visual)
                  /\ UNCHANGED <<file, visual>>
  /\ Tick /\ UNCHANGED <<run, cycle, open, changes, skipped, verdict>>

Closing == Pass("closing", TRUE, Retagged(pdf), "end")

-----------------------------------------------------------------------------
(* The verdict and the second tier.                                        *)

\* Defect: what has passed is announced as clean.
IsClean_Passed(e) == Passed(e)

\* _acceptance_is_clean
IsClean(e) == Clean(e)

\* Defect: the second tier escalates like the first.
Escalates_Again(e) == ~IsClean(e)

Escalates(e) == ~IsClean(e) /\ tier = 1

\* fix_and_verify returns to a caller other than "pdf escalate".
Return ==
  /\ pc = "end" /\ ~opts.escalate
  /\ pc' = "returned"
  /\ UNCHANGED <<run, cycle, late, open, file, report, measured, verdict>>

\* Tier 2 works on the output of tier 1, with a report and a deadline of its own.
Accept ==
  /\ pc = "end" /\ opts.escalate
  /\ \E e \in {NoEvidence} \cup Evaluations(pdf.facts, installed) :
       IF Escalates(e)
       THEN /\ tier' = 2 /\ pc' = "fix_all" /\ cycle' = 0 /\ late' = FALSE
            /\ done' = 0 /\ memory' = {} /\ held' = {} /\ changes' = {} /\ skipped' = {}
            /\ visual' = 0 /\ action' = "" /\ flagged' = FALSE
            /\ measured' = TRUE /\ UNCHANGED verdict
       ELSE /\ verdict' = IF IsClean(e) THEN "passed"
                          ELSE IF e.openable THEN "warnings" ELSE "failing"
            /\ pc' = "returned"
            /\ UNCHANGED <<tier, cycle, late, open, held, report, measured>>
  /\ UNCHANGED <<installed, opts, pdf>>

Next ==
  \/ RunFix \/ FixAll \/ Cycle \/ Lists \/ Vision \/ Conform \/ Cleanup
  \/ Gate \/ Recover \/ Closing \/ Return \/ Accept

Spec == Init /\ [][Next]_vars

\* One thread runs it from end to end; veraPDF, vision calls and the rendering
\* are bounded, so that it always comes to its next statement.
FairSpec == Spec /\ WF_vars(Next)

-----------------------------------------------------------------------------
(* Properties.                                                             *)

TypeOK ==
  /\ installed \in BOOLEAN /\ opts \in Options /\ tier \in {1, 2}
  /\ pc \in {"fix_all", "cycle", "lists", "vision", "conformance", "cleanup", "gate",
             "recovery", "closing", "end", "returned", "raised"}
  /\ cycle \in 0..MaxCycles /\ late \in BOOLEAN
  /\ done \in 0..FixCount /\ memory \subseteq Fixes
  /\ pdf \in Pdfs /\ held \subseteq Fixes \cup {Later}
  /\ changes \subseteq Fixes \cup {Later} /\ skipped \subseteq Fixes /\ visual \in Diffs
  /\ action \in {"", "kept_gs", "reverted_no_gs"} /\ flagged \in BOOLEAN
  /\ measured \in BOOLEAN /\ verdict \in {"", "passed", "warnings", "failing"}

\* Whichever version the second try left in place, the report states how far the
\* PDF that is served differs from the original, and calls for a human exactly when
\* that is too much (pdf_fixer.py:17945).
ReportDescribesServedPdf ==
  pc = "returned" /\ opts.original /\ measured =>
    visual = pdf.diff /\ (flagged <=> pdf.diff > Review)

\* What the report lists as changed is in the file, although fix_all lists before it
\* saves and later passes swallow their exceptions; and what is in the file the
\* report lists, if only as skipped: a fix that raises when it has changed part of
\* the document is saved with the others (pdf_fixer.py:17147-17158, 17258).  Only
\* the version taken back without Ghostscript lacks what is listed.
ReportAccountsForFile ==
  pc \notin {"fix_all", "raised"} /\ action # "reverted_no_gs" =>
    changes \subseteq held /\ held \subseteq changes \cup skipped

\* What the docstring says (pdf_fixer.py:17303): "Returns a combined FixReport with
\* all changes across all cycles."  It has not those of a fix that raises half way.
AllChangesReported == pc = "returned" => held \subseteq changes

\* The second try never replaces the PDF by one that looks worse (pdf_fixer.py:17900).
NeverRevertsToWorse ==
  [][action' = "reverted_no_gs" /\ action = "" /\ measured' => pdf'.diff < pdf.diff]_vars

\* "Composite PDF acceptance passed" is printed only for a PDF in which no
\* validator finds anything but what the code lets through, font encodings of the
\* source and checks left to a human (pdf_acceptance.py:237-240): none has broken
\* down on the way, and where veraPDF is installed it has really run (cli_pdf.py:409).
CleanVerdictIsReal ==
  verdict = "passed" =>
    /\ pdf.facts.checker \subseteq {"source_font", "manual"} /\ ~pdf.facts.reader
    /\ installed => pdf.facts.vera = {}

\* Cycles, second try and second tier are bounded: the run ends.
EveryFixEnds == <>(pc \in {"returned", "raised"})
=============================================================================
