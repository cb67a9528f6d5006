---------------------------- MODULE PdfAcceptance -----------------------------
(***************************************************************************)
(* The composite verdict on one PDF: what the four validators found, and   *)
(* the four judgements the code derives from it - passed, clean, the       *)
(* conformance of the report, the level of the catalogue.                  *)
(*                                                                         *)
(* Findings are the kinds the judgements tell apart.                       *)
(***************************************************************************)

\* Failed checker rules: the source's font encoding; display title, tab order,
\* bookmarks or another encoding; anything else - and checks left to a human.
CheckerFindings == {"source_font", "cosmetic", "manual", "blocking"}
\* veraPDF violations: those classified as limits of the source's fonts, the rest.
VeraFindings == {"source_font", "other"}

\* What the file is like, whoever looks at it.
Facts == [checker : SUBSET CheckerFindings, reader : BOOLEAN, vera : SUBSET VeraFindings,
          similar : BOOLEAN]

\* PDFAcceptanceResult; reader tells whether the screen reader finds errors, the
\* fields ending in Error that a validator broke down.
Evidence ==
  [openable : BOOLEAN, checker : SUBSET CheckerFindings, checkerError : BOOLEAN,
   reader : BOOLEAN, readerError : BOOLEAN,
   veraChecked : BOOLEAN, vera : SUBSET VeraFindings, veraError : BOOLEAN,
   similar : BOOLEAN]

\* Before any validator ran; also what an unopenable file keeps.
NoEvidence ==
  [openable |-> FALSE, checker |-> {}, checkerError |-> FALSE,
   reader |-> FALSE, readerError |-> FALSE,
   veraChecked |-> FALSE, vera |-> {}, veraError |-> FALSE, similar |-> TRUE]

-----------------------------------------------------------------------------
(* The validators: each reports the facts or breaks down.                  *)

Opened(e)  == {[e EXCEPT !.openable = b] : b \in BOOLEAN}
Inspected(e, f) == {[e EXCEPT !.checker = f.checker], [e EXCEPT !.checkerError = TRUE]}
Read(e, f) == {[e EXCEPT !.reader = f.reader], [e EXCEPT !.readerError = TRUE]}

\* validate_with_verapdf: without a binary nothing is checked; a timeout, an
\* empty answer or unparsable XML is a failed check without violations.
Validated(e, f, installed) ==
  IF ~installed THEN {e}
  ELSE {[e EXCEPT !.veraChecked = TRUE, !.vera = f.vera],
        [e EXCEPT !.veraChecked = TRUE, !.veraError = TRUE]}

\* Asked for by the rebuild tier only; a comparison that breaks down passes.
Compared(e, f) == {e, [e EXCEPT !.similar = f.similar]}

\* evaluate_pdf_acceptance on a file that opens, outside rebuild mode.
Evaluations(f, installed) ==
  UNION {UNION {Validated(r, f, installed) : r \in Read(c, f)}
         : c \in Inspected([NoEvidence EXCEPT !.openable = TRUE], f)}

-----------------------------------------------------------------------------
(* The judgements.                                                         *)

VeraPassed(e) == ~e.veraChecked \/ (e.vera = {} /\ ~e.veraError)

\* Only _is_source_font_checker_failure and manual checks are let through.
CheckerBlocks(e) == e.checker \cap {"cosmetic", "blocking"} # {}

\* all() over the violations, which a veraPDF that broke down leaves empty.
OnlySourceFont(e) == e.vera \subseteq {"source_font"}

Passed(e) ==
  /\ e.openable /\ ~CheckerBlocks(e) /\ ~e.reader
  /\ VeraPassed(e) \/ OnlySourceFont(e)
  /\ e.similar

\* warning_reasons, retry_reasons: some are there.
Warned(e) ==
  /\ e.openable
  /\ \/ CheckerBlocks(e) \/ e.checkerError \/ e.reader \/ e.readerError
     \/ ~VeraPassed(e) \/ ~e.similar

\* _acceptance_is_clean
Clean(e) == e.openable /\ ~Warned(e)

\* _determine_conformance; "none" is Not Conformant, "counted" depends on how many
\* failures there are.  Without a warning the verdict has passed.
Harmless(e) ==
  /\ e.checker \cap {"manual", "blocking"} = {} /\ ~e.reader
  /\ VeraPassed(e) \/ (e.vera # {} /\ OnlySourceFont(e))
  /\ ~(e.checkerError \/ e.readerError \/ (e.veraChecked /\ e.veraError))

Conformance(e) ==
  IF ~e.openable THEN "none"
  ELSE IF Clean(e) \/ Harmless(e) THEN "full"
  ELSE IF Warned(e) THEN "partial"
  ELSE "counted"

\* StructureProbe: text layer, structure tree, and language, title and identifier.
Probes == [text : BOOLEAN, tagged : BOOLEAN, declared : BOOLEAN]
\* quality_result: not run, overall_pass or not
Qualities == {"absent", "passed", "failed"}

\* classify_level, with an acceptance at hand
Level(e, p, q) ==
  IF ~e.openable \/ ~p.text THEN 0
  ELSE IF ~p.tagged THEN 1
  ELSE IF ~(e.veraChecked /\ VeraPassed(e) /\ p.declared) THEN 2
  ELSE IF Conformance(e) # "full" \/ q # "passed" THEN 3
  ELSE 4
=============================================================================
