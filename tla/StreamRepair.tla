----------------------------- MODULE StreamRepair -----------------------------
(***************************************************************************)
(* The last pass of fix_all over a page's content stream: _renormalize     *)
(* re-opens and closes text objects (BT ... ET) that the passes before it  *)
(* left unbalanced, and restores the text position where it re-opens one.  *)
(*                                                                         *)
(* One step is one iteration of its loop.  Three more readers follow it:   *)
(* a viewer that reads the stream as it was, one that reads the stream as  *)
(* written, and a second run of the repair over what the first writes.     *)
(*                                                                         *)
(* Operators stand for their kind: Td for Td, TD, T*; Tj for Tj, TJ; ' for *)
(* ' and "; Tf for the text state (Tf, Tc, Tw, Tz, TL, Tr, Ts); BDC for    *)
(* BDC, BMC; g for what is legal anywhere; q for the rest.  A matrix is    *)
(* its offset along one axis, and the identity is 0.  Fonts, sizes and the *)
(* leading are the same throughout: what q and Q save and restore of them  *)
(* for a viewer, though not for the repair, is outside the model.          *)
(***************************************************************************)
EXTENDS Integers, Sequences

CONSTANTS
  Used,        \* the operators streams are built from
  MaxLength,   \* bound: instructions of a stream
  Place,       \* where a Tm moves to
  Move,        \* offset of a relative move, and of the line feed of '
  Advance      \* width of the text shown

Operators == {"BT", "ET", "BDC", "EMC", "Tm", "Td", "Tj", "'", "Tf", "g", "q"}

ASSUME StreamAssumption ==
  /\ Used \subseteq Operators /\ MaxLength \in Nat
  /\ Place \in Int /\ Move \in Int /\ Advance \in Int

VARIABLES
  instrs,    \* the stream read
  i,         \* the next instruction, or beyond the end
  out,       \* the stream written
  pass,      \* in_text, mc_stack, changes
  text,      \* tlm and tm, and where each text shown belongs by them; line: history
  again,     \* the second run's in_text, mc_stack, changes
  page,      \* a strict viewer of what is written
  source,    \* a strict viewer of what is read
  done

vars == <<instrs, i, out, pass, text, again, page, source, done>>

-----------------------------------------------------------------------------
(* Instructions.                                                           *)

Op(o) == [op |-> o, to |-> IF o = "Tm" THEN Place ELSE 0]
TmTo(x) == [op |-> "Tm", to |-> x]
Instructions == [op : Operators, to : Int]

\* Shown and moved text needs a text object.
Positioned == {"Tm", "Td", "Tj", "'"}
TextTrigger == Positioned \cup {"Tf"}
Shows == {"Tj", "'"}

-----------------------------------------------------------------------------
(* The repair: what becomes of text objects at an instruction.             *)

Fresh == [in_text |-> FALSE, mc_stack |-> <<>>, changes |-> 0]

\* EMC pops the stack; without an open sequence it counts as opened outside.
OpenedInText(p) == p.mc_stack # <<>> /\ p.mc_stack[Len(p.mc_stack)]

Drops(p, o) == (o = "BT" /\ p.in_text) \/ (o = "ET" /\ ~p.in_text)

\* A BT the engine dropped is put before the instruction ...
Reopens(p, o) == o \in TextTrigger /\ ~p.in_text

\* Defect: a text object is not closed for marked content that surrounds it.
Closes_AtGraphics(p, o) == p.in_text /\ o = "q"

\* ... or an ET.
Closes(p, o) == p.in_text /\ (o = "q" \/ (o = "EMC" /\ ~OpenedInText(p)))

After(p, o) ==
  [in_text  |-> o = "BT" \/ Reopens(p, o)
                \/ (p.in_text /\ o # "ET" /\ ~Closes(p, o)),
   mc_stack |-> IF o = "BDC" THEN Append(p.mc_stack, p.in_text)
                ELSE IF o = "EMC" /\ p.mc_stack # <<>>
                     THEN SubSeq(p.mc_stack, 1, Len(p.mc_stack) - 1)
                     ELSE p.mc_stack,
   changes  |-> IF Drops(p, o) \/ Reopens(p, o) \/ Closes(p, o) THEN p.changes + 1
                ELSE p.changes]

-----------------------------------------------------------------------------
(* Text positions, as the repair tracks them and as viewers apply them.    *)

\* The matrices after an instruction, and where it shows its text.
Line(m, x) == CASE x.op = "Tm" -> x.to
                [] x.op \in {"Td", "'"} -> m.tlm + Move
                [] OTHER -> m.tlm
At(m, x) == IF x.op = "Tj" THEN m.tm ELSE Line(m, x)
Matrix(m, x) == IF x.op \in Shows THEN At(m, x) + Advance
                ELSE IF x.op \in Positioned THEN Line(m, x) ELSE m.tm

\* What a viewer has for the line of the text object it is in: the same as the
\* repair, nothing in the middle of a line re-opened, or a line that has moved from
\* there.
Lines == {"same", "middle", "lost"}

LineFrom(l, x) == IF x.op \in {"BT", "Tm"} THEN "same"
                  ELSE IF x.op \in {"Td", "'"} /\ l = "middle" THEN "lost" ELSE l

\* _track, which a BT that is kept resets.
Track(t, x) ==
  text' = IF x.op = "BT" THEN [t EXCEPT !.tlm = 0, !.tm = 0, !.line = "same"]
          ELSE [tlm |-> Line(t, x), tm |-> Matrix(t, x), line |-> LineFrom(t.line, x),
                places |-> IF x.op \in Shows
                           THEN Append(t.places, [at |-> At(t, x), line |-> LineFrom(t.line, x)])
                           ELSE t.places]

\* A strict viewer.  mc has for each marked-content sequence that is open the text
\* object it was opened in, 0 outside.
Blank == [in_text |-> FALSE, objects |-> 0, mc |-> <<>>, tlm |-> 0, tm |-> 0, drawn |-> <<>>,
          legal |-> TRUE, nested |-> TRUE]

Here(v) == IF v.in_text THEN v.objects ELSE 0
Opened(v) == IF v.mc = <<>> THEN 0 ELSE v.mc[Len(v.mc)]

View(v, x) ==
  [in_text |-> IF x.op \in {"BT", "ET"} THEN x.op = "BT" ELSE v.in_text,
   objects |-> IF x.op = "BT" THEN v.objects + 1 ELSE v.objects,
   mc      |-> IF x.op = "BDC" THEN Append(v.mc, Here(v))
               ELSE IF x.op = "EMC" /\ v.mc # <<>> THEN SubSeq(v.mc, 1, Len(v.mc) - 1)
               ELSE v.mc,
   tlm     |-> IF x.op = "BT" THEN 0 ELSE Line(v, x),
   tm      |-> IF x.op = "BT" THEN 0 ELSE Matrix(v, x),
   drawn   |-> IF x.op \in Shows THEN Append(v.drawn, At(v, x)) ELSE v.drawn,
   legal   |-> /\ v.legal
               /\ x.op \in Positioned \cup {"ET"} => v.in_text
               /\ x.op \in {"BT", "q"} => ~v.in_text
               /\ x.op = "EMC" /\ v.in_text => Opened(v) # 0,
   nested  |-> v.nested /\ (x.op = "EMC" => Opened(v) = Here(v))]

-----------------------------------------------------------------------------
(* The loop.                                                               *)

Init ==
  /\ \E n \in 0..MaxLength : \E s \in [1..n -> Used] : instrs = [k \in 1..n |-> Op(s[k])]
  /\ i = 1 /\ out = <<>> /\ done = FALSE
  /\ pass = Fresh /\ again = Fresh
  /\ text = [tlm |-> 0, tm |-> 0, line |-> "same", places |-> <<>>]
  /\ page = Blank /\ source = Blank

Instr == instrs[i]

\* Writing an instruction, and one after another.
Put(x) ==
  /\ out' = Append(out, x) /\ again' = After(again, x.op) /\ page' = View(page, x)

PutBoth(x, y) ==
  /\ out' = Append(Append(out, x), y)
  /\ again' = After(After(again, x.op), y.op)
  /\ page' = View(View(page, x), y)

PutThree(x, y, z) ==
  /\ out' = Append(Append(Append(out, x), y), z)
  /\ again' = After(After(After(again, x.op), y.op), z.op)
  /\ page' = View(View(View(page, x), y), z)

Read ==
  /\ i <= Len(instrs)
  /\ i' = i + 1 /\ pass' = After(pass, Instr.op) /\ source' = View(source, Instr)
  /\ UNCHANGED <<instrs, done>>

\* The look ahead from here: the next instruction that positions or shows text,
\* or ends the text object.
Upcoming(k) == {j \in k..Len(instrs) :
               /\ instrs[j].op \in Positioned \cup {"ET"}
               /\ \A l \in k..(j - 1) : instrs[l].op \notin Positioned \cup {"ET"}}
Ahead(k, ops) == \E j \in Upcoming(k) : instrs[j].op \in ops

\* Defect: the line is restored, whatever comes first.
Restored_Line == text.tlm

\* The matrix to restore at a BT put in: that of the line before a move, that of
\* the text shown so far before more of it; the identity needs no Tm.
Restored ==
  IF Ahead(i, {"Td"}) THEN text.tlm ELSE IF Ahead(i, Shows) THEN text.tm ELSE 0

\* A line re-opened at its start is the same for viewer and repair.
Reopened ==
  [text EXCEPT !.line = IF Ahead(i, Shows) /\ text.tm # text.tlm THEN "middle" ELSE "same"]

Drop ==
  /\ Read /\ Drops(pass, Instr.op)
  /\ UNCHANGED <<out, text, again, page>>

Reopen ==
  /\ Read /\ Reopens(pass, Instr.op)
  /\ IF Restored = 0 THEN PutBoth(Op("BT"), Instr)
     ELSE PutThree(Op("BT"), TmTo(Restored), Instr)
  /\ Track(Reopened, Instr)

Close ==
  /\ Read /\ Closes(pass, Instr.op)
  /\ PutBoth(Op("ET"), Instr)
  /\ UNCHANGED text

Copy ==
  /\ Read /\ ~(Drops(pass, Instr.op) \/ Reopens(pass, Instr.op) \/ Closes(pass, Instr.op))
  /\ Put(Instr) /\ Track(text, Instr)

\* Defect: a text object may be open at the end.
Finish_Open ==
  /\ i > Len(instrs) /\ ~done
  /\ done' = TRUE
  /\ UNCHANGED <<instrs, i, out, pass, text, again, page, source>>

Finish ==
  /\ i > Len(instrs) /\ ~done
  /\ done' = TRUE
  /\ IF pass.in_text
     THEN Put(Op("ET")) /\ pass' = [pass EXCEPT !.in_text = FALSE, !.changes = @ + 1]
     ELSE UNCHANGED <<out, again, page, pass>>
  /\ UNCHANGED <<instrs, i, text, source>>

Next == Drop \/ Reopen \/ Close \/ Copy \/ Finish

Spec == Init /\ [][Next]_vars

-----------------------------------------------------------------------------
(* Properties.                                                             *)

Passes == [in_text : BOOLEAN, mc_stack : Seq(BOOLEAN), changes : Nat]
Places == [at : Int, line : Lines]
Texts == [tlm : Int, tm : Int, line : Lines, places : Seq(Places)]
Views == [in_text : BOOLEAN, objects : Nat, mc : Seq(Nat), tlm : Int, tm : Int,
          drawn : Seq(Int), legal : BOOLEAN, nested : BOOLEAN]

TypeOK ==
  /\ instrs \in Seq(Instructions) /\ i \in 1..(Len(instrs) + 1)
  /\ out \in Seq(Instructions)
  /\ pass \in Passes /\ again \in Passes
  /\ text \in Texts /\ page \in Views /\ source \in Views
  /\ done \in BOOLEAN

\* Whatever is read, what is written opens in Acrobat and Ghostscript: text objects
\* are balanced, all text is inside one, nothing illegal is, and no marked-content
\* sequence opened outside is closed inside (content_stream_repair.py:11-14, 248).
OutputIsLegal == page.legal /\ (done => ~page.in_text)

\* What the docstring says (content_stream_repair.py:15): "marked-content sequences
\* stay properly nested with text objects" - at least where nothing was wrong.  They
\* do not: Tf BDC q EMC, which is legal, is written BT Tf BDC ET q EMC.
MarkedContentStaysNested == source.legal /\ source.nested => page.nested

\* The repair is idempotent: a second run over what it wrote changes nothing
\* (content_stream_repair.py:21).
SecondRunChangesNothing == again.changes = 0 /\ (done => ~again.in_text)

\* repair_page writes only if changes were counted: with none counted the
\* stream is unchanged (content_stream_repair.py:316).
UncountedIsUnchanged == pass.changes = 0 => out = SubSeq(instrs, 1, i - 1)

\* All text is drawn where the run had got to, in text objects the repair opened as
\* in others (content_stream_repair.py:192-198) - but for text on a later line of an
\* object opened in the middle of one, until a Tm or a BT that is kept: the Tm put in
\* gives a viewer the place in the line for the line's start.
ContinuationStaysInPlace ==
  \A k \in DOMAIN page.drawn :
    text.places[k].line # "lost" => page.drawn[k] = text.places[k].at

\* The same of a stream that was legal: the repair leaves each text where it was
\* ("positioning ... untouched", content_stream_repair.py:17-19).  It does not: Tf
\* between two text objects opens one there, and drops the BT that follows.
LegalTextStaysInPlace ==
  source.legal => \A k \in DOMAIN page.drawn : page.drawn[k] = source.drawn[k]
=============================================================================
