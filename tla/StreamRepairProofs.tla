-------------------------- MODULE StreamRepairProofs --------------------------
(***************************************************************************)
(* Proofs about the repair of content streams, for streams of any length,  *)
(* any moves and any widths.  The argument: the repair, a viewer of what   *)
(* it writes and a second run of it are in a text object at the same       *)
(* times, with the same marked-content sequences open; and as long as a    *)
(* viewer has the line or the place in it, text goes where it belongs.     *)
(***************************************************************************)
EXTENDS StreamRepair, TLAPS

-----------------------------------------------------------------------------
(* One instruction.                                                        *)

LEMMA InstructionTyping ==
  /\ Op("BT") \in Instructions /\ Op("BT").op = "BT"
  /\ Op("ET") \in Instructions /\ Op("ET").op = "ET"
  /\ \A x \in Int : TmTo(x) \in Instructions /\ TmTo(x).op = "Tm" /\ TmTo(x).to = x
  BY DEF Op, TmTo, Instructions, Operators

LEMMA OperatorTyping ==
  /\ Positioned \subseteq Operators /\ TextTrigger \subseteq Operators /\ Shows \subseteq Positioned
  /\ Positioned \subseteq TextTrigger
  BY DEF Positioned, TextTrigger, Shows, Operators

LEMMA AfterTyping ==
  ASSUME NEW p \in Passes, NEW o
  PROVE  After(p, o) \in Passes
<1>1. /\ p.in_text \in BOOLEAN /\ p.mc_stack \in Seq(BOOLEAN) /\ p.changes \in Nat
  BY DEF Passes
<1>2. p.mc_stack # <<>> => SubSeq(p.mc_stack, 1, Len(p.mc_stack) - 1) \in Seq(BOOLEAN)
  BY <1>1
<1>3. Append(p.mc_stack, p.in_text) \in Seq(BOOLEAN)
  BY <1>1
<1>4. After(p, o).mc_stack \in Seq(BOOLEAN)
  <2>1. After(p, o).mc_stack \in {Append(p.mc_stack, p.in_text),
                                 SubSeq(p.mc_stack, 1, Len(p.mc_stack) - 1), p.mc_stack}
    BY DEF After
  <2>2. CASE p.mc_stack = <<>>
    <3>1. After(p, o).mc_stack \in {Append(p.mc_stack, p.in_text), p.mc_stack}
      BY <2>2 DEF After
    <3> QED
      BY <1>1, <1>3, <3>1
  <2>3. CASE p.mc_stack # <<>>
    BY <1>1, <1>2, <1>3, <2>1, <2>3
  <2> QED
    BY <2>2, <2>3
<1>5. After(p, o).changes \in Nat
  <2>1. After(p, o).changes \in {p.changes, p.changes + 1}
    BY DEF After
  <2> QED
    BY <1>1, <2>1
<1>6. After(p, o).in_text \in BOOLEAN
  BY DEF After, Reopens
<1>7. After(p, o) = [in_text |-> After(p, o).in_text, mc_stack |-> After(p, o).mc_stack,
                     changes |-> After(p, o).changes]
  BY DEF After
<1> QED
  BY <1>4, <1>5, <1>6, <1>7 DEF Passes

LEMMA LineTyping ==
  ASSUME NEW m, m.tlm \in Int, m.tm \in Int, NEW x \in Instructions
  PROVE  Line(m, x) \in Int /\ At(m, x) \in Int /\ Matrix(m, x) \in Int
<1>1. x.to \in Int /\ Move \in Int /\ Advance \in Int
  BY StreamAssumption DEF Instructions
<1>2. Line(m, x) \in Int
  BY <1>1 DEF Line
<1>3. At(m, x) \in Int
  BY <1>2 DEF At
<1> QED
  BY <1>1, <1>2, <1>3 DEF Matrix

LEMMA ViewTyping ==
  ASSUME NEW v \in Views, NEW x \in Instructions
  PROVE  View(v, x) \in Views
<1>1. /\ v.in_text \in BOOLEAN /\ v.objects \in Nat /\ v.mc \in Seq(Nat) /\ v.tlm \in Int
      /\ v.tm \in Int /\ v.drawn \in Seq(Int) /\ v.legal \in BOOLEAN /\ v.nested \in BOOLEAN
  BY DEF Views
<1>2. Line(v, x) \in Int /\ At(v, x) \in Int /\ Matrix(v, x) \in Int
  BY <1>1, LineTyping
<1>3. View(v, x).tlm \in Int /\ View(v, x).tm \in Int
  BY <1>2 DEF View
<1>4. /\ View(v, x).in_text \in BOOLEAN /\ View(v, x).legal \in BOOLEAN
      /\ View(v, x).nested \in BOOLEAN /\ View(v, x).objects \in Nat
  <2>1. View(v, x).in_text \in BOOLEAN
    BY <1>1 DEF View
  <2>2. View(v, x).legal \in BOOLEAN
    BY <1>1, Zenon DEF View
  <2>3. View(v, x).nested \in BOOLEAN
    BY <1>1, Zenon DEF View
  <2>4. View(v, x).objects \in Nat
    BY <1>1 DEF View
  <2> QED
    BY <2>1, <2>2, <2>3, <2>4
<1>5. View(v, x).drawn \in Seq(Int)
  <2>1. Append(v.drawn, At(v, x)) \in Seq(Int)
    BY <1>1, <1>2
  <2> QED
    BY <1>1, <2>1 DEF View
<1>6. View(v, x).mc \in Seq(Nat)
  <2>1. Here(v) \in Nat
    BY <1>1 DEF Here
  <2>2. Append(v.mc, Here(v)) \in Seq(Nat)
    BY <1>1, <2>1
  <2>3. v.mc # <<>> => SubSeq(v.mc, 1, Len(v.mc) - 1) \in Seq(Nat)
    BY <1>1
  <2>4. \/ View(v, x).mc = Append(v.mc, Here(v)) \/ View(v, x).mc = v.mc
        \/ v.mc # <<>> /\ View(v, x).mc = SubSeq(v.mc, 1, Len(v.mc) - 1)
    BY DEF View
  <2> HIDE DEF Here
  <2> QED
    BY <1>1, <2>2, <2>3, <2>4
<1> QED
  BY <1>3, <1>4, <1>5, <1>6 DEF View, Views

LEMMA LineFromTyping ==
  ASSUME NEW l \in Lines, NEW x PROVE LineFrom(l, x) \in Lines
  BY DEF LineFrom, Lines

LEMMA TrackTyping ==
  ASSUME NEW t \in Texts, NEW x \in Instructions, Track(t, x)
  PROVE  text' \in Texts
<1>1. t.tlm \in Int /\ t.tm \in Int /\ t.line \in Lines /\ t.places \in Seq(Places)
  BY DEF Texts
<1>2. Line(t, x) \in Int /\ At(t, x) \in Int /\ Matrix(t, x) \in Int
  BY <1>1, LineTyping
<1>3. LineFrom(t.line, x) \in Lines
  BY <1>1, LineFromTyping
<1> DEFINE place == [at |-> At(t, x), line |-> LineFrom(t.line, x)]
           places == IF x.op \in Shows THEN Append(t.places, place) ELSE t.places
<1>4. place \in Places
  BY <1>2, <1>3 DEF Places
<1>5. places \in Seq(Places)
  <2> HIDE DEF place
  <2> QED
    BY <1>1, <1>4
<1>6. CASE x.op = "BT"
  <2>1. text' = [t EXCEPT !.tlm = 0, !.tm = 0, !.line = "same"]
    BY <1>6 DEF Track
  <2>2. text' = [tlm |-> 0, tm |-> 0, line |-> "same", places |-> t.places]
    BY <2>1 DEF Texts
  <2> HIDE DEF places
  <2> QED
    BY <1>1, <2>2 DEF Texts, Lines
<1>7. CASE x.op # "BT"
  <2>1. text' = [tlm |-> Line(t, x), tm |-> Matrix(t, x), line |-> LineFrom(t.line, x),
                 places |-> places]
    BY <1>7 DEF Track
  <2> HIDE DEF places
  <2> QED
    BY <1>2, <1>3, <1>5, <2>1 DEF Texts
<1> QED
  BY <1>6, <1>7

\* Re-opening a line changes nothing of what the repair tracks.
LEMMA ReopenedFields ==
  ASSUME text \in Texts
  PROVE  /\ Reopened \in Texts /\ Reopened.tlm = text.tlm /\ Reopened.tm = text.tm
         /\ Reopened.places = text.places
         /\ Reopened.line = IF Ahead(i, Shows) /\ text.tm # text.tlm THEN "middle" ELSE "same"
  BY DEF Reopened, Texts, Lines

-----------------------------------------------------------------------------
(* What a second run makes of what the first writes.                       *)

Alike(a, p) == a.in_text = p.in_text /\ a.mc_stack = p.mc_stack

LEMMA SameOpenings ==
  ASSUME NEW a \in Passes, NEW p \in Passes, Alike(a, p), NEW o
  PROVE  /\ Drops(a, o) <=> Drops(p, o)
         /\ Reopens(a, o) <=> Reopens(p, o)
         /\ Closes(a, o) <=> Closes(p, o)
         /\ Alike(After(a, o), After(p, o))
<1>1. OpenedInText(a) <=> OpenedInText(p)
  BY DEF Alike, OpenedInText
<1>2. /\ Drops(a, o) <=> Drops(p, o)
      /\ Reopens(a, o) <=> Reopens(p, o)
      /\ Closes(a, o) <=> Closes(p, o)
  BY <1>1 DEF Alike, Drops, Reopens, Closes
<1> QED
  BY <1>2 DEF Alike, After

\* An instruction copied is copied again.
LEMMA CopiedAgain ==
  ASSUME NEW a \in Passes, NEW p \in Passes, Alike(a, p), NEW o,
         ~Drops(p, o), ~Reopens(p, o), ~Closes(p, o)
  PROVE  Alike(After(a, o), After(p, o)) /\ After(a, o).changes = a.changes
<1>1. ~Drops(a, o) /\ ~Reopens(a, o) /\ ~Closes(a, o) /\ Alike(After(a, o), After(p, o))
  BY SameOpenings
<1> QED
  BY <1>1 DEF After

\* A BT put in is a text object for the second run.
LEMMA ReopenedAgain ==
  ASSUME NEW a \in Passes, NEW p \in Passes, Alike(a, p), NEW o, Reopens(p, o)
  PROVE  LET b == After(a, "BT")
             c == After(b, "Tm")
         IN  /\ b \in Passes /\ c = b
             /\ Alike(After(b, o), After(p, o)) /\ After(b, o).changes = a.changes
<1> DEFINE b == After(a, "BT")
<1>1. o \in TextTrigger /\ ~p.in_text /\ ~a.in_text
  BY DEF Reopens, Alike
<1>2. o # "BT" /\ o # "ET" /\ o # "BDC" /\ o # "EMC" /\ o # "q"
  BY <1>1 DEF TextTrigger, Positioned
<1>3. b.in_text = TRUE /\ b.mc_stack = a.mc_stack /\ b.changes = a.changes /\ b \in Passes
  <2>1. ~Drops(a, "BT") /\ ~Reopens(a, "BT") /\ ~Closes(a, "BT")
    BY <1>1 DEF Drops, Reopens, Closes, TextTrigger, Positioned
  <2> QED
    BY <2>1, AfterTyping DEF After
<1> HIDE DEF b
<1>4. ~Drops(b, o) /\ ~Reopens(b, o) /\ ~Closes(b, o)
  BY <1>2, <1>3 DEF Drops, Reopens, Closes
<1>5. /\ After(b, o).in_text = TRUE /\ After(b, o).mc_stack = a.mc_stack
      /\ After(b, o).changes = a.changes
  BY <1>2, <1>3, <1>4 DEF After
<1>6. After(p, o).in_text = TRUE /\ After(p, o).mc_stack = p.mc_stack
  BY <1>2 DEF After
<1>7. After(b, "Tm") = b
  <2>1. ~Drops(b, "Tm") /\ ~Reopens(b, "Tm") /\ ~Closes(b, "Tm")
    BY <1>3 DEF Drops, Reopens, Closes
  <2>2. After(b, "Tm") = [in_text |-> TRUE, mc_stack |-> b.mc_stack, changes |-> b.changes]
    BY <1>3, <2>1 DEF After
  <2> QED
    BY <1>3, <2>2 DEF Passes
<1>8. Alike(After(b, o), After(p, o))
  BY <1>5, <1>6 DEF Alike
<1> QED
  BY <1>3, <1>5, <1>7, <1>8 DEF b

\* An ET put in ends it.
LEMMA ClosedAgain ==
  ASSUME NEW a \in Passes, NEW p \in Passes, Alike(a, p), NEW o, Closes(p, o)
  PROVE  LET b == After(a, "ET")
         IN  /\ b \in Passes
             /\ Alike(After(b, o), After(p, o)) /\ After(b, o).changes = a.changes
<1> DEFINE b == After(a, "ET")
<1>1. p.in_text = TRUE /\ a.in_text = TRUE /\ o \in {"q", "EMC"}
  BY DEF Closes, Alike, Passes
<1>2. b.in_text = FALSE /\ b.mc_stack = a.mc_stack /\ b.changes = a.changes /\ b \in Passes
  <2>1. ~Drops(a, "ET") /\ ~Reopens(a, "ET") /\ ~Closes(a, "ET")
    BY <1>1 DEF Drops, Reopens, Closes
  <2> QED
    BY <2>1, AfterTyping DEF After
<1> HIDE DEF b
<1>3. ~Drops(b, o) /\ ~Reopens(b, o) /\ ~Closes(b, o)
  BY <1>1, <1>2 DEF Drops, Reopens, Closes, TextTrigger, Positioned
<1>4. After(b, o).in_text = FALSE /\ After(b, o).changes = a.changes
  BY <1>1, <1>2, <1>3 DEF After
<1>5. After(p, o).in_text = FALSE
  BY <1>1 DEF After, Reopens
<1>6. After(b, o).mc_stack = After(p, o).mc_stack
  BY <1>1, <1>2 DEF After, Alike
<1> QED
  BY <1>2, <1>4, <1>5, <1>6 DEF Alike, b

-----------------------------------------------------------------------------
(* The look ahead.                                                         *)

Marking == Positioned \cup {"ET"}

LEMMA AheadHere ==
  ASSUME NEW n \in 1..Len(instrs), Len(instrs) \in Nat, instrs[n].op \in Marking, NEW ops
  PROVE  Ahead(n, ops) <=> instrs[n].op \in ops
<1>1. \A j \in Upcoming(n) : j = n
  BY DEF Upcoming, Marking
<1>2. n \in Upcoming(n)
  BY DEF Upcoming, Marking
<1> QED
  BY <1>1, <1>2 DEF Ahead

LEMMA AheadFurther ==
  ASSUME NEW n \in 1..Len(instrs), Len(instrs) \in Nat, instrs[n].op \notin Marking, NEW ops
  PROVE  Ahead(n, ops) <=> Ahead(n + 1, ops)
<1>1. \A j : j \in Upcoming(n) <=> j \in Upcoming(n + 1)
  <2> TAKE j
  <2>1. j \in Upcoming(n) => j \in Upcoming(n + 1)
    BY DEF Upcoming, Marking
  <2>2. j \in Upcoming(n + 1) => j \in Upcoming(n)
    <3> SUFFICES ASSUME j \in Upcoming(n + 1) PROVE j \in Upcoming(n)
      OBVIOUS
    <3>1. j \in n..Len(instrs) /\ instrs[j].op \in Marking
      BY DEF Upcoming, Marking
    <3>2. \A l \in n..(j - 1) : l = n \/ l \in (n + 1)..(j - 1)
      BY <3>1
    <3>3. \A l \in n..(j - 1) : instrs[l].op \notin Marking
      BY <3>2 DEF Upcoming, Marking
    <3> QED
      BY <3>1, <3>3 DEF Upcoming, Marking
  <2> QED
    BY <2>1, <2>2
<1> QED
  BY <1>1 DEF Ahead

LEMMA AheadIsOne ==
  ASSUME NEW n \in Nat, Len(instrs) \in Nat
  PROVE  ~(Ahead(n, {"Td"}) /\ Ahead(n, Shows))
<1> SUFFICES ASSUME NEW j \in Upcoming(n), instrs[j].op = "Td",
                    NEW l \in Upcoming(n), instrs[l].op \in Shows
             PROVE  FALSE
  BY DEF Ahead
<1>1. j \in Nat /\ l \in Nat /\ j >= n /\ l >= n
  BY DEF Upcoming
<1>2. ~(j < l) /\ ~(l < j)
  BY <1>1 DEF Upcoming
<1> QED
  BY <1>1, <1>2 DEF Shows

-----------------------------------------------------------------------------
(* Text positions.                                                         *)

\* A line that is the same has both matrices in common, or at least that of the line
\* if a move is the first to need one; in the middle of a line it is the place in it.
Settled(v, t, n) ==
  /\ t.line = "same" =>
       \/ v.tlm = t.tlm /\ v.tm = t.tm
       \/ ~Ahead(n, Shows) /\ (Ahead(n, {"Td"}) => v.tlm = t.tlm)
  /\ t.line = "middle" => v.tm = t.tm

InPlace(v, t) ==
  /\ Len(v.drawn) = Len(t.places)
  /\ \A k \in DOMAIN v.drawn : t.places[k].line # "lost" => v.drawn[k] = t.places[k].at

\* What does not position text draws nothing and moves nothing.
LEMMA QuietStep ==
  ASSUME NEW v \in Views, NEW x \in Instructions, x.op \notin Positioned
  PROVE  /\ View(v, x).drawn = v.drawn
         /\ x.op # "BT" => View(v, x).tlm = v.tlm /\ View(v, x).tm = v.tm
<1>1. x.op \notin Shows /\ x.op # "Tm" /\ x.op \notin {"Td", "'"}
  BY DEF Positioned, Shows
<1>2. Line(v, x) = v.tlm /\ Matrix(v, x) = v.tm
  BY <1>1 DEF Line, Matrix
<1> QED
  BY <1>1, <1>2 DEF View, Views

LEMMA QuietTrack ==
  ASSUME NEW t \in Texts, NEW x \in Instructions, x.op \notin Positioned, Track(t, x)
  PROVE  /\ text'.places = t.places
         /\ x.op # "BT" => text'.tlm = t.tlm /\ text'.tm = t.tm /\ text'.line = t.line
         /\ x.op = "BT" => text'.tlm = 0 /\ text'.tm = 0
<1>1. x.op \notin Shows /\ x.op # "Tm" /\ x.op \notin {"Td", "'"}
  BY DEF Positioned, Shows
<1>2. Line(t, x) = t.tlm /\ Matrix(t, x) = t.tm
  BY <1>1 DEF Line, Matrix
<1>3. CASE x.op = "BT"
  BY <1>3 DEF Track, Texts
<1>4. CASE x.op # "BT"
  BY <1>1, <1>2, <1>4 DEF Track, LineFrom
<1> QED
  BY <1>3, <1>4

\* A move takes viewer and repair to the same place.
LEMMA MoveStep ==
  ASSUME NEW v \in Views, NEW t \in Texts, NEW x \in Instructions,
         x.op \in {"Tm", "Td"}, Track(t, x)
  PROVE  /\ View(v, x).drawn = v.drawn /\ text'.places = t.places
         /\ text'.line = LineFrom(t.line, x)
         /\ x.op = "Tm" \/ v.tlm = t.tlm =>
              View(v, x).tlm = text'.tlm /\ View(v, x).tm = text'.tm
<1>1. x.op \notin Shows /\ x.op \in Positioned /\ x.op # "BT"
  BY DEF Shows, Positioned
<1>2. x.op = "Tm" \/ v.tlm = t.tlm => Line(v, x) = Line(t, x)
  BY DEF Line
<1>3. Matrix(v, x) = Line(v, x) /\ Matrix(t, x) = Line(t, x)
  BY <1>1 DEF Matrix
<1> QED
  BY <1>1, <1>2, <1>3 DEF View, Track

\* Text shown is drawn once.
LEMMA ShowStep ==
  ASSUME NEW v \in Views, NEW t \in Texts, NEW x \in Instructions, x.op \in Shows,
         InPlace(v, t), LineFrom(t.line, x) # "lost" => At(v, x) = At(t, x), Track(t, x)
  PROVE  InPlace(View(v, x), text')
<1> DEFINE mark == At(v, x)
           place == [at |-> At(t, x), line |-> LineFrom(t.line, x)]
<1>1. x.op # "BT"
  BY DEF Shows
<1>2. View(v, x).drawn = Append(v.drawn, mark) /\ text'.places = Append(t.places, place)
  BY <1>1 DEF View, Track
<1>3. v.drawn \in Seq(Int) /\ t.places \in Seq(Places)
  BY DEF Views, Texts
<1>4. At(v, x) \in Int /\ At(t, x) \in Int /\ LineFrom(t.line, x) \in Lines
  BY LineTyping, LineFromTyping DEF Views, Texts
<1>5. mark \in Int /\ place \in Places
  BY <1>4 DEF Places
<1>6. place.line # "lost" => mark = place.at
  OBVIOUS
<1> HIDE DEF mark, place
<1>7. /\ Len(Append(v.drawn, mark)) = Len(v.drawn) + 1
      /\ Len(Append(t.places, place)) = Len(t.places) + 1
      /\ \A k \in 1..Len(v.drawn) : Append(v.drawn, mark)[k] = v.drawn[k]
      /\ \A k \in 1..Len(t.places) : Append(t.places, place)[k] = t.places[k]
      /\ Append(v.drawn, mark)[Len(v.drawn) + 1] = mark
      /\ Append(t.places, place)[Len(t.places) + 1] = place
      /\ DOMAIN Append(v.drawn, mark) = 1..(Len(v.drawn) + 1)
      /\ DOMAIN v.drawn = 1..Len(v.drawn) /\ Len(v.drawn) \in Nat
  BY <1>3, <1>5
<1>8. Len(v.drawn) = Len(t.places)
  BY DEF InPlace
<1>9. ASSUME NEW k \in 1..(Len(v.drawn) + 1), Append(t.places, place)[k].line # "lost"
      PROVE  Append(v.drawn, mark)[k] = Append(t.places, place)[k].at
  <2>1. CASE k \in 1..Len(v.drawn)
    BY <1>7, <1>8, <1>9, <2>1 DEF InPlace
  <2>2. CASE k = Len(v.drawn) + 1
    BY <1>6, <1>7, <1>8, <1>9, <2>2
  <2>3. k \in 1..Len(v.drawn) \/ k = Len(v.drawn) + 1
    BY <1>7
  <2> QED
    BY <2>1, <2>2, <2>3
<1> QED
  BY <1>2, <1>7, <1>8, <1>9 DEF InPlace

\* One instruction of a text object, however the object came to be open.
LEMMA TextStep ==
  ASSUME NEW v \in Views, NEW t \in Texts, Len(instrs) \in Nat, i \in 1..Len(instrs),
         Instr \in Instructions, Instr.op # "BT", Instr.op # "ET",
         InPlace(v, t), Settled(v, t, i), Track(t, Instr)
  PROVE  InPlace(View(v, Instr), text') /\ Settled(View(v, Instr), text', i + 1)
<1> DEFINE x == Instr
<1>1. x = instrs[i]
  BY DEF Instr
<1>2. t.line \in Lines
  BY DEF Texts
<1>3. CASE x.op \in Shows
  <2>1. x.op \in Marking /\ x.op # "BT" /\ x.op # "Tm"
    BY <1>3 DEF Shows, Marking, Positioned
  <2>2. Ahead(i, Shows)
    BY <1>1, <1>3, <2>1, AheadHere
  <2>3. /\ t.line = "same" => v.tlm = t.tlm /\ v.tm = t.tm
        /\ t.line = "middle" => v.tm = t.tm
    BY <2>2 DEF Settled
  <2>4. /\ View(v, x).tlm = Line(v, x) /\ View(v, x).tm = At(v, x) + Advance
        /\ text'.tlm = Line(t, x) /\ text'.tm = At(t, x) + Advance
        /\ text'.line = LineFrom(t.line, x)
    BY <1>3, <2>1 DEF View, Track, Matrix
  <2>5. CASE x.op = "Tj"
    <3>1. /\ Line(v, x) = v.tlm /\ Line(t, x) = t.tlm /\ At(v, x) = v.tm /\ At(t, x) = t.tm
          /\ LineFrom(t.line, x) = t.line
      BY <2>5 DEF Line, At, LineFrom
    <3>2. t.line # "lost" => v.tm = t.tm
      BY <1>2, <2>3 DEF Lines
    <3>3. InPlace(View(v, x), text')
      BY <1>3, <3>1, <3>2, ShowStep
    <3> QED
      BY <2>3, <2>4, <3>1, <3>3 DEF Settled
  <2>6. CASE x.op = "'"
    <3>1. /\ Line(v, x) = v.tlm + Move /\ Line(t, x) = t.tlm + Move
          /\ At(v, x) = Line(v, x) /\ At(t, x) = Line(t, x)
          /\ LineFrom(t.line, x) = IF t.line = "middle" THEN "lost" ELSE t.line
      BY <2>6 DEF Line, At, LineFrom
    <3>2. t.line = "same" => At(v, x) = At(t, x) /\ Line(v, x) = Line(t, x)
      BY <2>3, <3>1
    <3>3. LineFrom(t.line, x) # "lost" => t.line = "same"
      BY <1>2, <3>1 DEF Lines
    <3>4. InPlace(View(v, x), text')
      BY <1>3, <3>2, <3>3, ShowStep
    <3>5. LineFrom(t.line, x) # "middle"
      BY <3>1
    <3> QED
      BY <2>4, <3>2, <3>3, <3>4, <3>5 DEF Settled
  <2> QED
    BY <1>3, <2>5, <2>6 DEF Shows
<1>4. CASE x.op \in {"Tm", "Td"}
  <2>1. /\ View(v, x).drawn = v.drawn /\ text'.places = t.places
        /\ text'.line = LineFrom(t.line, x)
        /\ x.op = "Tm" \/ v.tlm = t.tlm =>
             View(v, x).tlm = text'.tlm /\ View(v, x).tm = text'.tm
    BY <1>4, MoveStep
  <2>2. InPlace(View(v, x), text')
    BY <2>1 DEF InPlace
  <2>3. CASE x.op = "Tm"
    BY <2>1, <2>2, <2>3 DEF Settled
  <2>4. CASE x.op = "Td"
    <3>1. x.op \in Marking
      BY <2>4 DEF Marking, Positioned
    <3>2. Ahead(i, {"Td"})
      BY <1>1, <2>4, <3>1, AheadHere
    <3>3. t.line = "same" => v.tlm = t.tlm
      BY <3>2 DEF Settled
    <3>4. text'.line # "middle" /\ (text'.line = "same" => t.line = "same")
      BY <2>1, <2>4 DEF LineFrom
    <3> QED
      BY <2>1, <2>2, <3>3, <3>4 DEF Settled
  <2> QED
    BY <1>4, <2>3, <2>4
<1>5. CASE x.op \notin Positioned
  <2>1. x.op \notin Marking
    BY <1>5 DEF Marking
  <2>2. /\ View(v, x).drawn = v.drawn /\ View(v, x).tlm = v.tlm /\ View(v, x).tm = v.tm
    BY <1>5, QuietStep
  <2>3. /\ text'.places = t.places /\ text'.tlm = t.tlm /\ text'.tm = t.tm
        /\ text'.line = t.line
    BY <1>5, QuietTrack
  <2>4. InPlace(View(v, x), text')
    BY <2>2, <2>3 DEF InPlace
  <2>5. /\ Ahead(i, {"Td"}) <=> Ahead(i + 1, {"Td"})
        /\ Ahead(i, Shows) <=> Ahead(i + 1, Shows)
    BY <1>1, <2>1, AheadFurther
  <2> QED
    BY <2>2, <2>3, <2>4, <2>5 DEF Settled
<1> QED
  BY <1>3, <1>4, <1>5 DEF Positioned, Shows

-----------------------------------------------------------------------------
(* Marked content.                                                         *)

\* The stack of the repair says of each open sequence whether the viewer of what is
\* written has it opened in a text object.
Marked(v, p) ==
  /\ Len(v.mc) = Len(p.mc_stack)
  /\ \A k \in 1..Len(v.mc) : p.mc_stack[k] <=> v.mc[k] # 0

Counted(v) == v.in_text => v.objects # 0

LEMMA CountedView ==
  ASSUME NEW v \in Views, NEW x \in Instructions, Counted(v)
  PROVE  Counted(View(v, x))
<1>1. v.objects \in Nat /\ v.in_text \in BOOLEAN
  BY DEF Views
<1>2. v.objects + 1 # 0
  BY <1>1
<1> QED
  BY <1>2 DEF View, Counted

LEMMA MarkedTop ==
  ASSUME NEW v \in Views, NEW p \in Passes, Marked(v, p)
  PROVE  OpenedInText(p) <=> Opened(v) # 0
<1>1. v.mc \in Seq(Nat) /\ p.mc_stack \in Seq(BOOLEAN) /\ Len(v.mc) = Len(p.mc_stack)
  BY DEF Views, Passes, Marked
<1>2. CASE v.mc = <<>>
  BY <1>1, <1>2 DEF OpenedInText, Opened
<1>3. CASE v.mc # <<>>
  <2>1. p.mc_stack # <<>> /\ Len(v.mc) \in 1..Len(v.mc)
    BY <1>1, <1>3
  <2> QED
    BY <1>1, <1>3, <2>1 DEF OpenedInText, Opened, Marked
<1> QED
  BY <1>2, <1>3

LEMMA MarkedStep ==
  ASSUME NEW v \in Views, NEW p \in Passes, NEW x \in Instructions, Marked(v, p),
         x.op = "BDC" => v.in_text = p.in_text /\ Counted(v)
  PROVE  Marked(View(v, x), After(p, x.op))
<1>1. /\ v.mc \in Seq(Nat) /\ p.mc_stack \in Seq(BOOLEAN) /\ Len(v.mc) = Len(p.mc_stack)
      /\ p.in_text \in BOOLEAN /\ v.objects \in Nat /\ Len(v.mc) \in Nat
  BY DEF Views, Passes, Marked
<1>2. CASE x.op = "BDC"
  <2>1. View(v, x).mc = Append(v.mc, Here(v)) /\ After(p, x.op).mc_stack = Append(p.mc_stack, p.in_text)
    BY <1>2 DEF View, After
  <2>2. Here(v) \in Nat /\ (p.in_text <=> Here(v) # 0)
    BY <1>1, <1>2 DEF Here, Counted
  <2> DEFINE here == Here(v)
             top == p.in_text
  <2> HIDE DEF here, top
  <2>3. here \in Nat /\ top \in BOOLEAN /\ (top <=> here # 0)
    BY <1>1, <2>2 DEF here, top
  <2>4. /\ Len(Append(v.mc, here)) = Len(v.mc) + 1
        /\ Len(Append(p.mc_stack, top)) = Len(v.mc) + 1
        /\ \A k \in 1..Len(v.mc) : Append(v.mc, here)[k] = v.mc[k]
        /\ \A k \in 1..Len(v.mc) : Append(p.mc_stack, top)[k] = p.mc_stack[k]
        /\ Append(v.mc, here)[Len(v.mc) + 1] = here
        /\ Append(p.mc_stack, top)[Len(v.mc) + 1] = top
    BY <1>1, <2>3
  <2>5. \A k \in 1..(Len(v.mc) + 1) : k \in 1..Len(v.mc) \/ k = Len(v.mc) + 1
    BY <1>1
  <2>6. \A k \in 1..(Len(v.mc) + 1) : Append(p.mc_stack, top)[k] <=> Append(v.mc, here)[k] # 0
    BY <2>3, <2>4, <2>5 DEF Marked
  <2>7. View(v, x).mc = Append(v.mc, here) /\ After(p, x.op).mc_stack = Append(p.mc_stack, top)
    BY <2>1 DEF here, top
  <2> QED
    BY <2>4, <2>6, <2>7 DEF Marked
<1>3. CASE x.op = "EMC" /\ v.mc # <<>>
  <2>1. p.mc_stack # <<>>
    BY <1>1, <1>3
  <2>2. /\ View(v, x).mc = SubSeq(v.mc, 1, Len(v.mc) - 1)
        /\ After(p, x.op).mc_stack = SubSeq(p.mc_stack, 1, Len(v.mc) - 1)
    BY <1>1, <1>3, <2>1 DEF View, After
  <2>3. Len(v.mc) - 1 \in Nat
    BY <1>1, <1>3
  <2>4. /\ Len(SubSeq(v.mc, 1, Len(v.mc) - 1)) = Len(v.mc) - 1
        /\ Len(SubSeq(p.mc_stack, 1, Len(v.mc) - 1)) = Len(v.mc) - 1
        /\ \A k \in 1..(Len(v.mc) - 1) : SubSeq(v.mc, 1, Len(v.mc) - 1)[k] = v.mc[k]
        /\ \A k \in 1..(Len(v.mc) - 1) :
             SubSeq(p.mc_stack, 1, Len(v.mc) - 1)[k] = p.mc_stack[k]
        /\ \A k \in 1..(Len(v.mc) - 1) : k \in 1..Len(v.mc)
    BY <1>1, <2>3
  <2> QED
    BY <2>2, <2>4 DEF Marked
<1>4. CASE x.op # "BDC" /\ ~(x.op = "EMC" /\ v.mc # <<>>)
  <2>1. v.mc = <<>> <=> p.mc_stack = <<>>
    BY <1>1
  <2>2. View(v, x).mc = v.mc /\ After(p, x.op).mc_stack = p.mc_stack
    BY <1>4, <2>1 DEF View, After
  <2> QED
    BY <2>2 DEF Marked
<1> QED
  BY <1>2, <1>3, <1>4

\* It is the sequences of the viewer that count, not the text objects around them.
LEMMA MarkedStays ==
  ASSUME NEW v, NEW w, NEW p, NEW q, Marked(v, p), w.mc = v.mc, q.mc_stack = p.mc_stack
  PROVE  Marked(w, q)
  BY DEF Marked

-----------------------------------------------------------------------------
(* The inductive invariant.                                                *)

\* The viewer of the output and the second run are in text when the repair is, and
\* have the same sequences open.
Joined ==
  /\ page.in_text = pass.in_text /\ Alike(again, pass)
  /\ Counted(page) /\ Marked(page, pass)
  /\ page.legal /\ again.changes = 0
  /\ done => ~pass.in_text /\ i > Len(instrs)

Positions ==
  /\ InPlace(page, text)
  /\ pass.in_text => Settled(page, text, i)

StreamInv == TypeOK /\ Joined /\ UncountedIsUnchanged /\ Positions

LEMMA StreamInitially == Init => StreamInv
<1> SUFFICES ASSUME Init PROVE StreamInv
  OBVIOUS
<1>1. PICK n \in 0..MaxLength : \E s \in [1..n -> Used] : instrs = [k \in 1..n |-> Op(s[k])]
  BY DEF Init
<1>2. PICK s \in [1..n -> Used] : instrs = [k \in 1..n |-> Op(s[k])]
  BY <1>1
<1>3. n \in Nat
  BY <1>1
<1>4. \A o \in Used : Op(o) \in Instructions
  BY StreamAssumption DEF Op, Instructions
<1>5. instrs \in [1..n -> Instructions]
  BY <1>2, <1>4
<1>6. instrs \in Seq(Instructions)
  BY <1>3, <1>5
<1>7. Fresh \in Passes
  BY DEF Fresh, Passes
<1>8. Blank \in Views
  BY DEF Blank, Views
<1>9. text \in Texts
  BY DEF Init, Texts, Lines
<1>10. TypeOK
  <2>1. i \in 1..(Len(instrs) + 1)
    BY <1>6 DEF Init
  <2>2. out \in Seq(Instructions) /\ done \in BOOLEAN
    <3>1. out = <<>> /\ done = FALSE
      BY DEF Init
    <3>2. out \in Seq(Instructions)
      BY <3>1
    <3>3. done \in BOOLEAN
      BY <3>1
    <3> QED
      BY <3>2, <3>3
  <2>3. pass \in Passes /\ again \in Passes /\ page \in Views /\ source \in Views
    BY <1>7, <1>8 DEF Init
  <2> QED
    BY <1>6, <1>9, <2>1, <2>2, <2>3 DEF TypeOK
<1>11. Joined
  BY DEF Init, Fresh, Blank, Joined, Alike, Counted, Marked
<1>12. UncountedIsUnchanged
  BY <1>6 DEF Init, UncountedIsUnchanged
<1>13. Positions
  BY DEF Init, Fresh, Blank, Positions, InPlace
<1> QED
  BY <1>10, <1>11, <1>12, <1>13 DEF StreamInv

\* What is read is typed, and so is what reading changes.
LEMMA ReadTyping ==
  ASSUME TypeOK, Read
  PROVE  /\ i \in 1..Len(instrs) /\ Len(instrs) \in Nat /\ Instr \in Instructions
         /\ instrs' = instrs /\ i' = i + 1 /\ done' = done
         /\ instrs' \in Seq(Instructions) /\ i' \in 1..(Len(instrs') + 1)
         /\ pass' \in Passes /\ source' \in Views
<1>1. instrs \in Seq(Instructions) /\ i \in 1..Len(instrs) /\ Len(instrs) \in Nat
  BY DEF TypeOK, Read
<1>2. Instr \in Instructions
  BY <1>1 DEF Instr
<1>3. pass' \in Passes /\ source' \in Views
  BY <1>2, AfterTyping, ViewTyping DEF TypeOK, Read
<1> QED
  BY <1>1, <1>2, <1>3 DEF Read

\* A change is counted.
LEMMA CountedStep ==
  ASSUME TypeOK, Read,
         Drops(pass, Instr.op) \/ Reopens(pass, Instr.op) \/ Closes(pass, Instr.op)
  PROVE  UncountedIsUnchanged'
<1>1. pass.changes \in Nat
  BY DEF TypeOK, Passes
<1>2. pass'.changes = pass.changes + 1
  BY DEF Read, After
<1> QED
  BY <1>1, <1>2 DEF UncountedIsUnchanged

LEMMA StreamDrop ==
  ASSUME StreamInv, Drop
  PROVE  StreamInv'
<1>1. /\ i \in 1..Len(instrs) /\ Len(instrs) \in Nat /\ Instr \in Instructions
      /\ instrs' = instrs /\ i' = i + 1 /\ done' = done
      /\ instrs' \in Seq(Instructions) /\ i' \in 1..(Len(instrs') + 1)
      /\ pass' \in Passes /\ source' \in Views
  BY ReadTyping DEF StreamInv, Drop
<1>2. TypeOK'
  BY <1>1 DEF StreamInv, TypeOK, Drop
<1>3. pass.in_text \in BOOLEAN
  BY DEF StreamInv, TypeOK, Passes
<1>4. /\ Instr.op \in {"BT", "ET"} /\ (pass.in_text <=> Instr.op = "BT")
      /\ pass' = After(pass, Instr.op)
  BY <1>3 DEF Drop, Read, Drops
<1>5. pass'.in_text = pass.in_text /\ pass'.mc_stack = pass.mc_stack
  BY <1>3, <1>4 DEF After, Reopens, TextTrigger, Positioned
<1>6. Joined'
  <2>1. Marked(page, pass)' /\ Counted(page)'
    BY <1>5 DEF StreamInv, Joined, Marked, Counted, Drop
  <2> QED
    BY <1>1, <1>5, <2>1 DEF StreamInv, Joined, Alike, Drop
<1>7. UncountedIsUnchanged'
  BY CountedStep DEF StreamInv, Drop
<1>8. Positions'
  <2>1. InPlace(page, text)' /\ text' = text /\ page' = page
    BY DEF StreamInv, Positions, Drop, InPlace
  <2>2. CASE Instr.op = "ET"
    BY <1>4, <1>5, <2>1, <2>2 DEF Positions
  <2>3. CASE Instr.op = "BT"
    <3>1. Instr.op \notin Marking /\ Instr = instrs[i]
      BY <2>3 DEF Marking, Positioned, Instr
    <3>2. /\ Ahead(i, {"Td"}) <=> Ahead(i + 1, {"Td"})
          /\ Ahead(i, Shows) <=> Ahead(i + 1, Shows)
      BY <1>1, <3>1, AheadFurther
    <3>3. /\ Ahead(i, {"Td"})' <=> Ahead(i + 1, {"Td"})
          /\ Ahead(i, Shows)' <=> Ahead(i + 1, Shows)
      BY <1>1 DEF Ahead, Upcoming
    <3> QED
      BY <1>5, <2>1, <3>2, <3>3 DEF StreamInv, Positions, Settled
  <2> QED
    BY <1>4, <2>2, <2>3
<1> QED
  BY <1>2, <1>6, <1>7, <1>8 DEF StreamInv


\* What a viewer of the output makes of a BT put in, with or without its Tm.
LEMMA BTPutIn ==
  ASSUME NEW v \in Views, v.legal, ~v.in_text, NEW m \in Int
  PROVE  LET b == View(v, Op("BT"))
             c == View(b, TmTo(m))
         IN  /\ b \in Views /\ b.legal /\ b.in_text = TRUE /\ b.drawn = v.drawn
             /\ b.tlm = 0 /\ b.tm = 0 /\ b.mc = v.mc /\ Counted(b)
             /\ c \in Views /\ c.legal /\ c.in_text = TRUE /\ c.drawn = v.drawn
             /\ c.tlm = m /\ c.tm = m /\ c.mc = v.mc /\ Counted(c)
<1>1. /\ Op("BT") \in Instructions /\ Op("BT").op = "BT"
      /\ TmTo(m) \in Instructions /\ TmTo(m).op = "Tm" /\ TmTo(m).to = m
  BY InstructionTyping
<1>2. "BT" \notin Shows /\ "Tm" \notin Shows /\ "Tm" \in Positioned
  BY DEF Shows, Positioned
<1> DEFINE b == View(v, Op("BT"))
<1>3. b \in Views
  BY <1>1, ViewTyping
<1>4. /\ b.legal /\ b.in_text = TRUE /\ b.drawn = v.drawn /\ b.tlm = 0 /\ b.tm = 0
      /\ b.mc = v.mc /\ b.objects = v.objects + 1
  BY <1>1, <1>2 DEF View, Positioned
<1>5. Counted(b)
  <2>1. v.objects \in Nat
    BY DEF Views
  <2>2. b.objects # 0
    BY <1>4, <2>1
  <2> HIDE DEF b
  <2> QED
    BY <2>2 DEF Counted
<1> HIDE DEF b
<1>6. View(b, TmTo(m)) \in Views /\ Counted(View(b, TmTo(m)))
  BY <1>1, <1>3, <1>5, ViewTyping, CountedView
<1>7. /\ View(b, TmTo(m)).in_text = TRUE /\ View(b, TmTo(m)).drawn = v.drawn
      /\ View(b, TmTo(m)).legal /\ View(b, TmTo(m)).mc = v.mc
  BY <1>1, <1>2, <1>4 DEF View
<1>8. Line(b, TmTo(m)) = m /\ Matrix(b, TmTo(m)) = m
  BY <1>1, <1>2 DEF Line, Matrix
<1>9. View(b, TmTo(m)).tlm = m /\ View(b, TmTo(m)).tm = m
  BY <1>1, <1>8 DEF View
<1> QED
  BY <1>3, <1>4, <1>5, <1>6, <1>7, <1>9 DEF b

\* And of an ET put in.
LEMMA ETPutIn ==
  ASSUME NEW v \in Views, v.legal, v.in_text
  PROVE  /\ View(v, Op("ET")) \in Views /\ View(v, Op("ET")).legal
         /\ View(v, Op("ET")).in_text = FALSE /\ View(v, Op("ET")).drawn = v.drawn
         /\ View(v, Op("ET")).mc = v.mc /\ Counted(View(v, Op("ET")))
<1>1. Op("ET") \in Instructions /\ Op("ET").op = "ET" /\ "ET" \notin Shows
  BY InstructionTyping DEF Shows
<1>2. View(v, Op("ET")) \in Views
  BY <1>1, ViewTyping
<1>3. /\ View(v, Op("ET")).legal /\ View(v, Op("ET")).in_text = FALSE
      /\ View(v, Op("ET")).drawn = v.drawn /\ View(v, Op("ET")).mc = v.mc
  BY <1>1 DEF View
<1> QED
  BY <1>2, <1>3 DEF Counted

\* What text needs, in an open text object, keeps the output legal.
LEMMA LegalText ==
  ASSUME NEW v \in Views, v.legal, v.in_text, NEW x \in Instructions, x.op \in TextTrigger
  PROVE  View(v, x).legal /\ View(v, x).in_text = TRUE
<1>1. x.op \notin {"BT", "ET", "q", "EMC"}
  BY DEF TextTrigger, Positioned
<1>2. v.in_text = TRUE
  BY DEF Views
<1> QED
  BY <1>1, <1>2 DEF View

LEMMA StreamReopen ==
  ASSUME StreamInv, Reopen
  PROVE  StreamInv'
<1> DEFINE x == Instr
           b == View(page, Op("BT"))
           c == View(b, TmTo(Restored))
           v == IF Restored = 0 THEN b ELSE c
<1>1. /\ i \in 1..Len(instrs) /\ Len(instrs) \in Nat /\ x \in Instructions
      /\ instrs' = instrs /\ i' = i + 1 /\ done' = done
      /\ instrs' \in Seq(Instructions) /\ i' \in 1..(Len(instrs') + 1)
      /\ pass' \in Passes /\ source' \in Views
  BY ReadTyping DEF StreamInv, Reopen
<1>2. /\ text \in Texts /\ page \in Views /\ again \in Passes /\ pass \in Passes
      /\ out \in Seq(Instructions) /\ done \in BOOLEAN
  BY DEF StreamInv, TypeOK
<1>3. text.tlm \in Int /\ text.tm \in Int /\ Restored \in Int
  BY <1>2 DEF Texts, Restored
<1>4. /\ Reopens(pass, x.op) /\ x.op \in TextTrigger /\ ~pass.in_text
      /\ pass' = After(pass, x.op) /\ Track(Reopened, x)
  BY DEF Reopen, Reopens, Read
<1>5. x.op \notin {"BT", "ET", "BDC", "EMC"}
  BY <1>4 DEF TextTrigger, Positioned
<1>6. /\ Alike(again, pass) /\ page.in_text = pass.in_text /\ page.legal /\ again.changes = 0
      /\ done => ~pass.in_text
      /\ Marked(page, pass)
  BY DEF StreamInv, Joined
<1>7. /\ b \in Views /\ c \in Views /\ b.legal /\ c.legal /\ b.in_text = TRUE /\ c.in_text = TRUE
      /\ b.drawn = page.drawn /\ c.drawn = page.drawn
      /\ b.mc = page.mc /\ c.mc = page.mc /\ Counted(b) /\ Counted(c)
      /\ b.tlm = 0 /\ b.tm = 0 /\ c.tlm = Restored /\ c.tm = Restored
  BY <1>2, <1>3, <1>4, <1>6, BTPutIn
<1>8. /\ v \in Views /\ v.legal /\ v.in_text = TRUE /\ v.drawn = page.drawn
      /\ v.mc = page.mc /\ Counted(v) /\ v.tlm = Restored /\ v.tm = Restored
  BY <1>7
<1>9. page' = View(v, x)
  BY DEF Reopen, PutBoth, PutThree
<1> HIDE DEF b, c, v
<1>10. Op("BT") \in Instructions /\ Op("BT").op = "BT" /\ TmTo(Restored) \in Instructions
       /\ TmTo(Restored).op = "Tm"
  BY <1>3, InstructionTyping
<1>11. LET d == After(again, "BT")
       IN  /\ d \in Passes /\ After(d, "Tm") = d
           /\ Alike(After(d, x.op), After(pass, x.op)) /\ After(d, x.op).changes = again.changes
  BY <1>2, <1>4, <1>6, ReopenedAgain
<1>12. again' = After(After(again, "BT"), x.op)
  BY <1>10, <1>11 DEF Reopen, PutBoth, PutThree
<1>13. out' \in Seq(Instructions)
  <2>1. CASE Restored = 0
    <3>1. out' = Append(Append(out, Op("BT")), x)
      BY <2>1 DEF Reopen, PutBoth
    <3> HIDE DEF x
    <3> QED
      BY <1>1, <1>2, <1>10, <3>1
  <2>2. CASE Restored # 0
    <3>1. out' = Append(Append(Append(out, Op("BT")), TmTo(Restored)), x)
      BY <2>2 DEF Reopen, PutThree
    <3> HIDE DEF x
    <3> QED
      BY <1>1, <1>2, <1>10, <3>1
  <2> QED
    BY <2>1, <2>2
<1>14. again' \in Passes /\ page' \in Views /\ text' \in Texts
  <2>1. After(After(again, "BT"), x.op) \in Passes
    BY <1>11, AfterTyping
  <2>2. View(v, x) \in Views
    BY <1>1, <1>8, ViewTyping
  <2>3. text' \in Texts
    BY <1>1, <1>2, <1>4, ReopenedFields, TrackTyping
  <2> QED
    BY <1>9, <1>12, <2>1, <2>2, <2>3
<1>15. TypeOK'
  BY <1>1, <1>2, <1>13, <1>14 DEF TypeOK
<1>16. View(v, x).legal /\ View(v, x).in_text = TRUE
  BY <1>1, <1>4, <1>8, LegalText
<1>17. pass'.in_text = TRUE
  BY <1>4 DEF After
<1>18. Joined'
  <2>1. page'.legal /\ page'.in_text = pass'.in_text
    BY <1>9, <1>16, <1>17
  <2>2. Alike(again, pass)' /\ again'.changes = 0
    <3>1. Alike(again', pass') /\ again'.changes = 0
      BY <1>4, <1>6, <1>11, <1>12
    <3> QED
      BY <3>1 DEF Alike
  <2>3. ~done'
    BY <1>1 DEF StreamInv, Joined
  <2>4. Marked(View(v, x), After(pass, x.op)) /\ Counted(View(v, x))
    <3>1. Marked(v, pass)
      BY <1>6, <1>8, MarkedStays
    <3> QED
      BY <1>1, <1>2, <1>5, <1>8, <3>1, MarkedStep, CountedView
  <2>5. Marked(page, pass)' /\ Counted(page)'
    <3>1. Marked(page', pass') /\ Counted(page')
      BY <1>4, <1>9, <2>4
    <3> QED
      BY <3>1 DEF Marked, Counted
  <2> QED
    BY <2>1, <2>2, <2>3, <2>5 DEF Joined
<1>19. UncountedIsUnchanged'
  BY CountedStep DEF StreamInv, Reopen
<1>20. /\ Reopened \in Texts /\ Reopened.tlm = text.tlm /\ Reopened.tm = text.tm
       /\ Reopened.places = text.places
       /\ Reopened.line = IF Ahead(i, Shows) /\ text.tm # text.tlm THEN "middle" ELSE "same"
  BY <1>2, ReopenedFields
<1>21. Settled(v, Reopened, i)
  <2>1. ~(Ahead(i, {"Td"}) /\ Ahead(i, Shows))
    BY <1>1, AheadIsOne
  <2>2. Ahead(i, {"Td"}) => Restored = text.tlm
    BY DEF Restored
  <2>3. Ahead(i, Shows) => Restored = text.tm
    BY <2>1 DEF Restored
  <2> QED
    BY <1>8, <1>20, <2>2, <2>3 DEF Settled
<1>22. InPlace(v, Reopened)
  BY <1>8, <1>20 DEF StreamInv, Positions, InPlace
<1>23. Positions'
  <2>1. InPlace(View(v, x), text') /\ Settled(View(v, x), text', i + 1)
    BY <1>1, <1>4, <1>5, <1>8, <1>20, <1>21, <1>22, TextStep
  <2>2. InPlace(page', text') /\ Settled(page', text', i')
    BY <1>1, <1>9, <2>1
  <2>3. \A n, ops : Ahead(n, ops)' <=> Ahead(n, ops)
    BY <1>1 DEF Ahead, Upcoming
  <2> QED
    BY <2>2, <2>3 DEF Positions, InPlace, Settled
<1> QED
  BY <1>15, <1>18, <1>19, <1>23 DEF StreamInv


LEMMA StreamClose ==
  ASSUME StreamInv, Close
  PROVE  StreamInv'
<1> DEFINE x == Instr
           b == View(page, Op("ET"))
<1>1. /\ i \in 1..Len(instrs) /\ Len(instrs) \in Nat /\ x \in Instructions
      /\ instrs' = instrs /\ i' = i + 1 /\ done' = done
      /\ instrs' \in Seq(Instructions) /\ i' \in 1..(Len(instrs') + 1)
      /\ pass' \in Passes /\ source' \in Views
  BY ReadTyping DEF StreamInv, Close
<1>2. /\ text \in Texts /\ page \in Views /\ again \in Passes /\ pass \in Passes
      /\ out \in Seq(Instructions) /\ done \in BOOLEAN
  BY DEF StreamInv, TypeOK
<1>3. /\ Closes(pass, x.op) /\ pass' = After(pass, x.op) /\ text' = text
      /\ out' = Append(Append(out, Op("ET")), x) /\ page' = View(b, x)
      /\ again' = After(After(again, "ET"), x.op)
  BY InstructionTyping DEF Close, Read, PutBoth
<1>4. pass.in_text = TRUE /\ x.op \in {"q", "EMC"}
  BY <1>2, <1>3 DEF Closes, Passes
<1>5. x.op \notin Shows /\ x.op \notin Positioned \cup {"BT", "ET"}
  BY <1>4 DEF Shows, Positioned
<1>6. /\ Alike(again, pass) /\ page.in_text = pass.in_text /\ page.legal /\ again.changes = 0
      /\ ~done
  BY <1>1 DEF StreamInv, Joined
<1>7. /\ b \in Views /\ b.legal /\ b.in_text = FALSE /\ b.drawn = page.drawn
      /\ b.mc = page.mc /\ Counted(b)
  BY <1>2, <1>4, <1>6, ETPutIn
<1> HIDE DEF b
<1>8. /\ View(b, x).legal /\ View(b, x).in_text = FALSE /\ View(b, x).drawn = page.drawn
  BY <1>5, <1>7 DEF View
<1>9. LET d == After(again, "ET")
      IN  /\ d \in Passes
          /\ Alike(After(d, x.op), After(pass, x.op)) /\ After(d, x.op).changes = again.changes
  BY <1>2, <1>3, <1>6, ClosedAgain
<1>10. pass'.in_text = FALSE
  BY <1>3, <1>4 DEF After, Reopens
<1>11. TypeOK'
  <2>1. out' \in Seq(Instructions)
    <3>1. Op("ET") \in Instructions
      BY InstructionTyping
    <3>2. Append(out, Op("ET")) \in Seq(Instructions)
      BY <1>2, <3>1
    <3> HIDE DEF x
    <3> QED
      BY <1>1, <1>3, <3>2
  <2>2. again' \in Passes
    BY <1>3, <1>9, AfterTyping
  <2>3. page' \in Views
    BY <1>1, <1>3, <1>7, ViewTyping
  <2> QED
    BY <1>1, <1>2, <1>3, <2>1, <2>2, <2>3 DEF TypeOK
<1>12. Joined'
  <2>1. Alike(again', pass') /\ again'.changes = 0
    BY <1>3, <1>6, <1>9
  <2>2. Marked(View(b, x), After(pass, x.op)) /\ Counted(View(b, x))
    <3>1. Marked(b, pass)
      BY <1>7, MarkedStays DEF StreamInv, Joined
    <3> QED
      BY <1>1, <1>2, <1>4, <1>7, <3>1, MarkedStep, CountedView
  <2>3. Marked(page, pass)' /\ Counted(page)'
    <3>1. Marked(page', pass') /\ Counted(page')
      BY <1>3, <2>2
    <3> QED
      BY <3>1 DEF Marked, Counted
  <2> QED
    BY <1>1, <1>3, <1>6, <1>8, <1>10, <2>1, <2>3 DEF Joined, Alike
<1>13. UncountedIsUnchanged'
  BY CountedStep DEF StreamInv, Close
<1>14. Positions'
  BY <1>3, <1>8, <1>10 DEF StreamInv, Positions, InPlace
<1> QED
  BY <1>11, <1>12, <1>13, <1>14 DEF StreamInv

LEMMA StreamCopy ==
  ASSUME StreamInv, Copy
  PROVE  StreamInv'
<1> DEFINE x == Instr
<1>1. /\ i \in 1..Len(instrs) /\ Len(instrs) \in Nat /\ x \in Instructions
      /\ instrs' = instrs /\ i' = i + 1 /\ done' = done
      /\ instrs' \in Seq(Instructions) /\ i' \in 1..(Len(instrs') + 1)
      /\ pass' \in Passes /\ source' \in Views
  BY ReadTyping DEF StreamInv, Copy
<1>2. /\ text \in Texts /\ page \in Views /\ again \in Passes /\ pass \in Passes
      /\ out \in Seq(Instructions) /\ done \in BOOLEAN /\ instrs \in Seq(Instructions)
  BY DEF StreamInv, TypeOK
<1>3. /\ ~Drops(pass, x.op) /\ ~Reopens(pass, x.op) /\ ~Closes(pass, x.op)
      /\ pass' = After(pass, x.op) /\ Track(text, x)
      /\ out' = Append(out, x) /\ page' = View(page, x) /\ again' = After(again, x.op)
  BY DEF Copy, Read, Put
<1>4. /\ Alike(again, pass) /\ page.in_text = pass.in_text /\ page.legal /\ again.changes = 0
      /\ ~done
  BY <1>1 DEF StreamInv, Joined
<1>5. pass.in_text \in BOOLEAN /\ pass.changes \in Nat
  BY <1>2 DEF Passes
<1>6. pass'.changes = pass.changes
  BY <1>3 DEF After
<1>7. /\ x.op = "BT" => ~pass.in_text /\ pass'.in_text = TRUE
      /\ x.op = "ET" => pass.in_text /\ pass'.in_text = FALSE
      /\ x.op \notin {"BT", "ET"} => pass'.in_text = pass.in_text
  BY <1>3, <1>5 DEF Drops, After, Reopens, TextTrigger, Positioned
<1>8. TypeOK'
  <2>1. out' \in Seq(Instructions)
    <3> HIDE DEF x
    <3> QED
      BY <1>1, <1>2, <1>3
  <2>2. again' \in Passes /\ page' \in Views /\ text' \in Texts
    BY <1>1, <1>2, <1>3, AfterTyping, ViewTyping, TrackTyping
  <2> QED
    BY <1>1, <1>2, <2>1, <2>2 DEF TypeOK
<1>9. Joined'
  <2>1. Alike(again', pass') /\ again'.changes = 0
    BY <1>2, <1>3, <1>4, CopiedAgain
  <2>2. page'.in_text = pass'.in_text
    BY <1>3, <1>4, <1>7 DEF View
  <2>3. page'.legal
    <3>1. x.op \in Positioned \cup {"ET"} => page.in_text
      BY <1>3, <1>4, <1>5 DEF Reopens, Drops, TextTrigger
    <3>2. x.op \in {"BT", "q"} => ~page.in_text
      BY <1>3, <1>4, <1>5 DEF Drops, Closes
    <3>3. x.op = "EMC" /\ page.in_text => Opened(page) # 0
      <4>1. OpenedInText(pass) <=> Opened(page) # 0
        BY <1>2, MarkedTop DEF StreamInv, Joined
      <4> QED
        BY <1>3, <1>4, <4>1 DEF Closes
    <3> QED
      BY <1>3, <1>4, <3>1, <3>2, <3>3 DEF View
  <2>4. Marked(View(page, x), After(pass, x.op)) /\ Counted(View(page, x))
    BY <1>1, <1>2, <1>4, MarkedStep, CountedView DEF StreamInv, Joined
  <2>5. Marked(page, pass)' /\ Counted(page)'
    <3>1. Marked(page', pass') /\ Counted(page')
      BY <1>3, <2>4
    <3> QED
      BY <3>1 DEF Marked, Counted
  <2> QED
    BY <1>1, <1>4, <2>1, <2>2, <2>3, <2>5 DEF Joined, Alike
<1>10. UncountedIsUnchanged'
  <2> SUFFICES ASSUME pass'.changes = 0 PROVE out' = SubSeq(instrs', 1, i' - 1)
    BY DEF UncountedIsUnchanged
  <2>1. out = SubSeq(instrs, 1, i - 1)
    BY <1>6 DEF StreamInv, UncountedIsUnchanged
  <2>2. Append(SubSeq(instrs, 1, i - 1), instrs[i]) = SubSeq(instrs, 1, i)
    BY <1>1, <1>2
  <2>3. x = instrs[i] /\ i' - 1 = i
    BY <1>1 DEF Instr
  <2> QED
    BY <1>1, <1>3, <2>1, <2>2, <2>3
<1>11. \A n, ops : Ahead(n, ops)' <=> Ahead(n, ops)
  BY <1>1 DEF Ahead, Upcoming
<1>12. Positions'
  <2>1. CASE x.op \in {"BT", "ET"}
    <3>1. x.op \notin Positioned
      BY <2>1 DEF Positioned
    <3>2. page'.drawn = page.drawn /\ text'.places = text.places
      BY <1>1, <1>2, <1>3, <3>1, QuietStep, QuietTrack
    <3>3. x.op = "BT" =>
            page'.tlm = text'.tlm /\ page'.tm = text'.tm /\ text'.line = "same"
      <4>1. x.op = "BT" => text'.tlm = 0 /\ text'.tm = 0
        BY <1>1, <1>2, <1>3, <3>1, QuietTrack
      <4>2. x.op = "BT" => text'.line = "same"
        BY <1>2, <1>3 DEF Track, Texts
      <4> QED
        BY <1>3, <4>1, <4>2 DEF View
    <3> QED
      BY <1>7, <2>1, <3>2, <3>3 DEF StreamInv, Positions, InPlace, Settled
  <2>2. CASE x.op \notin {"BT", "ET"} /\ pass.in_text
    <3>1. InPlace(page, text) /\ Settled(page, text, i)
      BY <2>2 DEF StreamInv, Positions
    <3>2. InPlace(View(page, x), text') /\ Settled(View(page, x), text', i + 1)
      BY <1>1, <1>2, <1>3, <2>2, <3>1, TextStep
    <3>3. InPlace(page', text') /\ Settled(page', text', i')
      BY <1>1, <1>3, <3>2
    <3> QED
      BY <1>11, <3>3 DEF Positions, InPlace, Settled
  <2>3. CASE x.op \notin {"BT", "ET"} /\ ~pass.in_text
    <3>1. x.op \notin Positioned
      BY <1>3, <2>3 DEF Reopens, TextTrigger
    <3>2. page'.drawn = page.drawn /\ text'.places = text.places
      BY <1>1, <1>2, <1>3, <3>1, QuietStep, QuietTrack
    <3> QED
      BY <1>7, <2>3, <3>2 DEF StreamInv, Positions, InPlace
  <2> QED
    BY <2>1, <2>2, <2>3
<1> QED
  BY <1>8, <1>9, <1>10, <1>12 DEF StreamInv

LEMMA StreamFinish ==
  ASSUME StreamInv, Finish
  PROVE  StreamInv'
<1>1. /\ text \in Texts /\ page \in Views /\ again \in Passes /\ pass \in Passes
      /\ out \in Seq(Instructions) /\ instrs \in Seq(Instructions)
  BY DEF StreamInv, TypeOK
<1>2. /\ Alike(again, pass) /\ page.in_text = pass.in_text /\ page.legal /\ again.changes = 0
  BY DEF StreamInv, Joined
<1>3. /\ instrs' = instrs /\ i' = i /\ text' = text /\ source' = source /\ done' = TRUE
      /\ i > Len(instrs)
  BY DEF Finish
<1>4. pass.in_text \in BOOLEAN /\ pass.mc_stack \in Seq(BOOLEAN) /\ pass.changes \in Nat
  BY <1>1 DEF Passes
<1>5. CASE ~pass.in_text
  <2>1. out' = out /\ again' = again /\ page' = page /\ pass' = pass
    BY <1>5 DEF Finish
  <2>2. TypeOK'
    BY <1>3, <2>1 DEF StreamInv, TypeOK
  <2>3. Joined'
    <3>1. Marked(page, pass)' /\ Counted(page)'
      BY <2>1 DEF StreamInv, Joined, Marked, Counted
    <3> QED
      BY <1>2, <1>3, <1>5, <2>1, <3>1 DEF Joined, Alike
  <2>4. UncountedIsUnchanged'
    BY <1>3, <2>1 DEF StreamInv, UncountedIsUnchanged
  <2>5. Positions'
    BY <1>3, <1>5, <2>1 DEF StreamInv, Positions, InPlace
  <2> QED
    BY <2>2, <2>3, <2>4, <2>5 DEF StreamInv
<1>6. CASE pass.in_text
  <2>1. /\ out' = Append(out, Op("ET")) /\ again' = After(again, "ET")
        /\ page' = View(page, Op("ET"))
        /\ pass' = [pass EXCEPT !.in_text = FALSE, !.changes = @ + 1]
    BY <1>6, InstructionTyping DEF Finish, Put
  <2>2. pass' = [in_text |-> FALSE, mc_stack |-> pass.mc_stack, changes |-> pass.changes + 1]
    BY <1>1, <2>1 DEF Passes
  <2>3. pass' \in Passes
    BY <1>4, <2>2 DEF Passes
  <2>4. /\ page' \in Views /\ page'.legal /\ page'.in_text = FALSE /\ page'.drawn = page.drawn
        /\ page'.mc = page.mc /\ Counted(page')
    BY <1>1, <1>2, <1>6, <2>1, ETPutIn
  <2>5. /\ again' \in Passes /\ again'.in_text = FALSE /\ again'.mc_stack = again.mc_stack
        /\ again'.changes = 0
    <3>1. ~Drops(again, "ET") /\ ~Reopens(again, "ET") /\ ~Closes(again, "ET")
      BY <1>2, <1>6 DEF Alike, Drops, Reopens, Closes, TextTrigger, Positioned
    <3>2. again'.in_text = FALSE /\ again'.mc_stack = again.mc_stack /\ again'.changes = 0
      BY <1>2, <2>1, <3>1 DEF After
    <3> QED
      BY <1>1, <2>1, <3>2, AfterTyping
  <2>6. TypeOK'
    <3>1. out' \in Seq(Instructions)
      <4>1. Op("ET") \in Instructions
        BY InstructionTyping
      <4> QED
        BY <1>1, <2>1, <4>1
    <3> QED
      BY <1>3, <2>3, <2>4, <2>5, <3>1 DEF StreamInv, TypeOK
  <2>7. Joined'
    <3>1. Marked(page, pass)' /\ Counted(page)'
      BY <2>2, <2>4 DEF StreamInv, Joined, Marked, Counted
    <3> QED
      BY <1>2, <1>3, <2>2, <2>4, <2>5, <3>1 DEF Joined, Alike
  <2>8. UncountedIsUnchanged'
    BY <1>4, <2>2 DEF UncountedIsUnchanged
  <2>9. Positions'
    BY <1>3, <2>2, <2>4 DEF StreamInv, Positions, InPlace
  <2> QED
    BY <2>6, <2>7, <2>8, <2>9 DEF StreamInv
<1> QED
  BY <1>5, <1>6

LEMMA StreamStep == StreamInv /\ [Next]_vars => StreamInv'
<1> SUFFICES ASSUME StreamInv, [Next]_vars PROVE StreamInv'
  OBVIOUS
<1>1. CASE Drop
  BY <1>1, StreamDrop
<1>2. CASE Reopen
  BY <1>2, StreamReopen
<1>3. CASE Close
  BY <1>3, StreamClose
<1>4. CASE Copy
  BY <1>4, StreamCopy
<1>5. CASE Finish
  BY <1>5, StreamFinish
<1>6. CASE UNCHANGED vars
  BY <1>6 DEF vars, StreamInv, TypeOK, Joined, Alike, Counted, Marked, UncountedIsUnchanged, Positions,
              InPlace, Settled, Ahead, Upcoming
<1> QED
  BY <1>1, <1>2, <1>3, <1>4, <1>5, <1>6 DEF Next

-----------------------------------------------------------------------------
(* The theorems.                                                           *)

\* The strengthening holds of every stream, of any length.
THEOREM StreamInvariance == Spec => []StreamInv
  BY StreamInitially, StreamStep, PTL DEF Spec

\* The repair's state is typed: the stack holds booleans, the output is made of
\* instructions.
THEOREM StreamTyping == Spec => []TypeOK
<1>1. StreamInv => TypeOK
  BY DEF StreamInv
<1> QED
  BY <1>1, StreamInvariance, PTL

\* Whatever stream is read, what is written is legal for a strict viewer, and no
\* sequence opened outside of a text object ends in one
\* (content_stream_repair.py:10-15, 248).
THEOREM StreamOutputIsLegal == Spec => []OutputIsLegal
<1>1. StreamInv => OutputIsLegal
  BY DEF StreamInv, Joined, OutputIsLegal
<1> QED
  BY <1>1, StreamInvariance, PTL

\* A second repair changes nothing (content_stream_repair.py:21).
THEOREM StreamSecondRun == Spec => []SecondRunChangesNothing
<1>1. StreamInv => SecondRunChangesNothing
  BY DEF StreamInv, Joined, Alike, SecondRunChangesNothing
<1> QED
  BY <1>1, StreamInvariance, PTL

\* A stream for which no change was counted is written as it was read
\* (content_stream_repair.py:316).
THEOREM StreamUncounted == Spec => []UncountedIsUnchanged
<1>1. StreamInv => UncountedIsUnchanged
  BY DEF StreamInv
<1> QED
  BY <1>1, StreamInvariance, PTL

\* The look ahead restores the right one of the two matrices: all text is drawn where
\* the run had got to, unless it stands on a later line of a text object that was
\* opened in the middle of one (content_stream_repair.py:192-198).
THEOREM StreamContinuation == Spec => []ContinuationStaysInPlace
<1>1. StreamInv => ContinuationStaysInPlace
  BY DEF StreamInv, Positions, InPlace, ContinuationStaysInPlace
<1> QED
  BY <1>1, StreamInvariance, PTL
=============================================================================
