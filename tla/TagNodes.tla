------------------------------- MODULE TagNodes --------------------------------
(***************************************************************************)
(* The elements of the structure tree of a tagged PDF, and what the passes *)
(* of the fixer do at one of them: which kids it gets instead of the ones  *)
(* it had.                                                                 *)
(*                                                                         *)
(* An element has a type, its kids in order, the spans of a cell, and      *)
(* whether /K is its only kid instead of an array.  Every other kid is a   *)
(* reference to marked content of the page, which is live.  Where a pass   *)
(* goes on with the kids, Again says what it makes of one.                 *)
(***************************************************************************)
EXTENDS Integers, SequencesExt

CONSTANTS
  Heights   \* how high the trees may be

ASSUME HeightsAssumption == Heights \subseteq Nat

\* The types the passes tell apart, and two they do not.
Kinds == {"Root", "Sect", "Table", "THead", "TBody", "TFoot", "TR", "TH", "TD", "Caption",
          "L", "LI", "Lbl", "LBody", "TOC", "TOCI"}

\* References to content, and the elements with kids among K.
Leaves == [mcid : Nat]
Elements(K) == [s : Kinds, k : Seq(K), c : Int, r : Int, bare : BOOLEAN]

\* The kids of elements no higher than that; the passes are functions of Scope.
Levels[h \in Nat] == Leaves \cup IF h = 0 THEN {} ELSE Elements(Levels[h - 1])

Scope == UNION {Elements(Levels[h]) : h \in Heights}

Content(n)   == [mcid |-> n]
Elem(s, k)   == [s |-> s, k |-> k, c |-> 1, r |-> 1, bare |-> FALSE]
IsElem(x)    == "s" \in DOMAIN x
Type(x)      == IF IsElem(x) THEN x.s ELSE ""
SetKids(n, k) == [n EXCEPT !.k = k, !.bare = Len(k) = 1]
Only(s, x)   == SetKids(Elem(s, <<>>), <<x>>)

Sections == {"THead", "TBody", "TFoot"}
Cells    == {"TH", "TD"}
IsCell(x) == Type(x) \in Cells

\* Which parents the checker demands of an element.
Parents(s) ==
  CASE s = "TR"              -> {"Table"} \cup Sections
    [] s \in Cells           -> {"TR"}
    [] s = "LI"              -> {"L"}
    [] s \in {"Lbl", "LBody"} -> {"LI"}

Misplaced(x, parent, types) == Type(x) \in types /\ parent.s \notin Parents(x.s)

ElemKids(n) == {x \in ToSet(n.k) : IsElem(x)}

\* The content of an element in reading order; Again reads a kid that is one.
ReadKids(n, Again(_)) ==
  FlattenSeq([i \in DOMAIN n.k |-> IF IsElem(n.k[i]) THEN Again(n.k[i]) ELSE <<n.k[i].mcid>>])

\* The element with every kid that is one done again.
Onward(n, Again(_)) ==
  [n EXCEPT !.k = [i \in DOMAIN n.k |-> IF IsElem(n.k[i]) THEN Again(n.k[i]) ELSE n.k[i]]]

-----------------------------------------------------------------------------
(* Wrapping: a child under a wrong parent gets a wrapper of its own, and   *)
(* what is wrapped is not looked into.                                     *)

WrapNode(n, child, wrapper, Again(_)) ==
  LET wrong(x) == Misplaced(x, n, {child})
      k == [i \in DOMAIN n.k |->
              IF wrong(n.k[i]) THEN Elem(wrapper, <<n.k[i]>>)
              ELSE IF IsElem(n.k[i]) THEN Again(n.k[i])
              ELSE n.k[i]]
  IN IF \E i \in DOMAIN n.k : wrong(n.k[i]) THEN SetKids(n, k) ELSE [n EXCEPT !.k = k]

-----------------------------------------------------------------------------
(* Tables: the three kinds of nodes fix_table_parent_structure rewrites.   *)

\* What is neither a row, a section nor a caption becomes a row of a body.
WithRow(kids, x) ==
  IF Type(x) \in {"TR", "Caption"} \cup Sections THEN Append(kids, x)
  ELSE LET row == Only("TR", IF IsCell(x) THEN x ELSE Only("TD", x))
           tail == Last(kids)
       IN IF kids # <<>> /\ Type(tail) = "TBody"
          THEN Append(Front(kids), SetKids(tail, Append(tail.k, row)))
          ELSE Append(kids, Only("TBody", row))

\* The kids so far, one kid after the other.
InRows(k) ==
  LET kids[i \in 0..Len(k)] == IF i = 0 THEN <<>> ELSE WithRow(kids[i - 1], k[i])
  IN kids[Len(k)]

TableKids(n) ==
  IF \A i \in DOMAIN n.k : Type(n.k[i]) \in {"TR", "Caption"} \cup Sections THEN n
  ELSE SetKids(n, InRows(n.k))

RowKids(n) ==
  IF \A i \in DOMAIN n.k : IsCell(n.k[i]) THEN n
  ELSE SetKids(n, [i \in DOMAIN n.k |-> IF IsCell(n.k[i]) THEN n.k[i] ELSE Only("TD", n.k[i])])

\* Sections that follow each other outside a table become one table.
GroupedSections(n) ==
  LET section(i) == i \in DOMAIN n.k /\ Type(n.k[i]) \in Sections
      end(i) == CHOOSE j \in i..Len(n.k) : ~section(j + 1) /\ \A l \in i..j : section(l)
      at(i) == IF ~section(i) THEN <<n.k[i]>>
               ELSE IF section(i - 1) THEN <<>>
               ELSE <<SetKids(Elem("Table", <<>>), SubSeq(n.k, i, end(i)))>>
  IN IF \E i \in DOMAIN n.k : section(i)
     THEN SetKids(n, FlattenSeq([i \in DOMAIN n.k |-> at(i)]))
     ELSE n

\* A table's first body that starts with a row of headers gives it to a head; a
\* table whose /K is no array is passed over.
HeaderFirst(x) ==
  /\ Type(x) = "TBody" /\ x.k # <<>>
  /\ Type(Head(x.k)) = "TR" /\ Head(x.k).k # <<>>
  /\ \A i \in DOMAIN Head(x.k).k : Type(Head(x.k).k[i]) = "TH"

PromotedHead(n) ==
  LET i == SelectInSeq(n.k, HeaderFirst)
      head == Elem("THead", <<Head(n.k[i].k)>>)
      rest == Tail(n.k[i].k)
      body == IF rest = <<>> THEN <<>> ELSE <<SetKids(n.k[i], rest)>>
  IN IF n.bare \/ i = 0 THEN n
     ELSE SetKids(n, SubSeq(n.k, 1, i - 1) \o <<head>> \o body \o SubSeq(n.k, i + 1, Len(n.k)))

-----------------------------------------------------------------------------
(* Lists.                                                                  *)

\* Defect: the other kids are put before those the body has.
ItemKids_ExtrasFirst(n) ==
  LET lbl  == SelectInSeq(n.k, LAMBDA x : Type(x) = "Lbl")
      body == SelectInSeq(n.k, LAMBDA x : Type(x) = "LBody")
      at(i) == IF i = 0 THEN <<>> ELSE <<n.k[i]>>
      extras == FlattenSeq([i \in DOMAIN n.k |-> IF i \in {lbl, body} THEN <<>> ELSE at(i)])
      old == IF body = 0 THEN Elem("LBody", <<>>) ELSE n.k[body]
  IN IF extras = <<>> THEN n
     ELSE SetKids(n, at(lbl) \o <<SetKids(old, extras \o old.k)>>)

\* An item keeps its first label and its first body; the body takes the rest.
ItemKids(n) ==
  LET lbl  == SelectInSeq(n.k, LAMBDA x : Type(x) = "Lbl")
      body == SelectInSeq(n.k, LAMBDA x : Type(x) = "LBody")
      at(i) == IF i = 0 THEN <<>> ELSE <<n.k[i]>>
      extras == FlattenSeq([i \in DOMAIN n.k |-> IF i \in {lbl, body} THEN <<>> ELSE at(i)])
      old == IF body = 0 THEN Elem("LBody", <<>>) ELSE n.k[body]
  IN IF extras = <<>> THEN n
     ELSE SetKids(n, at(lbl) \o <<SetKids(old, old.k \o extras)>>)

\* An item's label comes after something else, or its body after more than that.
LatePart(li) ==
  LET lbl == SelectInSeq(li.k, LAMBDA x : Type(x) = "Lbl")
      body == SelectInSeq(li.k, LAMBDA x : Type(x) = "LBody")
  IN lbl > 1 \/ body > 1 + (IF lbl = 0 THEN 0 ELSE 1)

\* A list without any item makes one of each kid.
ListKids(n) ==
  IF n.k = <<>> \/ \E i \in DOMAIN n.k : Type(n.k[i]) = "LI" THEN n
  ELSE SetKids(n, [i \in DOMAIN n.k |-> Only("LI", Only("LBody", n.k[i]))])

-----------------------------------------------------------------------------
(* Tables of contents.                                                     *)

\* Entries at every depth, by the parents they had before the pass.
EntriesNode(n, Again(_)) ==
  LET stray(x) == Type(x) = "TOCI" /\ n.s # "TOC"
      k == [i \in DOMAIN n.k |->
              LET x == IF IsElem(n.k[i]) THEN Again(n.k[i]) ELSE n.k[i]
              IN IF stray(x) THEN Only("TOC", x) ELSE x]
  IN IF \E i \in DOMAIN n.k : stray(n.k[i]) THEN SetKids(n, k) ELSE [n EXCEPT !.k = k]

Contents == {"TOC", "TOCI", "Caption"}

ContentsKids(n) ==
  IF \A i \in DOMAIN n.k : Type(n.k[i]) \in Contents THEN n
  ELSE SetKids(n, [i \in DOMAIN n.k |->
                     IF Type(n.k[i]) \in Contents THEN n.k[i] ELSE Only("TOCI", n.k[i])])

-----------------------------------------------------------------------------
(* The nodes a walk rewrites in one step, and the elements without content *)
(* that the clean-up removes.                                              *)

Rekidded(n, step) ==
  CASE step = "kids" /\ n.s = "Table" -> TableKids(n)
    [] step = "kids" /\ n.s = "TR"    -> RowKids(n)
    [] step = "kids" /\ n.s \notin {"Table", "TR"} -> GroupedSections(n)
    [] step = "heads" /\ n.s = "Table"  -> PromotedHead(n)
    [] step = "items" /\ n.s = "LI"     -> ItemKids(n)
    [] step = "lists" /\ n.s = "L"      -> ListKids(n)
    [] step = "contents" /\ n.s = "TOC" -> ContentsKids(n)
    [] OTHER -> n

Empty(x) == IsElem(x) /\ x.k = <<>>

PruneNode(n, Again(_)) ==
  LET kept == FlattenSeq([i \in DOMAIN n.k |-> IF Empty(n.k[i]) THEN <<>> ELSE <<n.k[i]>>])
      m == [n EXCEPT !.k = kept]
  IN IF kept = n.k THEN Onward(n, Again) ELSE SetKids(n, Onward(m, Again).k)
=============================================================================
