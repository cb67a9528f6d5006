------------------------------ MODULE TagRepair -------------------------------
(***************************************************************************)
(* Documents as authoring tools tag them, rightly or not, and what the     *)
(* structural passes make of them: fix_all once, the list pass again when  *)
(* the checker still finds an item outside a list, and fix_all on its own  *)
(* output for as often as somebody fixes the file again.                   *)
(*                                                                         *)
(* The documents are short enough that no pass is deferred, and their      *)
(* pages in an order that no pass for reading order rewrites.              *)
(***************************************************************************)
EXTENDS TagTree

CONSTANTS
  MaxNodes,    \* elements and contents of a document
  MaxCells,    \* cells and rows of a grid
  MaxRounds    \* runs of fix_all

VARIABLES
  family,   \* the tags the document is made of
  input,    \* the root of the tree the author made
  tree,     \* the tree as it is now
  round     \* how often fix_all has run

vars == <<family, input, tree, round>>

Tags ==
  [tables |-> {"Sect", "Table", "TBody", "TR", "TD", "TH"},
   lists |-> {"Sect", "L", "LI", "Lbl", "LBody"},
   contents |-> {"Sect", "TOC", "TOCI", "Caption"},
   grids |-> {"Table", "TR", "TH", "TD"}]

Init ==
  /\ family \in DOMAIN Tags
  /\ input = Elem("Root", IF family = "grids" THEN <<Elem("Table", <<>>)>> ELSE <<>>)
  /\ tree = input /\ round = 0

Size(n) ==
  LET size[x \in Scope] == FoldLeft(LAMBDA a, y : a + 1 + IF IsElem(y) THEN size[y] ELSE 0, 0, x.k)
  IN size[n]

\* The element with one more kid.
Taller(n, x) == [n EXCEPT !.k = Append(n.k, x), !.bare = FALSE]

\* The trees with one more kid of the root or of an element that ends the tree.
Grown(n, x) ==
  LET grown[y \in Scope] ==
        {Taller(y, x)}
        \cup IF y.k # <<>> /\ IsElem(Last(y.k))
             THEN {[y EXCEPT !.k = Append(Front(y.k), z)] : z \in grown[Last(y.k)]}
             ELSE {}
  IN grown[n]

Authored(t) ==
  /\ input' = t /\ tree' = t
  /\ UNCHANGED <<family, round>>

NewContent == Content(Len(Reading(tree)) + 1)

AddElement ==
  /\ round = 0 /\ family # "grids" /\ Size(tree) < MaxNodes
  /\ \E s \in Tags[family] : \E t \in Grown(tree, Elem(s, <<>>)) : Authored(t)

AddContent ==
  /\ round = 0 /\ family # "grids" /\ Size(tree) < MaxNodes
  /\ \E t \in Grown(tree, NewContent) : Authored(t)

\* /K of an element with one kid may be that kid.
Unwrap ==
  /\ round = 0 /\ family = "tables"
  /\ \E i \in DOMAIN tree.k :
       /\ Type(tree.k[i]) = "Table" /\ Len(tree.k[i].k) = 1
       /\ Authored([tree EXCEPT !.k[i].bare = TRUE])

\* A table of rows with cells that span columns and rows, one span out of range.
Roomy == round = 0 /\ family = "grids" /\ Len(tree.k[1].k) + Len(Reading(tree)) < MaxCells

AddRow == Roomy /\ Authored([tree EXCEPT !.k = <<Taller(Head(tree.k), Elem("TR", <<>>))>>])

AddCell ==
  LET table == Head(tree.k)
      at(cell) == [table EXCEPT !.k = Append(Front(table.k), Taller(Last(table.k), cell))]
  IN /\ Roomy /\ table.k # <<>>
     /\ \/ \E spans \in {1, 2} \X {1, 2} \cup {<<MaxSpan + 1, 1>>} :
             LET cell == [Elem("TH", <<NewContent>>) EXCEPT !.c = spans[1], !.r = spans[2]]
             IN Authored([tree EXCEPT !.k = <<at(cell)>>])
        \/ Authored([tree EXCEPT !.k = <<at(Elem("TD", <<NewContent>>))>>])

Fix ==
  /\ round < MaxRounds
  /\ tree' = FixAll(tree)
  /\ round' = round + 1
  /\ UNCHANGED <<family, input>>

\* fix_and_verify, after its cycles.
RepairLists ==
  /\ round > 0 /\ Broken(tree, {"LI"})
  /\ tree' = Passes(tree, ListPasses)
  /\ UNCHANGED <<family, input, round>>

Next == AddElement \/ AddContent \/ Unwrap \/ AddRow \/ AddCell \/ Fix \/ RepairLists

Spec == Init /\ [][Next]_vars

-----------------------------------------------------------------------------

InTables == {"TR"} \cup Cells
InLists  == {"LI", "Lbl", "LBody"}

\* Somewhere under n: a cell outside any row and table, an item with two labels
\* or two bodies, an item with a late label or body.
Somewhere(n, flaw) ==
  \E p \in Below(n) : \E x \in ElemKids(p) :
    LET twice(s) == Cardinality({j \in DOMAIN x.k : Type(x.k[j]) = s}) > 1
    IN \/ flaw = "stray" /\ IsCell(x) /\ p.s \notin {"TR", "Table"}
       \/ flaw = "repeated" /\ x.s = "LI" /\ (twice("Lbl") \/ twice("LBody"))
       \/ flaw = "late" /\ x.s = "LI" /\ LatePart(x)

\* How many misplaced elements of these types stand one in the other.
Tangle(n, types) ==
  LET tangle[x \in Scope] ==
        Max({0} \cup {(IF Misplaced(y, x, types) THEN 1 ELSE 0) + tangle[y] : y \in ElemKids(x)})
  IN tangle[n]

\* How many rounds a document takes: wrapping looks at the outermost misplaced
\* element only; a cell wrapped outside of tables is a row that needs one, and a
\* second label is moved to where the next round finds it misplaced.
Needed(t) ==
  Max({1, Tangle(t, InTables), Tangle(t, InLists)})
    + IF Somewhere(t, "stray") \/ Somewhere(t, "repeated") THEN 1 ELSE 0

\* No pass loses, repeats or moves content: screen readers read what they read
\* before, in the order of the input.  Only an item whose label or body comes
\* late is put in order (pdf_fixer.py:4769).
ContentKept ==
  /\ Len(Reading(tree)) = Len(Reading(input))
  /\ ToSet(Reading(tree)) = ToSet(Reading(input))
  /\ ~Somewhere(input, "late") => Reading(tree) = Reading(input)

\* The passes undo each other's work - rows come from the wrapping of cells, items
\* from the wrapping of labels, bodies take in second labels - but fixing the file
\* again converges: after so many rounds no row, cell, item, label or body is under
\* a parent the checker refuses (pdf_fixer.py:17029-17040).
RepairConverges == round >= Needed(input) => ~Broken(tree, InTables \cup InLists)

\* And one more round later the fixer has nothing left to do, spans included
\* (pdf_fixer.py:14712, the spans that grew on every pass).
Settles == [][round > Needed(input) => UNCHANGED tree]_vars

\* Total spans of the rows of the documents that are one table.
Totals(t) ==
  LET rows == Rows(t.k[1])
  IN {RowTotal(rows[i]) : i \in DOMAIN rows}

\* Widening never makes a row wider than one was, or than one has cells
\* (pdf_fixer.py:14915).
WidthsBounded ==
  family = "grids" /\ tree.k # <<>> =>
    LET rows == Rows(input.k[1])
        bound == Max(Totals(input) \cup {Len(rows[i]) : i \in DOMAIN rows})
    IN \A w \in Totals(tree) : w <= bound

\* The content of a table's cells of this type.
Under(t, s) ==
  LET cells == FlattenSeq(Rows(t))
  IN UNION {ToSet(Reading(cells[i])) : i \in {i \in DOMAIN cells : cells[i].s = s}}

\* pdf_fixer.py:4200 and 4207: first-row data cells become headers "if table has no
\* headers".  Where a table has some, its data would stay data.
HeadersAreKept ==
  family = "grids" /\ tree.k # <<>> /\ Under(input.k[1], "TH") # {} =>
    Under(input.k[1], "TD") \subseteq Under(tree.k[1], "TD")
=============================================================================
