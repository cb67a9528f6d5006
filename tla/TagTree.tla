------------------------------- MODULE TagTree --------------------------------
(***************************************************************************)
(* The structure tree of a tagged PDF, the parent rules of the checker and *)
(* the passes of the fixer that rebuild tables, lists and tables of        *)
(* contents, as functions of the elements of trees.                        *)
(***************************************************************************)
EXTENDS TagNodes, TableRows

\* The elements of the tree.
Below(n) ==
  LET below[x \in Scope] == {x} \cup UNION {below[y] : y \in ElemKids(x)}
  IN below[n]

\* Some element of these types in the tree has the wrong parent.
Broken(n, types) == \E x \in Below(n) : \E i \in DOMAIN x.k : Misplaced(x.k[i], x, types)

\* The content of the tree in reading order.
Reading(n) ==
  LET reading[x \in Scope] == ReadKids(x, LAMBDA y : reading[y])
  IN reading[n]

-----------------------------------------------------------------------------
(* Wrapping.                                                               *)

Wrapped(n, child, wrapper) ==
  LET wrapped[x \in Scope] == WrapNode(x, child, wrapper, LAMBDA y : wrapped[y])
  IN wrapped[n]

WrappedEntries(n) ==
  LET wrapped[x \in Scope] == EntriesNode(x, LAMBDA y : wrapped[y])
  IN wrapped[n]

-----------------------------------------------------------------------------
(* Headers: without one the first row of a table becomes its header.  The  *)
(* search for a header looks at the kids of the table and of its sections  *)
(* and never into a row.                                                   *)

SeesHeader(n) ==
  LET sees[x \in Scope] ==
        \E y \in ElemKids(x) : y.s = "TH" \/ (y.s \in Sections /\ sees[y])
  IN sees[n]

FirstRowAsHeader(n) ==
  LET row[x \in Scope] == x.s = "TR" \/ (x.s \in Sections /\ \E y \in ElemKids(x) : row[y])
      headed[x \in Scope] ==
        LET i == SelectInSeq(x.k, LAMBDA y : Type(y) \in {"TR"} \cup Sections /\ row[y])
        IN IF x.s = "TR"
           THEN [x EXCEPT !.k = [j \in DOMAIN x.k |->
                   IF Type(x.k[j]) = "TD" THEN [x.k[j] EXCEPT !.s = "TH"] ELSE x.k[j]]]
           ELSE IF i = 0 THEN x ELSE [x EXCEPT !.k[i] = headed[x.k[i]]]
  IN headed[n]

Headed(n) == IF SeesHeader(n) THEN n ELSE FirstRowAsHeader(n)

-----------------------------------------------------------------------------
(* Regularity: the rows of a table, laid out and widened by TableRows.     *)

Grids == {"Table", "TR"} \cup Sections

CellsAmong(k) == FlattenSeq([i \in DOMAIN k |-> IF IsCell(k[i]) THEN <<k[i]>> ELSE <<>>])

\* The rows of the elements of a tree.
RowsOf(n) ==
  LET rows[x \in Scope] ==
        IF x.s = "TR" THEN <<CellsAmong(x.k)>>
        ELSE FlattenSeq([i \in DOMAIN x.k |->
               IF Type(x.k[i]) \in Grids THEN rows[x.k[i]] ELSE <<>>])
  IN rows

Rows(n) == RowsOf(n)[n]

\* The tree with the columns the cells of these rows span, from its first row on.
WithSpans(n, rows) ==
  LET of == RowsOf(n)
      spanned[p \in Scope \X Nat] ==
        LET x == p[1]
            below[i \in 0..Len(x.k)] ==
              IF i = 0 THEN p[2]
              ELSE below[i - 1] + IF Type(x.k[i]) \in Grids THEN Len(of[x.k[i]]) ELSE 0
            cell(i) == rows[p[2] + 1][Len(CellsAmong(SubSeq(x.k, 1, i)))]
            new(i) ==
              IF x.s = "TR" THEN IF IsCell(x.k[i]) THEN [x.k[i] EXCEPT !.c = Span(cell(i).c)]
                                 ELSE x.k[i]
              ELSE IF Type(x.k[i]) \in Grids THEN spanned[<<x.k[i], below[i - 1]>>] ELSE x.k[i]
        IN [x EXCEPT !.k = [i \in DOMAIN x.k |-> new(i)]]
  IN spanned[<<n, 0>>]

-----------------------------------------------------------------------------
(* The passes.  A walk rewrites a node and goes on with the kids it then   *)
(* has.                                                                    *)

Sane(n) == [n EXCEPT !.c = Span(n.c), !.r = Span(n.r)]

Rewritten(n, step) ==
  CASE step = "headers" /\ n.s = "Table" -> Headed(n)
    [] step = "regularity" -> IF n.s = "Table" THEN WithSpans(Sane(n), WidenedRows(Rows(n)))
                              ELSE Sane(n)
    [] OTHER -> Rekidded(n, step)

Walk(n, step) ==
  LET walk[x \in Scope] == Onward(Rewritten(x, step), LAMBDA y : walk[y])
  IN walk[n]

\* Labels and bodies get items of their own.
Parted(t) == Wrapped(Wrapped(t, "Lbl", "LI"), "LBody", "LI")

\* Defect: the items made for labels and bodies stay outside of lists.
ListedParts_NoSecondWrap(t) == Parted(t)

\* The items made for labels and bodies are put into lists as well.
ListedParts(t) == LET p == Parted(t) IN IF p = t THEN t ELSE Wrapped(p, "LI", "L")

Wrappers == [TR |-> "TBody", TH |-> "TR", TD |-> "TR", LI |-> "L"]

Pass(t, p) ==
  CASE p \in DOMAIN Wrappers -> Wrapped(t, p, Wrappers[p])
    [] p = "parts" -> ListedParts(t)
    [] p = "entries" -> WrappedEntries(t)
    [] OTHER -> Walk(t, p)

Passes(t, names) ==
  LET after[i \in 0..Len(names)] == IF i = 0 THEN t ELSE Pass(after[i - 1], names[i])
  IN after[Len(names)]

TablePasses   == <<"TR", "TH", "TD", "kids", "heads", "headers", "regularity">>
ListPasses    == <<"LI", "parts", "items", "lists">>
ContentPasses == <<"entries", "contents">>

WithoutEmpty(n) ==
  LET pruned[x \in Scope] == PruneNode(x, LAMBDA y : pruned[y])
  IN pruned[n]

\* Elements without content go, then those they leave empty, until none is left or
\* after so many passes.
Pruned(t, passes) ==
  LET after[i \in 0..passes] == IF i = 0 THEN t ELSE WithoutEmpty(after[i - 1])
      clean(i) == \A x \in Below(after[i]) : \A y \in ElemKids(x) : ~Empty(y)
  IN after[CHOOSE i \in 0..passes : /\ i = passes \/ clean(i)
                                    /\ \A j \in 0..(i - 1) : ~clean(j)]

\* Tags of tables are counted to see whether one of them went.
TableTags(n) ==
  LET tags[x \in Scope] ==
        (IF x.s \in Cells \cup Sections \cup {"TR"} THEN 1 ELSE 0)
          + FoldLeft(LAMBDA a, y : a + IF IsElem(y) THEN tags[y] ELSE 0, 0, x.k)
  IN tags[n]

Cleanup(t) ==
  LET p == Pruned(t, 10)
  IN IF TableTags(p) = TableTags(t) THEN p ELSE Passes(p, <<"regularity", "headers">>)

\* The passes of fix_all that move structure, in its order.
FixAll(t) == Cleanup(Passes(Passes(Passes(t, TablePasses), ListPasses), ContentPasses))
=============================================================================
