------------------------------- MODULE TableRows --------------------------------
(***************************************************************************)
(* The rows of one tagged table: the grid its cells are laid out in, and   *)
(* how fix_table_regularity widens the rows that are too narrow.  A row is *)
(* the sequence of its cells, a table the sequence of its rows.            *)
(***************************************************************************)
EXTENDS Integers, Sequences, FiniteSetsExt

CONSTANTS
  MaxSpan   \* MAX_TABLE_SPAN

ASSUME SpanAssumption == MaxSpan \in Nat \ {0}

-----------------------------------------------------------------------------
(* The grid.                                                               *)

Span(v) == IF v \in 1..MaxSpan THEN v ELSE 1

\* The first column from c on that is not taken.
Free(c, taken) ==
  CHOOSE d \in c..(c + Cardinality(taken)) : d \notin taken /\ \A e \in c..(d - 1) : e \in taken

\* Cells placed one after the other, past the columns taken: the column after each,
\* and where each begins.
Ends(cells, taken) ==
  LET next[i \in 0..Len(cells)] ==
        IF i = 0 THEN 0 ELSE Free(next[i - 1], taken) + Span(cells[i].c)
  IN next

Begins(cells, taken) ==
  LET next == Ends(cells, taken) IN [i \in DOMAIN cells |-> Free(next[i - 1], taken)]

\* The row spans open below a row.  The spans it opens are put where the row would
\* stand if the ones ending here were gone already.
BelowRow(cells, open) ==
  LET aged == [c \in {c \in DOMAIN open : open[c] > 1} |-> open[c] - 1]
      at == Begins(cells, DOMAIN aged)
      under(i) == IF Span(cells[i].r) > 1 THEN at[i]..(at[i] + Span(cells[i].c) - 1) ELSE {}
      left(c) == {aged[d] : d \in {c} \cap DOMAIN aged}
                 \cup {Span(cells[i].r) - 1 : i \in {i \in DOMAIN cells : c \in under(i)}}
  IN [c \in DOMAIN aged \cup UNION {under(i) : i \in DOMAIN cells} |-> Max(left(c))]

\* The row spans open above each row, and below the last.
OpenSpans(rows) ==
  LET open[i \in 0..Len(rows)] == IF i = 0 THEN <<>> ELSE BelowRow(rows[i], open[i - 1])
  IN open

RowWidth(cells, open) ==
  Max({Ends(cells, DOMAIN open)[Len(cells)]} \cup {c + 1 : c \in DOMAIN open})

\* For every row its width and whether a row span reaches into it.
Layout(rows) ==
  LET open == OpenSpans(rows)
  IN [width |-> [i \in DOMAIN rows |-> RowWidth(rows[i], open[i - 1])],
      free  |-> [i \in DOMAIN rows |-> DOMAIN open[i - 1] = {}]]

-----------------------------------------------------------------------------
(* Rows narrower than the widest are widened.                              *)

\* Defect: the target is the widest row, whatever widened it.
Target_Unbounded(rows) == Max({Layout(rows).width[i] : i \in DOMAIN rows})

\* The widest row, bounded by the number of cells a row has.
Target(rows) ==
  LET cells == Max({Len(rows[i]) : i \in DOMAIN rows})
      widest == Max({Layout(rows).width[i] : i \in DOMAIN rows})
  IN IF cells < widest THEN cells ELSE widest

WithSpan(cell, v) == [cell EXCEPT !.c = IF v > MaxSpan THEN MaxSpan ELSE v]

\* Defect: the last cell grows by the target instead of what is missing.
Widened_ByTarget(cells, width, free, target) ==
  IF cells = <<>> \/ width >= target THEN cells
  ELSE [cells EXCEPT ![Len(cells)] = WithSpan(@, Span(@.c) + target)]

\* Single columns that go evenly into the target share it; else the last cell grows.
Widened(cells, width, free, target) ==
  LET n == Len(cells)
      even == n > 1 /\ free /\ target % n = 0 /\ \A i \in 1..n : Span(cells[i].c) = 1
  IN IF n = 0 \/ width >= target THEN cells
     ELSE IF even THEN [i \in 1..n |-> WithSpan(cells[i], target \div n)]
     ELSE [cells EXCEPT ![n] = WithSpan(@, Span(@.c) + target - width)]

WidenedRows(rows) ==
  LET l == Layout(rows)
  IN IF Cardinality({l.width[i] : i \in DOMAIN rows} \ {0}) <= 1 THEN rows
     ELSE [i \in DOMAIN rows |-> Widened(rows[i], l.width[i], l.free[i], Target(rows))]

-----------------------------------------------------------------------------
(* What is measured of a row: the sum of its spans.                        *)

Sums(cells) ==
  LET sum[i \in 0..Len(cells)] == IF i = 0 THEN 0 ELSE sum[i - 1] + Span(cells[i].c)
  IN sum

RowTotal(cells) == Sums(cells)[Len(cells)]
=============================================================================
