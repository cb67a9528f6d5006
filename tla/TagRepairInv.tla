------------------------------ MODULE TagRepairInv ------------------------------
(***************************************************************************)
(* What the proofs about TagRepair speak of: rows that are widened, trees  *)
(* and the recursion over them, what a pass keeps, tables of rows of       *)
(* cells, and the inductive invariant of the specification.                *)
(***************************************************************************)
EXTENDS TagRepair

\* F makes each value of the one before, and f begins with a and does so up to n.
StepsIn(C, n, F) == F \in [(1..n) \X C -> C]

RunsFrom(C, n, F, a, f) ==
  f \in [0..n -> C] /\ f[0] = a /\ \A i \in 1..n : f[i] = F[<<i, f[i - 1]>>]

\* Columns below a bound.
Bounded(S) == S \subseteq Nat /\ \E b \in Nat : \A s \in S : s <= b

\* Rows are sequences.
Grid(rows) ==
  /\ Len(rows) \in Nat /\ DOMAIN rows = 1..Len(rows)
  /\ \A i \in 1..Len(rows) : Len(rows[i]) \in Nat /\ DOMAIN rows[i] = 1..Len(rows[i])

\* The cells of a table, whatever its kids are.
TableCell(kids) == [s : {"TH", "TD"}, k : kids, c : Int, r : Int, bare : BOOLEAN]

\* What may become of a row: its cells keep everything but their columns.
OnlySpans(old, new) ==
  Len(new) = Len(old) /\ \A i \in 1..Len(old) : new[i] = [old[i] EXCEPT !.c = new[i].c]

\* The columns of every cell are a number the fixer itself would write.
SaneCells(cells) == \A i \in 1..Len(cells) : cells[i].c \in 1..MaxSpan

\* The same of every row.
SaneTable(rows) == \A i \in 1..Len(rows) : SaneCells(rows[i])

\* No row is wider, and none has more cells.
FitsIn(rows, b) ==
  \A i \in 1..Len(rows) : RowTotal(rows[i]) <= b /\ Len(rows[i]) <= b

\* A table that has been fixed again and again.
FixedAgain(kids, t) ==
  /\ t \in [Nat -> Seq(Seq(TableCell(kids)))]
  /\ SaneTable(t[0])
  /\ \A k \in Nat : t[k + 1] = WidenedRows(t[k])

\* Row i changes no more from pass last on.
Still(t, i, last) == \A k \in Nat : k >= last => t[k + 1][i] = t[k][i]

\* The sequences before each, put together one after the other.
Adds(f, ss) == f[0] = <<>> /\ \A i \in 1..Len(ss) : f[i] = f[i - 1] \o ss[i]

\* Trees of any height: content and elements.
Trees == UNION {Levels[d] : d \in Nat}

Nodes == Elements(Trees)

\* The elements no higher than so much.
Low(d) == Elements(Levels[d])

\* G makes of every element one whose kids a function of trees goes on with, and
\* it comes to its end everywhere.
Grounded(G) ==
  /\ G \in [Nodes -> Nodes]
  /\ \A S \in SUBSET Nodes :
       (\A x \in Nodes : ElemKids(G[x]) \subseteq S => x \in S) => S = Nodes

Same == [x \in Nodes |-> x]

\* The values of the kids, and functions of some elements.
OnKids(w, n) == [y \in ElemKids(n) |-> w[y]]

Partial(V) == UNION {[K -> V] : K \in SUBSET Nodes}

Unfolding(w, D, G, F) == \A n \in D : w[n] = F[<<n, OnKids(w, G[n])>>]

\* A function that reads every element as Reading does.
IsReading(R) ==
  /\ R \in [Nodes -> Seq(Nat)]
  /\ \A n \in Nodes : R[n] = ReadKids(n, LAMBDA x : R[x])

\* What one kid says, and kids one after the other.
Said(R, x) == IF IsElem(x) THEN R[x] ELSE <<x.mcid>>

AllSaid(R, k) == [i \in DOMAIN k |-> Said(R, k[i])]

Aloud(R, k) == FlattenSeq(AllSaid(R, k))

\* Up to each, the pieces say what the kids within their reach say.
InPieces(R, k, ss, reach) ==
  LET n == Len(k)
  IN  /\ Len(ss) = n /\ reach \in [0..n -> 0..n] /\ reach[0] = 0 /\ reach[n] = n
      /\ \A i \in 1..n : Aloud(R, SubSeq(k, 1, reach[i]))
                            = Aloud(R, SubSeq(k, 1, reach[i - 1])) \o Aloud(R, ss[i])

\* The kids without the elements that have none.
Kept(k) == FlattenSeq([i \in DOMAIN k |-> IF Empty(k[i]) THEN <<>> ELSE <<k[i]>>])

\* W is what a pass makes of the elements of D: it goes on with the kids it gave
\* an element, instead[n] being that element with them.
GoesOn(W, D, instead) ==
  /\ D \subseteq Nodes /\ W \in [D -> Nodes] /\ instead \in [D -> Nodes]
  /\ \A n \in D :
       /\ \A i \in DOMAIN instead[n].k : IsElem(instead[n].k[i]) => instead[n].k[i] \in D
       /\ W[n].k = Onward(instead[n], LAMBDA x : W[x]).k

\* A walk that has come to its end everywhere in D.
Walks(W, D, step) == GoesOn(W, D, [n \in D |-> Rekidded(n, step)])

\* What is made of the elements of D, from their kids in D.
Within(W, D) ==
  /\ D \subseteq Nodes /\ W \in [D -> Nodes]
  /\ \A n \in D : \A i \in DOMAIN n.k : IsElem(n.k[i]) => n.k[i] \in D

Wraps(W, D, child, wrapper) ==
  Within(W, D) /\ \A n \in D : W[n] = WrapNode(n, child, wrapper, LAMBDA x : W[x])

WrapsEntries(W, D) ==
  Within(W, D) /\ \A n \in D : W[n] = EntriesNode(n, LAMBDA x : W[x])

Prunes(W, D) ==
  Within(W, D) /\ \A n \in D : W[n] = PruneNode(n, LAMBDA x : W[x])

\* What wrapping, the wrapping of entries and pruning make of an element, when r says
\* what becomes of its kids.
WrapFrom(n, child, wrapper, r) == WrapNode(n, child, wrapper, LAMBDA y : r[y])

EntriesFrom(n, r) == EntriesNode(n, LAMBDA y : r[y])

PruneFrom(n, r) == PruneNode(n, LAMBDA y : r[y])

Onwards(n, r) == Onward(n, LAMBDA y : r[y])

RowsFrom(n, r) ==
  IF n.s = "TR" THEN <<CellsAmong(n.k)>>
  ELSE FlattenSeq([i \in DOMAIN n.k |-> IF Type(n.k[i]) \in Grids THEN r[n.k[i]] ELSE <<>>])

GrownFrom(n, x, r) ==
  {Taller(n, x)}
  \cup IF n.k # <<>> /\ IsElem(Last(n.k))
       THEN {[n EXCEPT !.k = Append(Front(n.k), z)] : z \in r[Last(n.k)]}
       ELSE {}

\* The first label comes first and the first body next; or there is nothing else.
Orderly(k) ==
  \A i \in DOMAIN k :
    /\ Type(k[i]) = "Lbl" => Type(k[1]) = "Lbl"
    /\ Type(k[i]) = "LBody" => Type(k[1]) = "LBody" \/ (Type(k[1]) = "Lbl" /\ Type(k[2]) = "LBody")

Neat(k) ==
  /\ Orderly(k)
  /\ \A i \in DOMAIN k : Type(k[i]) \in {"Lbl", "LBody"}
  /\ \A i, j \in DOMAIN k : Type(k[i]) = Type(k[j]) => i = j

Fits(how, k) == IF how = "neat" THEN Neat(k) ELSE Orderly(k)

\* The elements whose items are all of the kind.
Tame(how) == {n \in Nodes : \A x \in Below(n) : x.s = "LI" => Fits(how, x.k)}

\* The place of the first kid of a type, zero if there is none.
FirstOf(k, s) == SelectInSeq(k, LAMBDA x : Type(x) = s)

\* What is read of m is what is read of n; m is no higher, and its items are of the kind.
Like(R, m, n) ==
  /\ m \in Nodes /\ R[m] = R[n]
  /\ \A d \in Nat : n \in Low(d) => m \in Low(d)
  /\ \A how : n \in Tame(how) => m \in Tame(how)

\* What becomes of an element whose first row is looked for, when row says where one is.
HeadedFrom(n, row, r) ==
  LET i == SelectInSeq(n.k, LAMBDA y : Type(y) \in {"TR"} \cup Sections /\ row[y])
  IN IF n.s = "TR"
     THEN [n EXCEPT !.k = [j \in DOMAIN n.k |->
             IF Type(n.k[j]) = "TD" THEN [n.k[j] EXCEPT !.s = "TH"] ELSE n.k[j]]]
     ELSE IF i = 0 THEN n ELSE [n EXCEPT !.k[i] = r[n.k[i]]]

\* The row each kid begins at, if the rows of each are those of.
RowsAbove(n, a, of) ==
  LET below[i \in 0..Len(n.k)] ==
        IF i = 0 THEN a
        ELSE below[i - 1] + IF Type(n.k[i]) \in Grids THEN Len(of[n.k[i]]) ELSE 0
  IN below

\* An element with the spans of its cells, or of the cells of its kids.
SpansFrom(n, a, of, rows, r) ==
  [n EXCEPT !.k = [i \in DOMAIN n.k |->
     IF n.s = "TR"
     THEN IF IsCell(n.k[i])
          THEN [n.k[i] EXCEPT !.c = Span(rows[a + 1][Len(CellsAmong(SubSeq(n.k, 1, i)))].c)]
          ELSE n.k[i]
     ELSE IF Type(n.k[i]) \in Grids THEN r[n.k[i]][RowsAbove(n, a, of)[i - 1]] ELSE n.k[i]]]

\* Trees of a kind: so are the kids of one; and it takes the elements of a type
\* that have such kids.
Heritage(K) == K \subseteq Trees /\ \A n \in Nodes : n \in K => n.k \in Seq(K)

Makes(K, s) == \A n \in Nodes : n.s = s /\ n.k \in Seq(K) => n \in K

\* The element m comes from n and has kids of the kind.
Becomes(K, m, n) == m \in Nodes /\ m.s = n.s /\ m.k \in Seq(K)

\* It takes all elements that the steps make of its trees.
AllMade(K) ==
  /\ \A s \in {"TD", "TR", "TBody", "THead", "Table", "LBody", "TOCI"} : Makes(K, s)
  /\ \A x \in K : Only("LI", Only("LBody", x)) \in K

Alike(a, b) == Len(a) = Len(b) /\ ToSet(a) = ToSet(b)

\* One of some sequences taken out, and put in front.
At(f, j) == IF j = 0 THEN <<>> ELSE f[j]

TakenOut(f, j) == [i \in DOMAIN f |-> IF i = j THEN <<>> ELSE f[i]]

\* Trees that are content or have such items only.
Tamed(how) == Leaves \cup Tame(how)

\* How the items are after a step.
After(how, step) == IF step = "items" THEN "neat" ELSE how

\* A child may be put into such a wrapper: items stay in order.
Suits(child, wrapper) ==
  /\ child \in Kinds
  /\ wrapper \in Kinds \ {"Lbl", "LBody"}
  /\ wrapper = "LI" => child \in {"Lbl", "LBody"}

\* The tree u made of t keeps its content, in order if the items of t are, and then
\* has its own items in order too.
Keeps(R, A, B, t, u) ==
  /\ u \in Nodes /\ u.s = t.s
  /\ Alike(R[u], R[t])
  /\ t \in Tame(A) => R[u] = R[t] /\ u \in Tame(B)

\* What the fixer may do to a tree t made of the tree s.
Honest(t, s) ==
  /\ Alike(Reading(t), Reading(s))
  /\ s \in Tame("orderly") => t \in Tame("orderly") /\ Reading(t) = Reading(s)

CellNodes == {n \in Nodes : n.s \in Cells /\ n.k # <<>> /\ n.k \in Seq(Leaves)}

RowNodes(b) ==
  {n \in Nodes : n.s = "TR" /\ n.k \in Seq(CellNodes) /\ RowTotal(n.k) <= b /\ Len(n.k) <= b}

TableNodes(b) == {n \in Nodes : n.s = "Table" /\ n.k \in Seq(RowNodes(b))}

GridNodes(b) == {n \in Nodes : n.s = "Root" /\ n.k \in Seq(TableNodes(b))}

GridParts(b) == CellNodes \cup RowNodes(b) \cup TableNodes(b) \cup GridNodes(b)

\* What r makes of the elements of a grid are elements of one.
Narrow(b, r) ==
  /\ \A x \in CellNodes : r[x] \in CellNodes /\ Span(r[x].c) = Span(x.c)
  /\ \A x \in RowNodes(b) : r[x] \in RowNodes(b)
  /\ \A x \in TableNodes(b) : r[x] \in TableNodes(b)
  /\ \A x \in GridNodes(b) : r[x] \in GridNodes(b)

\* An element without its empty kids.
Trimmed(n) == IF Kept(n.k) = n.k THEN n ELSE SetKids(n, Kept(n.k))

\* An author makes trees, and grids of the family of grids; the fixer is honest and
\* makes no row of a grid wider than every row of the input is.
IInv ==
  /\ family \in DOMAIN Tags /\ round \in Nat
  /\ round = 0 => tree = input
  /\ input \in Nodes /\ input.s = "Root"
  /\ tree \in Nodes /\ tree.s = "Root"
  /\ Honest(tree, input)
  /\ family = "grids" =>
       /\ Len(input.k) = 1
       /\ \E b \in Nat : input \in GridNodes(b)
       /\ \A b \in Int : input \in GridNodes(b) => tree \in GridNodes(b)

\* A document with a table no wider than b, and no other.
OneTable(t) == Len(t.k) = 1 /\ \E b \in Nat : t \in GridNodes(b)
=============================================================================
