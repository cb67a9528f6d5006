---------------------------- MODULE TagRepairProofs ----------------------------
(***************************************************************************)
(* Proofs about the repair of tables and of structure trees, for trees of  *)
(* any height and rows of any length: the rows of a table stay bounded and *)
(* come to rest, and the passes lose, repeat and move no content.          *)
(*                                                                         *)
(* The argument: elements are well-founded by their kids, so the functions *)
(* the passes are defined by have a value at every element.  What a pass   *)
(* does at one element keeps what is read there, wherever the items of     *)
(* lists are in order, and keeps those in order; by induction on the tree  *)
(* so does the pass, and by induction on their number so do all of them.   *)
(* In the same way every pass keeps a table of rows of cells one that is   *)
(* no wider than it was.                                                   *)
(***************************************************************************)
EXTENDS TagRepairInv, FiniteSetTheorems, SequenceTheorems, WellFoundedInduction, TLAPS

-----------------------------------------------------------------------------
(* Natural numbers.                                                        *)

\* A set of natural numbers that is not empty has a least.
LEMMA LeastNat ==
  ASSUME NEW T, T \subseteq Nat, T # {}
  PROVE  \E m \in T : \A k \in T : m <= k
<1>. DEFINE R == {ss \in Nat \X Nat : ss[1] < ss[2]}
<1>0. IsWellFoundedOn(R, Nat) BY NatLessThanWellFounded DEF OpToRel
<1>1. \E m \in T : \A k \in T : ~(<<k, m>> \in R)
  <2>. HIDE DEF R
  <2>. QED BY <1>0, WFMin
<1>2. PICK m \in T : \A k \in T : ~(<<k, m>> \in R) BY <1>1
<1>3. \A k \in T : ~(k < m) BY <1>2
<1> QED BY <1>3

\* What holds of zero, and of the next number whenever of a number, holds of every number.
LEMMA FromZeroOn ==
  ASSUME NEW S \in SUBSET Nat, 0 \in S, \A n \in Nat : n \in S => n + 1 \in S
  PROVE  S = Nat
<1>1. SUFFICES ASSUME Nat \ S # {} PROVE FALSE OBVIOUS
<1>2. PICK m \in Nat \ S : \A k \in Nat \ S : m <= k BY <1>1, LeastNat
<1>3. m # 0 OBVIOUS
<1>4. m - 1 \in Nat /\ m - 1 \in S BY <1>2, <1>3
<1>5. (m - 1) + 1 \in S BY <1>4
<1> QED BY <1>5

\* A recursion that counts up to n has a value everywhere.
LEMMA Recursion ==
  ASSUME NEW n \in Nat, NEW C, NEW a \in C, NEW F, StepsIn(C, n, F)
  PROVE  \E f : RunsFrom(C, n, F, a, f)
<1>0. F \in [(1..n) \X C -> C] BY DEF StepsIn
<1>. DEFINE Good(m, f) == f[0] = a /\ \A i \in 1..m : f[i] = F[<<i, f[i - 1]>>]
            T == {m \in Nat : m <= n => \E f \in [0..m -> C] : Good(m, f)}
<1>1. 0 \in T
  <2>1. Good(0, [i \in 0..0 |-> a]) OBVIOUS
  <2>2. [i \in 0..0 |-> a] \in [0..0 -> C] OBVIOUS
  <2>. QED BY <2>1, <2>2
<1>2. ASSUME NEW m \in Nat, m \in T PROVE m + 1 \in T
  <2>1. CASE m + 1 > n BY <2>1
  <2>2. CASE m + 1 <= n
    <3>1. PICK f \in [0..m -> C] : Good(m, f) BY <1>2, <2>2
    <3>. DEFINE g == [i \in 0..(m + 1) |-> IF i = m + 1 THEN F[<<m + 1, f[m]>>] ELSE f[i]]
    <3>2. f[m] \in C /\ <<m + 1, f[m]>> \in (1..n) \X C BY <2>2, <3>1
    <3>3. F[<<m + 1, f[m]>>] \in C BY <1>0, <3>2
    <3>4. g \in [0..(m + 1) -> C] BY <3>3
    <3>5. g[0] = a BY <3>1
    <3>6. ASSUME NEW i \in 1..(m + 1) PROVE g[i] = F[<<i, g[i - 1]>>]
      <4>1. CASE i = m + 1
        <5>1. g[i - 1] = f[m] /\ g[i] = F[<<m + 1, f[m]>>] BY <4>1
        <5>. QED BY <4>1, <5>1
      <4>2. CASE i # m + 1
        <5>1. i \in 1..m /\ g[i] = f[i] /\ g[i - 1] = f[i - 1] BY <4>2
        <5>. QED BY <3>1, <5>1
      <4>. QED BY <4>1, <4>2
    <3>7. \E h \in [0..(m + 1) -> C] : Good(m + 1, h)
      <4>. HIDE DEF g
      <4>. QED BY <3>4, <3>5, <3>6
    <3>. HIDE DEF Good
    <3>. QED BY <3>7
  <2>. QED BY <2>1, <2>2
<1>3. T = Nat
  <2>. HIDE DEF T
  <2>1. T \in SUBSET Nat BY DEF T
  <2>. QED BY <1>1, <1>2, <2>1, FromZeroOn
<1>4. \E f \in [0..n -> C] : Good(n, f)
  <2>1. n \in T BY <1>3
  <2>. HIDE DEF Good
  <2>. QED BY <2>1
<1>. QED BY <1>4 DEF RunsFrom

\* Finitely many numbers have a bound.
LEMMA BoundedValues ==
  ASSUME NEW n \in Nat, NEW f \in [1..n -> Nat]
  PROVE  \E b \in Nat : \A i \in 1..n : f[i] <= b
<1>. DEFINE T == {m \in Nat : m <= n => \E b \in Nat : \A i \in 1..m : f[i] <= b}
<1>1. 0 \in T OBVIOUS
<1>2. ASSUME NEW m \in Nat, m \in T PROVE m + 1 \in T
  <2>1. CASE m + 1 > n BY <2>1
  <2>2. CASE m + 1 <= n
    <3>1. PICK b \in Nat : \A i \in 1..m : f[i] <= b BY <1>2, <2>2
    <3>2. f[m + 1] \in Nat BY <2>2
    <3>3. b + f[m + 1] \in Nat /\ \A i \in 1..(m + 1) : f[i] <= b + f[m + 1]
      <4>1. \A i \in 1..(m + 1) : i = m + 1 \/ (i \in 1..m /\ f[i] \in Nat)
        BY <2>2
      <4>. QED BY <3>1, <3>2, <4>1
    <3>. QED BY <3>3, SMTT(30)
  <2>. QED BY <2>1, <2>2
<1>3. T = Nat
  <2>1. T \in SUBSET Nat OBVIOUS
  <2>. HIDE DEF T
  <2>. QED BY <1>1, <1>2, <2>1, FromZeroOn
<1>4. n \in T BY <1>3
<1>. QED BY <1>4

\* The maximum of a bounded set is in it, and above the rest.
LEMMA MaxOfBounded ==
  ASSUME NEW S \in SUBSET Nat, S # {}, NEW b \in Nat, \A s \in S : s <= b
  PROVE  Max(S) \in S /\ \A s \in S : s <= Max(S)
<1>. DEFINE U == {m \in Nat : \A s \in S : s <= m}
<1>1. PICK m \in U : \A k \in U : m <= k
  <2>1. U \subseteq Nat /\ b \in U OBVIOUS
  <2>. HIDE DEF U
  <2>. QED BY <2>1, LeastNat
<1>2. m \in S
  <2>1. SUFFICES ASSUME m \notin S PROVE FALSE OBVIOUS
  <2>2. \A s \in S : s <= m - 1 BY <1>1, <2>1
  <2>3. m - 1 \in Nat
    <3>1. PICK s \in S : s <= m - 1 BY <2>2
    <3>2. s \in Nat /\ m \in Nat BY <1>1
    <3>. QED BY <3>1, <3>2
  <2>4. m - 1 \in U BY <2>2, <2>3
  <2>. QED BY <1>1, <2>4
<1>3. \E x \in S : \A y \in S : x >= y BY <1>1, <1>2
<1>4. Max(S) \in S /\ \A s \in S : Max(S) >= s BY <1>3 DEF Max
<1>. QED BY <1>4

-----------------------------------------------------------------------------
(* Rows.                                                                   *)

\* Finitely many columns are below a bound.
LEMMA BoundedIsFinite ==
  ASSUME NEW S, Bounded(S)
  PROVE  IsFiniteSet(S) /\ Cardinality(S) \in Nat
<1>1. PICK b \in Nat : \A s \in S : s <= b BY DEF Bounded
<1>2. IsFiniteSet(S) BY <1>1, FS_BoundedSetOfNaturals DEF Bounded
<1>. QED BY <1>2, FS_CardinalityType

\* A span is one to MaxSpan columns, whatever the file says.
LEMMA SpanFacts ==
  /\ \A v : Span(v) \in 1..MaxSpan /\ Span(v) \in Nat /\ Span(v) >= 1
  /\ \A v \in 1..MaxSpan : Span(v) = v
  BY SpanAssumption DEF Span

\* There is a free column within as many columns as are taken.
LEMMA FreeIsAhead ==
  ASSUME NEW c \in Nat, NEW taken, Bounded(taken)
  PROVE  /\ Free(c, taken) \in Nat
         /\ Free(c, taken) >= c
         /\ Free(c, taken) \notin taken
<1>. DEFINE T == {d \in Nat : d >= c /\ d \notin taken}
            k == Cardinality(taken)
<1>1. k \in Nat /\ IsFiniteSet(taken) BY BoundedIsFinite
<1>2. T # {}
  <2>1. PICK b \in Nat : \A s \in taken : s <= b BY DEF Bounded
  <2>2. b + c + 1 \in Nat /\ b + c + 1 >= c /\ ~(b + c + 1 <= b) OBVIOUS
  <2>. QED BY <2>1, <2>2
<1>3. PICK d \in T : \A e \in T : d <= e
  <2>1. T \subseteq Nat OBVIOUS
  <2>. HIDE DEF T
  <2>. QED BY <1>2, <2>1, LeastNat
<1>4. \A e \in c..(d - 1) : e \in taken BY <1>3
<1>5. d <= c + k
  <2>1. d \in Nat /\ d >= c BY <1>3
  <2>2. Cardinality(c..(d - 1)) = d - c
    <3>1. d - 1 \in Int /\ c \in Int BY <2>1
    <3>2. Cardinality(c..(d - 1)) = IF c > d - 1 THEN 0 ELSE (d - 1) - c + 1
      BY <3>1, FS_Interval
    <3>. QED BY <2>1, <3>2
  <2>3. c..(d - 1) \in SUBSET taken BY <1>4
  <2>4. Cardinality(c..(d - 1)) <= k BY <1>1, <2>3, FS_Subset
  <2>. QED BY <1>1, <2>1, <2>2, <2>4
<1>6. d \in c..(c + k) /\ d \notin taken /\ \A e \in c..(d - 1) : e \in taken
  BY <1>1, <1>3, <1>4, <1>5
<1>7. /\ Free(c, taken) \in c..(c + k)
      /\ Free(c, taken) \notin taken
  BY <1>6 DEF Free
<1>. QED BY <1>1, <1>7

\* A column is found for every cell.
LEMMA EndsStep ==
  ASSUME NEW cells, Len(cells) \in Nat, NEW taken, Bounded(taken)
  PROVE  LET ends == Ends(cells, taken)
         IN  /\ ends \in [0..Len(cells) -> Nat]
             /\ ends[0] = 0
             /\ \A i \in 1..Len(cells) : ends[i] = Free(ends[i - 1], taken) + Span(cells[i].c)
<1>. DEFINE n == Len(cells)
            step(i, x) == Free(x, taken) + Span(cells[i].c)
            F == [p \in (1..n) \X Nat |-> step(p[1], p[2])]
            P(g) == g = [i \in 0..n |-> IF i = 0 THEN 0 ELSE step(i, g[i - 1])]
<1>1. F \in [(1..n) \X Nat -> Nat] BY FreeIsAhead, SpanFacts, SMTT(30)
<1>2. \A i \in 1..n, x \in Nat : F[<<i, x>>] = step(i, x) OBVIOUS
<1>3. PICK f \in [0..n -> Nat] : f[0] = 0 /\ \A i \in 1..n : f[i] = F[<<i, f[i - 1]>>]
  <2>. DEFINE C == Nat
              a == 0
  <2>1. n \in Nat /\ a \in C /\ StepsIn(C, n, F) BY <1>1 DEF StepsIn
  <2>. HIDE DEF F, n, step, C, P, a
  <2>2. \E f : RunsFrom(C, n, F, a, f) BY <2>1, Recursion
  <2>. QED BY <2>2 DEF C, a, RunsFrom
<1>4. \A i \in 1..n : f[i] = step(i, f[i - 1])
  <2>. HIDE DEF F
  <2>1. \A i \in 1..n : f[i - 1] \in Nat BY <1>3
  <2>. QED BY <1>2, <1>3, <2>1
<1>. HIDE DEF step
<1>5. P(f) BY <1>3, <1>4
<1>6. Ends(cells, taken) = CHOOSE g : P(g) BY DEF Ends, step
<1>7. P(Ends(cells, taken))
  <2>. HIDE DEF P
  <2>. QED BY <1>5, <1>6
<1>8. \A i \in 0..n : Ends(cells, taken)[i] = f[i]
  <2>. DEFINE T == {m \in Nat : m <= n => Ends(cells, taken)[m] = f[m]}
  <2>1. 0 \in T BY <1>3, <1>7
  <2>2. ASSUME NEW m \in Nat, m \in T PROVE m + 1 \in T
    <3>1. SUFFICES ASSUME m + 1 <= n PROVE Ends(cells, taken)[m + 1] = f[m + 1]
      OBVIOUS
    <3>2. Ends(cells, taken)[m + 1] = step(m + 1, Ends(cells, taken)[m])
      BY <1>7, <3>1
    <3>3. f[m + 1] = step(m + 1, f[m]) BY <1>4, <3>1
    <3>4. Ends(cells, taken)[m] = f[m] BY <2>2, <3>1
    <3>. QED BY <3>2, <3>3, <3>4
  <2>3. T = Nat
    <3>1. T \in SUBSET Nat OBVIOUS
    <3>. HIDE DEF T
    <3>. QED BY <2>1, <2>2, <3>1, FromZeroOn
  <2>. QED BY <2>3
<1>9. Ends(cells, taken) = f BY <1>3, <1>7, <1>8
<1>. QED BY <1>3, <1>4, <1>9 DEF step

\* The spans of a row are added up one after the other.
LEMMA SumsStep ==
  ASSUME NEW cells, Len(cells) \in Nat
  PROVE  LET sums == Sums(cells)
         IN  /\ sums \in [0..Len(cells) -> Nat]
             /\ sums[0] = 0
             /\ \A i \in 1..Len(cells) : sums[i] = sums[i - 1] + Span(cells[i].c)
<1>. DEFINE n == Len(cells)
            step(i, x) == x + Span(cells[i].c)
            F == [p \in (1..n) \X Nat |-> step(p[1], p[2])]
            P(g) == g = [i \in 0..n |-> IF i = 0 THEN 0 ELSE step(i, g[i - 1])]
<1>1. F \in [(1..n) \X Nat -> Nat] BY SpanFacts
<1>2. \A i \in 1..n, x \in Nat : F[<<i, x>>] = step(i, x) OBVIOUS
<1>3. PICK f \in [0..n -> Nat] : f[0] = 0 /\ \A i \in 1..n : f[i] = F[<<i, f[i - 1]>>]
  <2>. DEFINE C == Nat
              a == 0
  <2>1. n \in Nat /\ a \in C /\ StepsIn(C, n, F) BY <1>1 DEF StepsIn
  <2>. HIDE DEF F, n, step, C, P, a
  <2>2. \E f : RunsFrom(C, n, F, a, f) BY <2>1, Recursion
  <2>. QED BY <2>2 DEF C, a, RunsFrom
<1>4. \A i \in 1..n : f[i] = step(i, f[i - 1])
  <2>. HIDE DEF F
  <2>1. \A i \in 1..n : f[i - 1] \in Nat BY <1>3
  <2>. QED BY <1>2, <1>3, <2>1
<1>. HIDE DEF step
<1>5. P(f) BY <1>3, <1>4
<1>6. Sums(cells) = CHOOSE g : P(g) BY DEF Sums, step
<1>7. P(Sums(cells))
  <2>. HIDE DEF P
  <2>. QED BY <1>5, <1>6
<1>8. \A i \in 0..n : Sums(cells)[i] = f[i]
  <2>. DEFINE T == {m \in Nat : m <= n => Sums(cells)[m] = f[m]}
  <2>1. 0 \in T BY <1>3, <1>7
  <2>2. ASSUME NEW m \in Nat, m \in T PROVE m + 1 \in T
    <3>1. SUFFICES ASSUME m + 1 <= n PROVE Sums(cells)[m + 1] = f[m + 1] OBVIOUS
    <3>2. Sums(cells)[m + 1] = step(m + 1, Sums(cells)[m]) BY <1>7, <3>1
    <3>3. f[m + 1] = step(m + 1, f[m]) BY <1>4, <3>1
    <3>4. Sums(cells)[m] = f[m] BY <2>2, <3>1
    <3>. QED BY <3>2, <3>3, <3>4
  <2>3. T = Nat
    <3>1. T \in SUBSET Nat OBVIOUS
    <3>. HIDE DEF T
    <3>. QED BY <2>1, <2>2, <3>1, FromZeroOn
  <2>. QED BY <2>3
<1>9. Sums(cells) = f BY <1>3, <1>7, <1>8
<1>. QED BY <1>3, <1>4, <1>9 DEF step

\* Placed past what is taken, cells end no earlier than their spans add up to.
LEMMA EndsAreWide ==
  ASSUME NEW cells, Len(cells) \in Nat, NEW taken, Bounded(taken), NEW i \in 0..Len(cells)
  PROVE  Sums(cells)[i] <= Ends(cells, taken)[i]
<1>. DEFINE n == Len(cells)
            ends == Ends(cells, taken)
            sums == Sums(cells)
            T == {m \in Nat : m <= n => sums[m] <= ends[m]}
<1>1. /\ ends \in [0..n -> Nat]
      /\ ends[0] = 0
      /\ \A j \in 1..n : ends[j] = Free(ends[j - 1], taken) + Span(cells[j].c)
  BY EndsStep
<1>2. /\ sums \in [0..n -> Nat]
      /\ sums[0] = 0
      /\ \A j \in 1..n : sums[j] = sums[j - 1] + Span(cells[j].c)
  BY SumsStep
<1>. HIDE DEF ends, sums
<1>3. 0 \in T BY <1>1, <1>2
<1>4. ASSUME NEW m \in Nat, m \in T PROVE m + 1 \in T
  <2>1. SUFFICES ASSUME m + 1 <= n PROVE sums[m + 1] <= ends[m + 1] OBVIOUS
  <2>2. m \in 0..n /\ m + 1 \in 1..n /\ (m + 1) - 1 = m BY <2>1
  <2>3. ends[m] \in Nat /\ sums[m] \in Nat /\ sums[m] <= ends[m]
    BY <1>1, <1>2, <1>4, <2>2
  <2>4. Free(ends[m], taken) \in Nat /\ Free(ends[m], taken) >= ends[m]
    BY <2>3, FreeIsAhead
  <2>5. Span(cells[m + 1].c) \in Nat BY SpanFacts
  <2>6. ends[m + 1] = Free(ends[m], taken) + Span(cells[m + 1].c) BY <1>1, <2>2
  <2>7. sums[m + 1] = sums[m] + Span(cells[m + 1].c) BY <1>2, <2>2
  <2>. QED BY <2>3, <2>4, <2>5, <2>6, <2>7
<1>5. T = Nat
  <2>1. T \in SUBSET Nat OBVIOUS
  <2>. HIDE DEF T
  <2>. QED BY <1>3, <1>4, <2>1, FromZeroOn
<1>. QED BY <1>5 DEF ends, sums

\* Row spans reach below a row in finitely many columns.
LEMMA BelowRowBounded ==
  ASSUME NEW cells, Len(cells) \in Nat, DOMAIN cells = 1..Len(cells),
         NEW open, Bounded(DOMAIN open)
  PROVE  Bounded(DOMAIN BelowRow(cells, open))
<1>. DEFINE n == Len(cells)
            aged == [c \in {c \in DOMAIN open : open[c] > 1} |-> open[c] - 1]
            ends == Ends(cells, DOMAIN aged)
            at == Begins(cells, DOMAIN aged)
            under(i) == IF Span(cells[i].r) > 1 THEN at[i]..(at[i] + Span(cells[i].c) - 1) ELSE {}
<1>1. PICK b \in Nat : \A c \in DOMAIN aged : c <= b BY DEF Bounded
<1>2. Bounded(DOMAIN aged) BY <1>1 DEF Bounded
<1>3. /\ ends \in [0..n -> Nat]
      /\ \A i \in 1..n : ends[i] = Free(ends[i - 1], DOMAIN aged) + Span(cells[i].c)
  <2>. HIDE DEF aged
  <2>. QED BY <1>2, EndsStep
<1>4. \A i \in 1..n : at[i] = Free(ends[i - 1], DOMAIN aged) BY DEF Begins
<1>5. DOMAIN BelowRow(cells, open) = DOMAIN aged \cup UNION {under(i) : i \in 1..n}
  BY DEF BelowRow
<1>. HIDE DEF aged, ends, at
<1>6. \A i \in 1..n : at[i] \in Nat /\ at[i] + Span(cells[i].c) = ends[i]
  <2>1. \A i \in 1..n : ends[i - 1] \in Nat BY <1>3
  <2>2. \A c \in Nat : Free(c, DOMAIN aged) \in Nat BY <1>2, FreeIsAhead
  <2>. QED BY <1>3, <1>4, <2>1, <2>2
<1>7. PICK e \in Nat : \A i \in 1..n : ends[i] <= e
  <2>. DEFINE f == [i \in 1..n |-> ends[i]]
  <2>1. f \in [1..n -> Nat] BY <1>3
  <2>2. \E e \in Nat : \A i \in 1..n : f[i] <= e
    <3>. HIDE DEF f
    <3>. QED BY <2>1, BoundedValues
  <2>. QED BY <2>2
<1>8. \A i \in 1..n : \A c \in under(i) : c \in Nat /\ c <= e
  <2>1. SUFFICES ASSUME NEW i \in 1..n, NEW c \in under(i) PROVE c \in Nat /\ c <= e
    OBVIOUS
  <2>2. c \in at[i]..(at[i] + Span(cells[i].c) - 1) BY <2>1
  <2>3. at[i] \in Nat /\ at[i] + Span(cells[i].c) <= e /\ Span(cells[i].c) \in Nat
    BY <1>6, <1>7, SpanFacts
  <2>. QED BY <2>2, <2>3
<1>9. \A c \in DOMAIN BelowRow(cells, open) : c \in Nat /\ c <= b + e
  <2>1. \A c \in DOMAIN aged : c \in Nat /\ c <= b + e BY <1>1, <1>2 DEF Bounded
  <2>. HIDE DEF under
  <2>2. \A c \in UNION {under(i) : i \in 1..n} : c \in Nat /\ c <= b + e BY <1>8
  <2>. QED BY <1>5, <2>1, <2>2
<1>. QED BY <1>9 DEF Bounded

\* The row spans open above a row come from the row before.
LEMMA OpenSpansStep ==
  ASSUME NEW rows, Grid(rows)
  PROVE  /\ OpenSpans(rows)[0] = <<>>
         /\ \A i \in 1..Len(rows) : OpenSpans(rows)[i] = BelowRow(rows[i], OpenSpans(rows)[i - 1])
<1>. DEFINE n == Len(rows)
            P(m, g) == g = [i \in 0..m |-> IF i = 0 THEN <<>> ELSE BelowRow(rows[i], g[i - 1])]
            T == {m \in Nat : m <= n => \E g : P(m, g)}
<1>1. 0 \in T
  <2>1. P(0, [i \in 0..0 |-> <<>>]) OBVIOUS
  <2>. HIDE DEF P
  <2>. QED BY <2>1
<1>2. ASSUME NEW m \in Nat, m \in T PROVE m + 1 \in T
  <2>1. SUFFICES ASSUME m + 1 <= n PROVE \E g : P(m + 1, g) OBVIOUS
  <2>2. PICK g : P(m, g)
    <3>. HIDE DEF P
    <3>. QED BY <1>2, <2>1
  <2>. DEFINE h == [i \in 0..(m + 1) |-> IF i = m + 1 THEN BelowRow(rows[m + 1], g[m]) ELSE g[i]]
  <2>3. \A i \in 0..(m + 1) : h[i] = IF i = 0 THEN <<>> ELSE BelowRow(rows[i], h[i - 1])
    <3>1. SUFFICES ASSUME NEW i \in 0..(m + 1)
                   PROVE  h[i] = IF i = 0 THEN <<>> ELSE BelowRow(rows[i], h[i - 1])
      OBVIOUS
    <3>2. CASE i = m + 1
      <4>1. h[i] = BelowRow(rows[m + 1], g[m]) /\ h[i - 1] = g[m] BY <3>2
      <4>. QED BY <3>2, <4>1
    <3>3. CASE i # m + 1
      <4>1. i \in 0..m /\ h[i] = g[i] /\ (i # 0 => h[i - 1] = g[i - 1]) BY <3>3
      <4>2. g[i] = IF i = 0 THEN <<>> ELSE BelowRow(rows[i], g[i - 1])
        BY <2>2, <4>1
      <4>. QED BY <4>1, <4>2
    <3>. QED BY <3>2, <3>3
  <2>4. DOMAIN h = 0..(m + 1) /\ h = [i \in 0..(m + 1) |-> h[i]] OBVIOUS
  <2>5. P(m + 1, h)
    <3>. HIDE DEF h
    <3>. QED BY <2>3, <2>4
  <2>. HIDE DEF P
  <2>. QED BY <2>5
<1>3. \E g : P(n, g)
  <2>1. T \in SUBSET Nat OBVIOUS
  <2>2. T = Nat
    <3>. HIDE DEF T
    <3>. QED BY <1>1, <1>2, <2>1, FromZeroOn
  <2>3. n \in T BY <2>2 DEF Grid
  <2>. HIDE DEF P
  <2>. QED BY <2>3
<1>4. OpenSpans(rows) = CHOOSE g : P(n, g) BY DEF OpenSpans
<1>5. P(n, OpenSpans(rows))
  <2>. HIDE DEF P
  <2>. QED BY <1>3, <1>4
<1>. QED BY <1>5 DEF Grid

\* They reach into finitely many columns.
LEMMA OpenSpansBounded ==
  ASSUME NEW rows, Grid(rows), NEW i \in 0..Len(rows)
  PROVE  Bounded(DOMAIN OpenSpans(rows)[i])
<1>. DEFINE n == Len(rows)
            T == {m \in Nat : m <= n => Bounded(DOMAIN OpenSpans(rows)[m])}
<1>1. 0 \in T
  <2>1. DOMAIN OpenSpans(rows)[0] = {} BY OpenSpansStep
  <2>. QED BY <2>1 DEF Bounded
<1>2. ASSUME NEW m \in Nat, m \in T PROVE m + 1 \in T
  <2>1. SUFFICES ASSUME m + 1 <= n PROVE Bounded(DOMAIN OpenSpans(rows)[m + 1])
    OBVIOUS
  <2>2. OpenSpans(rows)[m + 1] = BelowRow(rows[m + 1], OpenSpans(rows)[m])
    <3>1. m + 1 \in 1..Len(rows) /\ (m + 1) - 1 = m BY <2>1 DEF Grid
    <3>. QED BY <3>1, OpenSpansStep
  <2>3. Bounded(DOMAIN OpenSpans(rows)[m]) BY <1>2, <2>1 DEF Grid
  <2>4. Len(rows[m + 1]) \in Nat /\ DOMAIN rows[m + 1] = 1..Len(rows[m + 1])
    BY <2>1 DEF Grid
  <2>. QED BY <2>2, <2>3, <2>4, BelowRowBounded
<1>3. T = Nat
  <2>1. T \in SUBSET Nat OBVIOUS
  <2>. HIDE DEF T
  <2>. QED BY <1>1, <1>2, <2>1, FromZeroOn
<1>. QED BY <1>3 DEF Grid

\* No row is laid out narrower than its spans add up to.
LEMMA RowWidthIsWide ==
  ASSUME NEW cells, Len(cells) \in Nat, NEW open, Bounded(DOMAIN open)
  PROVE  /\ RowTotal(cells) \in Nat
         /\ RowWidth(cells, open) \in Nat
         /\ RowTotal(cells) <= RowWidth(cells, open)
<1>. DEFINE n == Len(cells)
            last == Ends(cells, DOMAIN open)[n]
            S == {last} \cup {c + 1 : c \in DOMAIN open}
<1>1. last \in Nat /\ RowTotal(cells) \in Nat /\ RowTotal(cells) <= last
  BY EndsStep, SumsStep, EndsAreWide DEF RowTotal
<1>2. PICK b \in Nat : \A c \in DOMAIN open : c <= b BY DEF Bounded
<1>. HIDE DEF last
<1>3. S \in SUBSET Nat /\ S # {} /\ b + 1 + last \in Nat /\ \A s \in S : s <= b + 1 + last
  BY <1>1, <1>2 DEF Bounded
<1>4. last \in S OBVIOUS
<1>5. RowWidth(cells, open) = Max(S) BY DEF RowWidth, last
<1>6. Max(S) \in S /\ \A s \in S : s <= Max(S)
  <2>. HIDE DEF S
  <2>. QED BY <1>3, MaxOfBounded
<1>. HIDE DEF S
<1>7. Max(S) \in Nat BY <1>3, <1>6
<1>8. last <= Max(S) BY <1>4, <1>6
<1>. QED BY <1>1, <1>5, <1>7, <1>8

\* No row of a table is laid out narrower than its spans add up to.
LEMMA LayoutIsWide ==
  ASSUME NEW rows, Grid(rows), NEW i \in 1..Len(rows)
  PROVE  /\ RowTotal(rows[i]) \in Nat
         /\ Layout(rows).width[i] \in Nat
         /\ RowTotal(rows[i]) <= Layout(rows).width[i]
<1>1. Layout(rows).width[i] = RowWidth(rows[i], OpenSpans(rows)[i - 1])
  BY DEF Layout, Grid
<1>2. Bounded(DOMAIN OpenSpans(rows)[i - 1])
  <2>1. i - 1 \in 0..Len(rows) BY DEF Grid
  <2>. QED BY <2>1, OpenSpansBounded
<1>. QED BY <1>1, <1>2, RowWidthIsWide DEF Grid

\* The target is no wider than some row has cells.
LEMMA TargetIsCells ==
  ASSUME NEW rows, Grid(rows), Len(rows) # 0
  PROVE  /\ Target(rows) \in Nat
         /\ \E j \in 1..Len(rows) : Target(rows) <= Len(rows[j])
<1>. DEFINE n == Len(rows)
            f == [i \in 1..n |-> Len(rows[i])]
            g == [i \in 1..n |-> Layout(rows).width[i]]
            L == {Len(rows[i]) : i \in 1..n}
            W == {Layout(rows).width[i] : i \in 1..n}
<1>1. n \in Nat /\ n # 0 /\ 1 \in 1..n /\ DOMAIN rows = 1..n BY DEF Grid
<1>2. f \in [1..n -> Nat] /\ g \in [1..n -> Nat] BY LayoutIsWide DEF Grid
<1>3. (\E b \in Nat : \A i \in 1..n : f[i] <= b) /\ (\E b \in Nat : \A i \in 1..n : g[i] <= b)
  <2>. HIDE DEF f, g, n
  <2>. QED BY <1>1, <1>2, BoundedValues
<1>4. /\ L \in SUBSET Nat /\ L # {} /\ \E b \in Nat : \A s \in L : s <= b
      /\ W \in SUBSET Nat /\ W # {} /\ \E b \in Nat : \A s \in W : s <= b
  BY <1>1, <1>2, <1>3
<1>5. Max(L) \in L /\ Max(W) \in W
  <2>. HIDE DEF L, W
  <2>. QED BY <1>4, MaxOfBounded
<1>6. Max(L) \in Nat /\ Max(W) \in Nat BY <1>4, <1>5
<1>7. PICK j \in 1..n : Max(L) = Len(rows[j]) BY <1>5
<1>8. Target(rows) = IF Max(L) < Max(W) THEN Max(L) ELSE Max(W)
  BY <1>1 DEF Target
<1>. HIDE DEF L, W
<1>. QED BY <1>6, <1>7, <1>8

\* Rows whose first cells have the same spans have the same sums there.
LEMMA SumsUpTo ==
  ASSUME NEW a, NEW b, Len(a) \in Nat, Len(b) \in Nat,
         NEW m \in Nat, m <= Len(a), m <= Len(b),
         \A i \in 1..m : Span(b[i].c) = Span(a[i].c)
  PROVE  Sums(b)[m] = Sums(a)[m]
<1>. DEFINE T == {l \in Nat : l <= m => Sums(b)[l] = Sums(a)[l]}
<1>1. 0 \in T BY SumsStep
<1>2. ASSUME NEW l \in Nat, l \in T PROVE l + 1 \in T
  <2>1. SUFFICES ASSUME l + 1 <= m PROVE Sums(b)[l + 1] = Sums(a)[l + 1] OBVIOUS
  <2>2. l + 1 \in 1..m /\ l + 1 \in 1..Len(a) /\ l + 1 \in 1..Len(b) /\ (l + 1) - 1 = l /\ Sums(b)[l] = Sums(a)[l]
    BY <1>2, <2>1
  <2>3. Sums(a)[l + 1] = Sums(a)[l] + Span(a[l + 1].c) BY <2>2, SumsStep
  <2>4. Sums(b)[l + 1] = Sums(b)[l] + Span(b[l + 1].c) BY <2>2, SumsStep
  <2>. QED BY <2>2, <2>3, <2>4
<1>3. T = Nat
  <2>1. T \in SUBSET Nat OBVIOUS
  <2>. HIDE DEF T
  <2>. QED BY <1>1, <1>2, <2>1, FromZeroOn
<1>. QED BY <1>3

LEMMA SumsAgree ==
  ASSUME NEW a, NEW b, Len(a) \in Nat, Len(b) = Len(a), NEW m \in 0..Len(a),
         \A i \in 1..m : Span(b[i].c) = Span(a[i].c)
  PROVE  Sums(b)[m] = Sums(a)[m]
<1>1. Len(b) \in Nat /\ m \in Nat /\ m <= Len(a) /\ m <= Len(b) OBVIOUS
<1>. QED BY <1>1, SumsUpTo

\* The sum of equal spans.
LEMMA SumOfEqualSpans ==
  ASSUME NEW cells, Len(cells) \in Nat, NEW k \in Nat,
         \A i \in 1..Len(cells) : Span(cells[i].c) = k
  PROVE  RowTotal(cells) = Len(cells) * k
<1>. DEFINE n == Len(cells)
            T == {l \in Nat : l <= n => Sums(cells)[l] = l * k}
<1>1. 0 \in T BY SumsStep
<1>2. ASSUME NEW l \in Nat, l \in T PROVE l + 1 \in T
  <2>1. SUFFICES ASSUME l + 1 <= n PROVE Sums(cells)[l + 1] = (l + 1) * k
    OBVIOUS
  <2>2. l + 1 \in 1..n /\ (l + 1) - 1 = l /\ Sums(cells)[l] = l * k
    BY <1>2, <2>1
  <2>3. Sums(cells)[l + 1] = Sums(cells)[l] + k BY <2>2, SumsStep
  <2>4. \A x, y \in Nat : (x + 1) * y = x * y + y OBVIOUS
  <2>. QED BY <2>2, <2>3, <2>4
<1>3. T = Nat
  <2>1. T \in SUBSET Nat OBVIOUS
  <2>. HIDE DEF T
  <2>. QED BY <1>1, <1>2, <2>1, FromZeroOn
<1>. QED BY <1>3 DEF RowTotal

\* Rows that differ in their last cell only differ by its span.
LEMMA LastCellCounts ==
  ASSUME NEW a, NEW b, Len(a) \in Nat \ {0}, Len(b) = Len(a),
         \A i \in 1..(Len(a) - 1) : b[i] = a[i]
  PROVE  \E x \in Nat : /\ RowTotal(a) = x + Span(a[Len(a)].c)
                        /\ RowTotal(b) = x + Span(b[Len(a)].c)
<1>1. Len(a) - 1 \in 0..Len(a) /\ Len(a) \in 1..Len(a) /\ Len(a) \in Nat OBVIOUS
<1>2. Sums(b)[Len(a) - 1] = Sums(a)[Len(a) - 1] BY <1>1, SumsAgree
<1>3. Sums(a)[Len(a) - 1] \in Nat /\ Sums(a)[Len(a)] = Sums(a)[Len(a) - 1] + Span(a[Len(a)].c)
  BY <1>1, SumsStep
<1>4. Sums(b)[Len(a)] = Sums(b)[Len(a) - 1] + Span(b[Len(a)].c)
  BY <1>1, SumsStep
<1>. QED BY <1>2, <1>3, <1>4 DEF RowTotal

\* A cell keeps everything but its columns.
LEMMA WithSpanFacts ==
  ASSUME NEW kids
  PROVE  \A cell \in TableCell(kids), v \in Nat \ {0} :
           /\ WithSpan(cell, v) \in TableCell(kids)
           /\ WithSpan(cell, v) = [cell EXCEPT !.c = WithSpan(cell, v).c]
           /\ WithSpan(cell, v).c \in 1..MaxSpan
           /\ WithSpan(cell, v).c = IF v > MaxSpan THEN MaxSpan ELSE v
  BY SpanAssumption DEF WithSpan, TableCell

\* The last cell of a row grows by what is missing, or as far as spans go.
LEMMA LastGrows ==
  ASSUME NEW kids, NEW n \in Nat \ {0}, NEW cells, NEW new, Len(cells) = n, Len(new) = n,
         cells[n] \in TableCell(kids), NEW d \in Nat \ {0},
         new[n] = WithSpan(cells[n], Span(cells[n].c) + d),
         \A i \in 1..(n - 1) : new[i] = cells[i]
  PROVE  /\ RowTotal(cells) \in Nat /\ RowTotal(new) \in Nat
         /\ RowTotal(new) <= RowTotal(cells) + d
         /\ cells[n].c \in 1..MaxSpan =>
              new[n] = cells[n] \/ RowTotal(new) > RowTotal(cells)
<1>1. Span(cells[n].c) \in 1..MaxSpan /\ Span(cells[n].c) + d \in Nat \ {0} /\ MaxSpan \in Nat
  BY SpanFacts, SpanAssumption
<1>2. /\ new[n] = [cells[n] EXCEPT !.c = new[n].c]
      /\ new[n].c \in 1..MaxSpan
      /\ new[n].c = IF Span(cells[n].c) + d > MaxSpan THEN MaxSpan ELSE Span(cells[n].c) + d
  <2>. DEFINE cell == cells[n]
              v == Span(cells[n].c) + d
  <2>1. cell \in TableCell(kids) /\ v \in Nat \ {0} /\ new[n] = WithSpan(cell, v)
    BY <1>1
  <2>. HIDE DEF cell, v
  <2>2. /\ WithSpan(cell, v) = [cell EXCEPT !.c = WithSpan(cell, v).c]
        /\ WithSpan(cell, v).c \in 1..MaxSpan
        /\ WithSpan(cell, v).c = IF v > MaxSpan THEN MaxSpan ELSE v
    BY <2>1, SpanAssumption DEF WithSpan, TableCell
  <2>. QED BY <2>1, <2>2 DEF cell, v
<1>3. PICK x \in Nat : RowTotal(cells) = x + Span(cells[n].c) /\ RowTotal(new) = x + Span(new[n].c)
  BY LastCellCounts
<1>4. Span(new[n].c) = new[n].c BY <1>2, SpanFacts
<1>5. RowTotal(new) <= RowTotal(cells) + d BY <1>1, <1>2, <1>3, <1>4
<1>6. ASSUME cells[n].c \in 1..MaxSpan PROVE new[n] = cells[n] \/ RowTotal(new) > RowTotal(cells)
  <2>1. Span(cells[n].c) = cells[n].c BY <1>6, SpanFacts
  <2>2. CASE new[n].c = cells[n].c BY <1>2, <2>2 DEF TableCell
  <2>3. CASE new[n].c > cells[n].c BY <1>2, <1>3, <1>4, <1>6, <2>1, <2>3
  <2>. QED BY <1>1, <1>2, <1>6, <2>1, <2>2, <2>3
<1>. QED BY <1>1, <1>2, <1>3, <1>4, <1>5, <1>6

\* A row of n single columns that gets a share of the target each.
LEMMA ShareIsWhole ==
  \A n, t \in Nat : n > 0 /\ t % n = 0 /\ t > n => t \div n \in Nat /\ t \div n > 1 /\ n * (t \div n) = t
<1>1. SUFFICES ASSUME NEW n \in Nat, NEW t \in Nat, n > 0, t % n = 0, t > n
               PROVE  t \div n \in Nat /\ t \div n > 1 /\ n * (t \div n) = t
  OBVIOUS
<1>2. t \div n \in Nat /\ t = n * (t \div n) + (t % n) BY <1>1
<1>3. n * (t \div n) = t BY <1>1, <1>2
<1>4. t \div n # 0 /\ t \div n # 1
  <2>1. \A x \in Nat : x * 0 = 0 /\ x * 1 = x OBVIOUS
  <2>. QED BY <1>1, <1>3, <2>1
<1>. QED BY <1>2, <1>3, <1>4

\* The share is at least 2, unless spans do not go that far.
LEMMA ShareFits ==
  ASSUME NEW q \in Nat, q > 1
  PROVE  LET k == IF q > MaxSpan THEN MaxSpan ELSE q
         IN k \in 1..MaxSpan /\ k <= q /\ (k > 1 \/ MaxSpan = 1)
  BY SpanAssumption

\* Cells that share the target fill it at most, and take more columns than before.
LEMMA EvenGrows ==
  ASSUME NEW n \in Nat \ {0}, NEW cells, NEW new, Len(cells) = n, Len(new) = n,
         \A i \in 1..n : Span(cells[i].c) = 1,
         NEW q \in Nat, NEW k \in 1..MaxSpan, k <= q, k > 1 \/ MaxSpan = 1,
         \A i \in 1..n : new[i].c = k
  PROVE  /\ RowTotal(cells) = n /\ RowTotal(new) \in Nat
         /\ RowTotal(new) <= n * q
         /\ RowTotal(new) > RowTotal(cells) \/ MaxSpan = 1
<1>3. MaxSpan \in Nat /\ k \in Nat BY SpanAssumption
<1>4. \A i \in 1..n : Span(new[i].c) = k BY SpanFacts
<1>5. RowTotal(new) = n * k BY <1>3, <1>4, SumOfEqualSpans
<1>6. RowTotal(cells) = n
  <2>1. RowTotal(cells) = n * 1 BY SumOfEqualSpans
  <2>. QED BY <2>1
<1>7. /\ \A m, p, w \in Nat : p <= w => m * p <= m * w
      /\ \A m, p \in Nat : m > 0 /\ p > 1 => m * p > m
      /\ \A m, p \in Nat : m * p \in Nat
  <2>1. \A m, p \in Nat : m * p \in Nat OBVIOUS
  <2>2. \A m, p, e \in Nat : m * (p + e) = m * p + m * e OBVIOUS
  <2>3. \A m, p, w \in Nat : p <= w => m * p <= m * w
    <3>1. SUFFICES ASSUME NEW m \in Nat, NEW p \in Nat, NEW w \in Nat, p <= w
                   PROVE  m * p <= m * w
      OBVIOUS
    <3>2. w - p \in Nat /\ w = p + (w - p) BY <3>1
    <3>3. m * w = m * p + m * (w - p) BY <2>2, <3>2
    <3>. QED BY <2>1, <3>2, <3>3
  <2>4. \A m, p \in Nat : m > 0 /\ p > 1 => m * p > m
    <3>1. SUFFICES ASSUME NEW m \in Nat, NEW p \in Nat, m > 0, p > 1 PROVE m * p > m
      OBVIOUS
    <3>2. m * 2 <= m * p /\ m * p \in Nat /\ m * 2 = m + m BY <2>1, <2>3, <3>1
    <3>. QED BY <3>1, <3>2
  <2>. QED BY <2>1, <2>3, <2>4
<1>8. RowTotal(new) <= n * q /\ RowTotal(new) \in Nat BY <1>3, <1>5, <1>7
<1>9. k > 1 => RowTotal(new) > RowTotal(cells) BY <1>3, <1>5, <1>6, <1>7
<1>. QED BY <1>3, <1>4, <1>6, <1>8, <1>9

\* One row: its cells keep everything but their columns, and where it grows it
\* grows to the target at most.
LEMMA RowIsWidened ==
  ASSUME NEW kids, NEW cells \in Seq(TableCell(kids)), NEW width \in Nat,
         RowTotal(cells) \in Nat, RowTotal(cells) <= width, NEW free, NEW target \in Nat,
         NEW new, new = Widened(cells, width, free, target)
  PROVE  /\ new \in Seq(TableCell(kids))
         /\ OnlySpans(cells, new)
         /\ RowTotal(new) \in Nat
         /\ RowTotal(new) <= RowTotal(cells) \/ RowTotal(new) <= target
         /\ SaneCells(cells) => /\ SaneCells(new)
                                /\ new = cells \/ RowTotal(new) > RowTotal(cells)
<1>. DEFINE n == Len(cells)
            d == target - width
            even == n > 1 /\ free /\ target % n = 0 /\ \A i \in 1..n : Span(cells[i].c) = 1
<1>1. n \in Nat /\ \A i \in 1..n : cells[i] \in TableCell(kids) OBVIOUS
<1>2. \A cell \in TableCell(kids) : cell = [cell EXCEPT !.c = cell.c]
  BY DEF TableCell
<1>3. CASE n = 0 \/ width >= target
  <2>1. new = cells BY <1>3 DEF Widened
  <2>. QED BY <1>1, <1>2, <2>1 DEF OnlySpans
<1>4. CASE n # 0 /\ width < target /\ ~even
  <2>1. n \in Nat \ {0} /\ n \in 1..n /\ d \in Nat \ {0} BY <1>1, <1>4
  <2>2. new = [cells EXCEPT ![n] = WithSpan(@, Span(@.c) + target - width)]
    BY <1>4 DEF Widened
  <2>3. \A x \in Nat : x + target - width = x + d OBVIOUS
  <2>4. new = [cells EXCEPT ![n] = WithSpan(cells[n], Span(cells[n].c) + d)]
    BY <2>2, <2>3, SpanFacts
  <2>5. Span(cells[n].c) + d \in Nat \ {0} BY <2>1, SpanFacts
  <2>6. WithSpan(cells[n], Span(cells[n].c) + d) \in TableCell(kids)
    <3>. DEFINE v == Span(cells[n].c) + d
    <3>. HIDE DEF v
    <3>. QED BY <1>1, <2>1, <2>5, WithSpanFacts DEF v
  <2>7. /\ new \in Seq(TableCell(kids)) /\ Len(new) = n
        /\ new[n] = WithSpan(cells[n], Span(cells[n].c) + d)
        /\ \A i \in 1..n : i # n => new[i] = cells[i]
    <3>. DEFINE w == WithSpan(cells[n], Span(cells[n].c) + d)
    <3>. HIDE DEF w
    <3>. QED BY <2>1, <2>4, <2>6 DEF w
  <2>8. \A i \in 1..(n - 1) : new[i] = cells[i]
    <3>1. \A i \in 1..(n - 1) : i \in 1..n /\ i # n BY <1>1
    <3>. QED BY <2>7, <3>1
  <2>9. /\ RowTotal(new) \in Nat
        /\ RowTotal(new) <= RowTotal(cells) + d
        /\ cells[n].c \in 1..MaxSpan => new[n] = cells[n] \/ RowTotal(new) > RowTotal(cells)
    BY <1>1, <2>1, <2>7, <2>8, LastGrows, SMTT(30)
  <2>10. new[n].c \in 1..MaxSpan /\ new[n] = [cells[n] EXCEPT !.c = new[n].c]
    <3>. DEFINE v == Span(cells[n].c) + d
                cell == cells[n]
    <3>1. v \in Nat \ {0} /\ cell \in TableCell(kids) /\ new[n] = WithSpan(cell, v)
      BY <1>1, <2>1, <2>5, <2>7
    <3>. HIDE DEF v, cell
    <3>2. new[n].c \in 1..MaxSpan /\ new[n] = [cell EXCEPT !.c = new[n].c]
      BY <3>1, SpanAssumption DEF WithSpan, TableCell
    <3>. QED BY <3>2 DEF cell
  <2>11. \A i \in 1..n : new[i] = [cells[i] EXCEPT !.c = new[i].c]
    <3>1. SUFFICES ASSUME NEW i \in 1..n PROVE new[i] = [cells[i] EXCEPT !.c = new[i].c]
      OBVIOUS
    <3>2. CASE i = n BY <2>10, <3>2
    <3>3. CASE i # n
      <4>1. new[i] = cells[i] BY <2>7, <3>3
      <4>. QED BY <1>1, <1>2, <4>1
    <3>. QED BY <3>2, <3>3
  <2>12. ASSUME SaneCells(cells)
         PROVE  SaneCells(new) /\ (new = cells \/ RowTotal(new) > RowTotal(cells))
    <3>1. \A i \in 1..n : new[i].c \in 1..MaxSpan
      BY <2>7, <2>10, <2>12 DEF SaneCells
    <3>2. new[n] = cells[n] => new = cells
      <4>1. SUFFICES ASSUME new[n] = cells[n] PROVE new = cells OBVIOUS
      <4>2. \A i \in 1..n : new[i] = cells[i] BY <2>7, <4>1
      <4>3. new \in Seq(TableCell(kids)) /\ cells \in Seq(TableCell(kids)) /\ Len(new) = Len(cells)
        BY <2>7
      <4>. HIDE <2>4
      <4>. QED BY <4>2, <4>3
    <3>. QED BY <2>1, <2>7, <2>9, <2>12, <3>1, <3>2 DEF SaneCells
  <2>. QED BY <1>4, <2>7, <2>9, <2>11, <2>12 DEF OnlySpans
<1>5. CASE n # 0 /\ width < target /\ even
  <2>. DEFINE share == target \div n
  <2>1. n \in Nat \ {0} /\ n > 1 /\ target % n = 0 /\ \A i \in 1..n : Span(cells[i].c) = 1
    BY <1>1, <1>5
  <2>2. new = [i \in 1..n |-> WithSpan(cells[i], share)] BY <1>5 DEF Widened
  <2>3. RowTotal(cells) = n
    <3>1. RowTotal(cells) = n * 1 BY <2>1, SumOfEqualSpans
    <3>. QED BY <2>1, <3>1
  <2>4. target > n BY <1>5, <2>3
  <2>5. share \in Nat \ {0} BY <2>1, <2>4, ShareIsWhole
  <2>. HIDE DEF share
  <2>6. \A i \in 1..n : /\ WithSpan(cells[i], share) \in TableCell(kids)
                        /\ WithSpan(cells[i], share) = [cells[i] EXCEPT !.c = WithSpan(cells[i], share).c]
                        /\ WithSpan(cells[i], share).c \in 1..MaxSpan
                        /\ WithSpan(cells[i], share).c = IF share > MaxSpan THEN MaxSpan ELSE share
    <3>1. SUFFICES ASSUME NEW i \in 1..n
                   PROVE  LET w == WithSpan(cells[i], share)
                          IN  /\ w \in TableCell(kids) /\ w = [cells[i] EXCEPT !.c = w.c]
                              /\ w.c \in 1..MaxSpan /\ w.c = IF share > MaxSpan THEN MaxSpan ELSE share
      OBVIOUS
    <3>. DEFINE cell == cells[i]
    <3>2. cell \in TableCell(kids) BY <1>1
    <3>. HIDE DEF cell
    <3>3. LET w == WithSpan(cell, share)
          IN  /\ w \in TableCell(kids) /\ w = [cell EXCEPT !.c = w.c]
              /\ w.c \in 1..MaxSpan /\ w.c = IF share > MaxSpan THEN MaxSpan ELSE share
      BY <2>5, <3>2, WithSpanFacts
    <3>. QED BY <3>3 DEF cell
  <2>7. new \in Seq(TableCell(kids)) /\ Len(new) = n
    <3>1. new \in [1..n -> TableCell(kids)] BY <2>2, <2>6
    <3>. QED BY <1>1, <3>1
  <2>8. \A i \in 1..n : /\ new[i].c = IF share > MaxSpan THEN MaxSpan ELSE share
                        /\ new[i] = [cells[i] EXCEPT !.c = new[i].c]
                        /\ new[i].c \in 1..MaxSpan
    BY <2>2, <2>6
  <2>9. /\ RowTotal(new) \in Nat /\ RowTotal(new) <= target
        /\ RowTotal(new) > RowTotal(cells) \/ MaxSpan = 1
    <3>. DEFINE k == IF share > MaxSpan THEN MaxSpan ELSE share
    <3>1. share \in Nat /\ share > 1 /\ n * share = target
      BY <2>1, <2>4, ShareIsWhole DEF share
    <3>2. k \in 1..MaxSpan /\ k <= share /\ (k > 1 \/ MaxSpan = 1)
      BY <3>1, ShareFits
    <3>3. \A i \in 1..n : new[i].c = k BY <2>8
    <3>. HIDE DEF k
    <3>4. /\ RowTotal(new) \in Nat /\ RowTotal(new) <= n * share
          /\ RowTotal(new) > RowTotal(cells) \/ MaxSpan = 1
      BY <2>1, <2>7, <3>1, <3>2, <3>3, EvenGrows
    <3>. QED BY <3>1, <3>4
  <2>10. ASSUME SaneCells(cells), MaxSpan = 1 PROVE new = cells
    <3>0. \A x, y \in 1..MaxSpan : x = y BY <2>10
    <3>1. \A i \in 1..n : new[i].c = cells[i].c
      BY <2>8, <2>10, <3>0 DEF SaneCells
    <3>2. \A i \in 1..n : new[i] = cells[i] BY <1>1, <1>2, <2>8, <3>1
    <3>. QED BY <2>7, <3>2
  <2>. QED BY <2>7, <2>8, <2>9, <2>10 DEF OnlySpans, SaneCells
<1>. QED BY <1>1, <1>3, <1>4, <1>5

-----------------------------------------------------------------------------
(* Tables.                                                                 *)

\* A function on 1..n is a sequence of n elements.
LEMMA SeqOfFunction ==
  ASSUME NEW S, NEW n \in Nat, NEW f \in [1..n -> S]
  PROVE  f \in Seq(S) /\ Len(f) = n
  OBVIOUS

\* A pass over a table keeps its rows and their cells, and widens no row beyond
\* the number of cells that some row has.
LEMMA TableIsWidened ==
  ASSUME NEW kids, NEW rows \in Seq(Seq(TableCell(kids)))
  PROVE  LET new == WidenedRows(rows)
         IN  /\ new \in Seq(Seq(TableCell(kids)))
             /\ Len(new) = Len(rows)
             /\ \A i \in 1..Len(rows) :
                  /\ OnlySpans(rows[i], new[i])
                  /\ RowTotal(rows[i]) \in Nat /\ RowTotal(new[i]) \in Nat
                  /\ \/ RowTotal(new[i]) <= RowTotal(rows[i])
                     \/ \E j \in 1..Len(rows) : RowTotal(new[i]) <= Len(rows[j])
                  /\ SaneCells(rows[i]) =>
                       /\ SaneCells(new[i])
                       /\ new[i] = rows[i] \/ RowTotal(new[i]) > RowTotal(rows[i])
<1>. DEFINE n == Len(rows)
            new == WidenedRows(rows)
            l == Layout(rows)
            t == Target(rows)
            row(i) == Widened(rows[i], l.width[i], l.free[i], t)
<1>1. n \in Nat /\ Grid(rows) BY DEF Grid
<1>2. \A i \in 1..n : rows[i] \in Seq(TableCell(kids)) OBVIOUS
<1>3. \A i \in 1..n : /\ RowTotal(rows[i]) \in Nat
                      /\ l.width[i] \in Nat
                      /\ RowTotal(rows[i]) <= l.width[i]
  BY <1>1, LayoutIsWide
<1>4. new = rows \/ new = [i \in 1..n |-> row(i)] BY <1>1 DEF WidenedRows, Grid
<1>5. CASE new = rows
  <2>1. \A i \in 1..n : OnlySpans(rows[i], rows[i])
    <3>1. \A cell \in TableCell(kids) : cell = [cell EXCEPT !.c = cell.c]
      BY DEF TableCell
    <3>. QED BY <1>2, <3>1, SMTT(30) DEF OnlySpans
  <2>2. \A i \in 1..n : RowTotal(rows[i]) <= RowTotal(rows[i]) BY <1>3
  <2>. HIDE DEF new
  <2>. QED BY <1>3, <1>5, <2>1, <2>2 DEF new
<1>6. CASE new = [i \in 1..n |-> row(i)] /\ n # 0
  <2>1. t \in Nat /\ \E j \in 1..n : t <= Len(rows[j])
    BY <1>1, <1>6, TargetIsCells
  <2>. HIDE DEF l, t
  <2>2. \A i \in 1..n :
          /\ row(i) \in Seq(TableCell(kids))
          /\ OnlySpans(rows[i], row(i))
          /\ RowTotal(row(i)) \in Nat
          /\ RowTotal(row(i)) <= RowTotal(rows[i]) \/ RowTotal(row(i)) <= t
          /\ SaneCells(rows[i]) => /\ SaneCells(row(i))
                                   /\ row(i) = rows[i] \/ RowTotal(row(i)) > RowTotal(rows[i])
    <3>1. SUFFICES ASSUME NEW i \in 1..n
                   PROVE  /\ row(i) \in Seq(TableCell(kids))
                          /\ OnlySpans(rows[i], row(i))
                          /\ RowTotal(row(i)) \in Nat
                          /\ RowTotal(row(i)) <= RowTotal(rows[i]) \/ RowTotal(row(i)) <= t
                          /\ SaneCells(rows[i]) =>
                               /\ SaneCells(row(i))
                               /\ row(i) = rows[i] \/ RowTotal(row(i)) > RowTotal(rows[i])
      OBVIOUS
    <3>. DEFINE cells == rows[i]
                width == l.width[i]
    <3>2. /\ cells \in Seq(TableCell(kids)) /\ width \in Nat
          /\ RowTotal(cells) \in Nat /\ RowTotal(cells) <= width
      BY <1>2, <1>3
    <3>. HIDE DEF cells, width
    <3>3. LET w == Widened(cells, width, l.free[i], t)
          IN  /\ w \in Seq(TableCell(kids))
              /\ OnlySpans(cells, w)
              /\ RowTotal(w) \in Nat
              /\ RowTotal(w) <= RowTotal(cells) \/ RowTotal(w) <= t
              /\ SaneCells(cells) => SaneCells(w) /\ (w = cells \/ RowTotal(w) > RowTotal(cells))
      BY <2>1, <3>2, RowIsWidened
    <3>. QED BY <3>3 DEF cells, width
  <2>. HIDE DEF row, new
  <2>3. new \in Seq(Seq(TableCell(kids))) /\ Len(new) = n
    <3>1. new \in [1..n -> Seq(TableCell(kids))] BY <1>6, <2>2
    <3>. DEFINE S == Seq(TableCell(kids))
    <3>. HIDE DEF S
    <3>2. new \in [1..n -> S] => new \in Seq(S) /\ Len(new) = n
      BY <1>1, SeqOfFunction
    <3>. QED BY <3>1, <3>2 DEF S
  <2>4. \A i \in 1..n : new[i] = row(i) BY <1>6
  <2>5. \A x \in Nat : x <= t => \E j \in 1..n : x <= Len(rows[j]) BY <1>2, <2>1
  <2>. QED BY <1>3, <2>2, <2>3, <2>4, <2>5 DEF new
<1>7. CASE new = [i \in 1..n |-> row(i)] /\ n = 0
  <2>1. new = rows BY <1>7
  <2>. QED BY <1>5, <2>1
<1>. QED BY <1>4, <1>5, <1>6, <1>7

\* No pass lets a table outgrow the most columns or cells one of its rows has:
\* what held before holds after, for as many passes as there are (pdf_fixer.py:14915).
THEOREM WideningIsBounded ==
  ASSUME NEW kids, NEW rows \in Seq(Seq(TableCell(kids))), NEW b \in Nat, FitsIn(rows, b)
  PROVE  FitsIn(WidenedRows(rows), b)
<1>. DEFINE new == WidenedRows(rows)
<1>1. /\ Len(new) = Len(rows)
      /\ \A i \in 1..Len(rows) :
           /\ OnlySpans(rows[i], new[i])
           /\ RowTotal(rows[i]) \in Nat /\ RowTotal(new[i]) \in Nat
           /\ \/ RowTotal(new[i]) <= RowTotal(rows[i])
              \/ \E j \in 1..Len(rows) : RowTotal(new[i]) <= Len(rows[j])
  BY TableIsWidened
<1>. HIDE DEF new
<1>2. ASSUME NEW i \in 1..Len(rows) PROVE RowTotal(new[i]) <= b /\ Len(new[i]) <= b
  <2>1. Len(new[i]) = Len(rows[i]) BY <1>1 DEF OnlySpans
  <2>2. CASE RowTotal(new[i]) <= RowTotal(rows[i])
    BY <1>1, <2>1, <2>2 DEF FitsIn
  <2>3. ASSUME NEW j \in 1..Len(rows), RowTotal(new[i]) <= Len(rows[j])
        PROVE  RowTotal(new[i]) <= b
    <3>1. Len(rows[j]) \in Nat /\ RowTotal(new[i]) \in Nat /\ Len(rows[j]) <= b
      BY <1>1 DEF FitsIn
    <3>. QED BY <2>3, <3>1
  <2>. QED BY <1>1, <2>1, <2>2, <2>3 DEF FitsIn
<1>. QED BY <1>1, <1>2 DEF FitsIn, new

\* What holds of it from the start on.
LEMMA FixedAgainFits ==
  ASSUME NEW kids, NEW t, FixedAgain(kids, t), NEW b \in Nat, FitsIn(t[0], b), NEW k \in Nat
  PROVE  Len(t[k]) = Len(t[0]) /\ SaneTable(t[k]) /\ FitsIn(t[k], b)
<1>. DEFINE T == {m \in Nat : Len(t[m]) = Len(t[0]) /\ SaneTable(t[m]) /\ FitsIn(t[m], b)}
<1>1. 0 \in T BY DEF FixedAgain
<1>2. ASSUME NEW m \in Nat, m \in T PROVE m + 1 \in T
  <2>. DEFINE rows == t[m]
              new == WidenedRows(rows)
  <2>1. /\ rows \in Seq(Seq(TableCell(kids))) /\ t[m + 1] = new
        /\ Len(rows) = Len(t[0]) /\ SaneTable(rows) /\ FitsIn(rows, b)
    BY <1>2 DEF FixedAgain
  <2>. HIDE DEF rows
  <2>2. FitsIn(new, b) BY <2>1, WideningIsBounded
  <2>3. Len(new) = Len(rows) /\ \A i \in 1..Len(rows) : SaneCells(rows[i]) => SaneCells(new[i])
    BY <2>1, TableIsWidened
  <2>. HIDE DEF new
  <2>. QED BY <2>1, <2>2, <2>3 DEF SaneTable
<1>3. T = Nat
  <2>1. T \in SUBSET Nat OBVIOUS
  <2>. HIDE DEF T
  <2>. QED BY <1>1, <1>2, <2>1, FromZeroOn
<1>. QED BY <1>3

\* A row only ever grows, and never past the bound: some pass is its last.
LEMMA RowSettles ==
  ASSUME NEW kids, NEW t, FixedAgain(kids, t), NEW b \in Nat, FitsIn(t[0], b),
         NEW i \in 1..Len(t[0])
  PROVE  \E last \in Nat : Still(t, i, last)
<1>. DEFINE total(k) == RowTotal(t[k][i])
            W == {total(k) : k \in Nat}
<1>1. \A k \in Nat : /\ total(k) \in Nat /\ total(k) <= b
                     /\ t[k + 1][i] = t[k][i] \/ total(k + 1) > total(k)
  <2>1. SUFFICES ASSUME NEW k \in Nat
                 PROVE  /\ total(k) \in Nat /\ total(k) <= b
                        /\ t[k + 1][i] = t[k][i] \/ total(k + 1) > total(k)
    OBVIOUS
  <2>2. Len(t[k]) = Len(t[0]) /\ SaneTable(t[k]) /\ FitsIn(t[k], b)
    BY FixedAgainFits
  <2>. DEFINE rows == t[k]
  <2>3. rows \in Seq(Seq(TableCell(kids))) /\ t[k + 1] = WidenedRows(rows)
    BY DEF FixedAgain
  <2>. HIDE DEF rows
  <2>4. \A j \in 1..Len(rows) :
          /\ RowTotal(rows[j]) \in Nat
          /\ SaneCells(rows[j]) =>
               \/ WidenedRows(rows)[j] = rows[j]
               \/ RowTotal(WidenedRows(rows)[j]) > RowTotal(rows[j])
    BY <2>3, TableIsWidened
  <2>. QED BY <2>2, <2>3, <2>4 DEF SaneTable, FitsIn, rows
<1>. HIDE DEF total
<1>2. Max(W) \in W /\ \A s \in W : s <= Max(W)
  <2>1. W \in SUBSET Nat /\ W # {} /\ \A s \in W : s <= b BY <1>1
  <2>. HIDE DEF W
  <2>. QED BY <2>1, MaxOfBounded
<1>3. PICK last \in Nat : total(last) = Max(W) BY <1>2
<1>4. \A k \in Nat : total(k) <= total(last) BY <1>2, <1>3
<1>. HIDE DEF W
<1>5. \A k \in Nat : total(k) = total(last) => t[k + 1][i] = t[k][i]
  <2>1. SUFFICES ASSUME NEW k \in Nat, total(k) = total(last), t[k + 1][i] # t[k][i] PROVE FALSE
    OBVIOUS
  <2>2. total(k + 1) \in Nat /\ total(last) \in Nat
    <3>1. \A m \in Nat : total(m) \in Nat BY <1>1
    <3>2. k + 1 \in Nat OBVIOUS
    <3>. HIDE <1>1
    <3>. QED BY <3>1, <3>2
  <2>3. total(k + 1) > total(last) /\ total(k + 1) <= total(last)
    BY <1>1, <1>4, <2>1, <2>2
  <2>. QED BY <2>2, <2>3
<1>6. \A m \in Nat : total(last + m) = total(last)
  <2>. DEFINE T == {m \in Nat : total(last + m) = total(last)}
  <2>1. 0 \in T OBVIOUS
  <2>2. ASSUME NEW m \in Nat, m \in T PROVE m + 1 \in T
    <3>1. last + m \in Nat /\ last + (m + 1) = (last + m) + 1 OBVIOUS
    <3>2. t[(last + m) + 1][i] = t[last + m][i] BY <1>5, <2>2, <3>1
    <3>3. total((last + m) + 1) = total(last + m) BY <3>2 DEF total
    <3>. QED BY <2>2, <3>1, <3>3
  <2>3. T = Nat
    <3>1. T \in SUBSET Nat OBVIOUS
    <3>. HIDE DEF T
    <3>. QED BY <2>1, <2>2, <3>1, FromZeroOn
  <2>. QED BY <2>3
<1>7. \A k \in Nat : k >= last => t[k + 1][i] = t[k][i]
  <2>1. SUFFICES ASSUME NEW k \in Nat, k >= last PROVE t[k + 1][i] = t[k][i]
    OBVIOUS
  <2>2. k - last \in Nat /\ last + (k - last) = k BY <2>1
  <2>3. total(k) = total(last) BY <1>6, <2>2
  <2>. QED BY <1>5, <2>3
<1>. QED BY <1>7 DEF Still

\* Fixing a table again and again settles: from some pass on nothing changes any
\* more, so no span can grow without end (pdf_fixer.py:14712, 14915).
THEOREM WideningSettles ==
  ASSUME NEW kids, NEW t, FixedAgain(kids, t)
  PROVE  \E last \in Nat : \A k \in Nat : k >= last => t[k] = t[last]
<1>. DEFINE n == Len(t[0])
<1>1. t[0] \in Seq(Seq(TableCell(kids))) /\ n \in Nat BY DEF FixedAgain
<1>2. PICK b \in Nat : FitsIn(t[0], b)
  <2>. DEFINE f == [i \in 1..n |-> RowTotal(t[0][i])]
              g == [i \in 1..n |-> Len(t[0][i])]
  <2>1. f \in [1..n -> Nat] BY <1>1, TableIsWidened
  <2>2. g \in [1..n -> Nat] BY <1>1
  <2>3. (\E x \in Nat : \A i \in 1..n : f[i] <= x) /\ (\E x \in Nat : \A i \in 1..n : g[i] <= x)
    <3>. HIDE DEF f, g, n
    <3>. QED BY <1>1, <2>1, <2>2, BoundedValues
  <2>4. PICK x \in Nat, y \in Nat : \A i \in 1..n : f[i] <= x /\ g[i] <= y
    BY <2>3
  <2>5. x + y \in Nat /\ \A i \in 1..n : f[i] <= x + y /\ g[i] <= x + y
    <3>. HIDE DEF f, g
    <3>. QED BY <2>1, <2>2, <2>4, SMTT(30)
  <2>6. FitsIn(t[0], x + y) BY <2>5 DEF FitsIn
  <2>. QED BY <2>5, <2>6
<1>3. \A i \in 1..n : \E last \in Nat : Still(t, i, last) BY <1>2, RowSettles
<1>. DEFINE lasts == [i \in 1..n |-> CHOOSE last \in Nat : Still(t, i, last)]
<1>4. lasts \in [1..n -> Nat] /\ \A i \in 1..n : Still(t, i, lasts[i]) BY <1>3
<1>5. PICK last \in Nat : \A i \in 1..n : lasts[i] <= last
  <2>. HIDE DEF lasts, n
  <2>. QED BY <1>1, <1>4, BoundedValues
<1>6. \A k \in Nat : k >= last => t[k + 1] = t[k]
  <2>1. SUFFICES ASSUME NEW k \in Nat, k >= last PROVE t[k + 1] = t[k] OBVIOUS
  <2>. HIDE DEF lasts
  <2>2. \A i \in 1..n : t[k + 1][i] = t[k][i]
    <3>1. \A i \in 1..n : lasts[i] \in Nat /\ k >= lasts[i] BY <1>4, <1>5, <2>1
    <3>. QED BY <1>4, <2>1, <3>1 DEF Still
  <2>3. Len(t[k + 1]) = n /\ Len(t[k]) = n BY <1>2, FixedAgainFits
  <2>. DEFINE S == Seq(TableCell(kids))
  <2>4. t[k + 1] \in Seq(S) /\ t[k] \in Seq(S)
    <3>1. t \in [Nat -> Seq(S)] BY DEF FixedAgain
    <3>2. k + 1 \in Nat OBVIOUS
    <3>. HIDE DEF S
    <3>. QED BY <3>1, <3>2
  <2>. HIDE DEF S
  <2>. QED BY <2>2, <2>3, <2>4
<1>7. \A m \in Nat : t[last + m] = t[last]
  <2>. DEFINE T == {m \in Nat : t[last + m] = t[last]}
  <2>1. 0 \in T OBVIOUS
  <2>2. ASSUME NEW m \in Nat, m \in T PROVE m + 1 \in T
    <3>1. last + m \in Nat /\ last + m >= last /\ last + (m + 1) = (last + m) + 1
      OBVIOUS
    <3>2. t[(last + m) + 1] = t[last + m] BY <1>6, <3>1
    <3>. QED BY <2>2, <3>1, <3>2
  <2>3. T = Nat
    <3>1. T \in SUBSET Nat OBVIOUS
    <3>. HIDE DEF T
    <3>. QED BY <2>1, <2>2, <3>1, FromZeroOn
  <2>. QED BY <2>3
<1>8. \A k \in Nat : k >= last => k - last \in Nat /\ last + (k - last) = k
  OBVIOUS
<1>9. \A k \in Nat : k >= last => t[k] = t[last]
  <2>. HIDE DEF n
  <2>. QED BY <1>7, <1>8
<1>. QED BY <1>9

-----------------------------------------------------------------------------
(* Sequences put together.                                                 *)

LEMMA JoinedSoFar ==
  ASSUME NEW S, NEW ss \in Seq(Seq(S)), NEW f, Adds(f, ss), NEW i \in 0..Len(ss)
  PROVE  f[i] \in Seq(S)
<1>. DEFINE n == Len(ss)
            T == {m \in Nat : m <= n => f[m] \in Seq(S)}
<1>1. 0 \in T BY EmptySeq DEF Adds
<1>2. ASSUME NEW m \in Nat, m \in T PROVE m + 1 \in T
  <2>1. SUFFICES ASSUME m + 1 <= n PROVE f[m + 1] \in Seq(S) OBVIOUS
  <2>2. m + 1 \in 1..n /\ (m + 1) - 1 = m /\ m <= n BY <2>1
  <2>3. f[m + 1] = f[m] \o ss[m + 1] BY <2>2 DEF Adds
  <2>4. f[m] \in Seq(S) /\ ss[m + 1] \in Seq(S) BY <1>2, <2>2
  <2>. QED BY <2>3, <2>4, ConcatProperties
<1>3. T = Nat
  <2>1. T \in SUBSET Nat OBVIOUS
  <2>. HIDE DEF T
  <2>. QED BY <1>1, <1>2, <2>1, FromZeroOn
<1>. QED BY <1>3

LEMMA SomethingAdds ==
  ASSUME NEW S, NEW ss \in Seq(Seq(S))
  PROVE  \E f : DOMAIN f = 0..Len(ss) /\ Adds(f, ss)
<1>. DEFINE n == Len(ss)
            Good(m, f) == /\ DOMAIN f = 0..m /\ f[0] = <<>>
                          /\ \A i \in 1..m : f[i] = f[i - 1] \o ss[i]
            T == {m \in Nat : \E f : Good(m, f)}
<1>1. 0 \in T
  <2>1. Good(0, [i \in 0..0 |-> <<>>]) OBVIOUS
  <2>. HIDE DEF Good
  <2>. QED BY <2>1
<1>2. ASSUME NEW m \in Nat, NEW f, Good(m, f) PROVE \E g : Good(m + 1, g)
  <2>. DEFINE g == [i \in 0..(m + 1) |-> IF i = m + 1 THEN f[m] \o ss[m + 1] ELSE f[i]]
  <2>1. DOMAIN g = 0..(m + 1) /\ g[0] = <<>> BY <1>2
  <2>2. m + 1 \in 0..(m + 1) /\ m \in 0..(m + 1) /\ m # m + 1 /\ (m + 1) - 1 = m
    OBVIOUS
  <2>3. g[m + 1] = g[m] \o ss[m + 1] BY <2>2
  <2>4. ASSUME NEW i \in 1..m PROVE g[i] = g[i - 1] \o ss[i]
    <3>1. i \in 0..(m + 1) /\ i - 1 \in 0..(m + 1) /\ i # m + 1 /\ i - 1 # m + 1
      OBVIOUS
    <3>2. g[i] = f[i] /\ g[i - 1] = f[i - 1] BY <3>1
    <3>. QED BY <1>2, <3>2
  <2>5. \A i \in 1..(m + 1) : i = m + 1 \/ i \in 1..m OBVIOUS
  <2>. HIDE DEF g
  <2>6. Good(m + 1, g) BY <2>1, <2>2, <2>3, <2>4, <2>5
  <2>. QED BY <2>6
<1>3. T = Nat
  <2>1. T \in SUBSET Nat OBVIOUS
  <2>2. \A m \in Nat : m \in T => m + 1 \in T
    <3>. HIDE DEF Good
    <3>. QED BY <1>2
  <2>. HIDE DEF T
  <2>. QED BY <1>1, <2>1, <2>2, FromZeroOn
<1>4. n \in Nat OBVIOUS
<1>5. PICK f : Good(n, f)
  <2>. HIDE DEF Good, n
  <2>. QED BY <1>3, <1>4
<1>. QED BY <1>5 DEF Adds

\* Whatever adds the sequences up ends in them all.
LEMMA FlattenAdds ==
  ASSUME NEW S, NEW ss \in Seq(Seq(S)), NEW f, Adds(f, ss)
  PROVE  FlattenSeq(ss) = f[Len(ss)]
<1>. DEFINE n == Len(ss)
            P(g) == g = [i \in 1..n |-> IF i = 1 THEN ss[i] ELSE g[i - 1] \o ss[i]]
            h == [i \in 1..n |-> f[i]]
<1>1. n \in Nat /\ \A i \in 1..n : ss[i] \in Seq(S) OBVIOUS
<1>2. CASE n = 0
  <2>1. FlattenSeq(ss) = ss /\ ss = <<>> BY <1>2 DEF FlattenSeq
  <2>. QED BY <1>2, <2>1 DEF Adds
<1>3. CASE n # 0
  <2>1. FlattenSeq(ss) = (CHOOSE g : P(g))[n] BY <1>3 DEF FlattenSeq
  <2>2. P(h)
    <3>1. ASSUME NEW i \in 1..n PROVE h[i] = IF i = 1 THEN ss[i] ELSE h[i - 1] \o ss[i]
      <4>1. h[i] = f[i - 1] \o ss[i] BY DEF Adds
      <4>2. CASE i = 1
        <5>1. f[i - 1] = <<>> BY <4>2 DEF Adds
        <5>. QED BY <1>1, <4>1, <4>2, <5>1, ConcatEmptySeq
      <4>3. CASE i # 1
        <5>1. h[i - 1] = f[i - 1] BY <4>3
        <5>. QED BY <4>1, <4>3, <5>1
      <4>. QED BY <4>2, <4>3
    <3>. DEFINE e == [i \in 1..n |-> IF i = 1 THEN ss[i] ELSE h[i - 1] \o ss[i]]
    <3>2. DOMAIN h = 1..n /\ DOMAIN e = 1..n /\ h = [i \in 1..n |-> h[i]]
      OBVIOUS
    <3>3. \A i \in 1..n : e[i] = h[i] BY <3>1
    <3>. HIDE DEF h
    <3>4. e = h BY <3>2, <3>3
    <3>. QED BY <3>4
  <2>. HIDE DEF h
  <2>3. P(CHOOSE g : P(g))
    <3>. HIDE DEF P
    <3>. QED BY <2>2
  <2>. DEFINE c == CHOOSE g : P(g)
  <2>4. P(c) BY <2>3
  <2>. HIDE DEF c
  <2>5. \A i \in 1..n : c[i] = f[i]
    <3>. DEFINE T == {m \in Nat : m + 1 <= n => c[m + 1] = f[m + 1]}
    <3>1. 0 \in T
      <4>1. SUFFICES ASSUME 1 <= n PROVE c[1] = f[1] OBVIOUS
      <4>2. c[1] = ss[1] BY <2>4, <4>1
      <4>3. 1 \in 1..Len(ss) /\ 1 - 1 = 0 BY <1>1, <4>1
      <4>4. f[1] = f[0] \o ss[1] /\ f[0] = <<>> BY <4>3 DEF Adds
      <4>. QED BY <1>1, <4>2, <4>3, <4>4, ConcatEmptySeq
    <3>2. ASSUME NEW m \in Nat, m \in T PROVE m + 1 \in T
      <4>1. SUFFICES ASSUME (m + 1) + 1 <= n PROVE c[(m + 1) + 1] = f[(m + 1) + 1]
        OBVIOUS
      <4>2. (m + 1) + 1 \in 1..n /\ (m + 1) + 1 # 1 /\ ((m + 1) + 1) - 1 = m + 1 /\ m + 1 <= n
        BY <4>1
      <4>3. c[(m + 1) + 1] = c[m + 1] \o ss[(m + 1) + 1] BY <2>4, <4>2
      <4>4. f[(m + 1) + 1] = f[m + 1] \o ss[(m + 1) + 1] BY <4>2 DEF Adds
      <4>. QED BY <3>2, <4>2, <4>3, <4>4
    <3>3. T = Nat
      <4>1. T \in SUBSET Nat OBVIOUS
      <4>. HIDE DEF T
      <4>. QED BY <3>1, <3>2, <4>1, FromZeroOn
    <3>4. \A i \in 1..n : i - 1 \in Nat /\ (i - 1) + 1 = i /\ i <= n OBVIOUS
    <3>. QED BY <3>3, <3>4
  <2>6. n \in 1..n BY <1>1, <1>3
  <2>. QED BY <2>1, <2>5, <2>6 DEF c
<1>. QED BY <1>2, <1>3

LEMMA FlattenType ==
  ASSUME NEW S, NEW ss \in Seq(Seq(S))
  PROVE  FlattenSeq(ss) \in Seq(S)
<1>1. PICK f : Adds(f, ss) BY SomethingAdds
<1>2. Len(ss) \in 0..Len(ss) OBVIOUS
<1>. QED BY <1>1, <1>2, FlattenAdds, JoinedSoFar

LEMMA FlattenConcat ==
  ASSUME NEW S, NEW ss \in Seq(Seq(S)), NEW tt \in Seq(Seq(S))
  PROVE  FlattenSeq(ss \o tt) = FlattenSeq(ss) \o FlattenSeq(tt)
<1>. DEFINE m == Len(ss)
            n == Len(tt)
<1>1. PICK f : Adds(f, ss) BY SomethingAdds
<1>2. PICK g : Adds(g, tt) BY SomethingAdds
<1>. DEFINE h == [i \in 0..(m + n) |-> IF i <= m THEN f[i] ELSE f[m] \o g[i - m]]
<1>3. m \in Nat /\ n \in Nat /\ Len(ss \o tt) = m + n /\ ss \o tt \in Seq(Seq(S))
  BY ConcatProperties
<1>4. \A i \in 0..m : f[i] \in Seq(S) BY <1>1, JoinedSoFar
<1>5. \A i \in 0..n : g[i] \in Seq(S) BY <1>2, JoinedSoFar
<1>6. h[0] = <<>> BY <1>1, <1>3 DEF Adds
<1>7. ASSUME NEW i \in 1..(m + n) PROVE h[i] = h[i - 1] \o (ss \o tt)[i]
  <2>1. (ss \o tt)[i] = IF i <= m THEN ss[i] ELSE tt[i - m] BY <1>3
  <2>2. CASE i <= m
    <3>1. i \in 1..m /\ i \in 0..(m + n) /\ i - 1 \in 0..(m + n) /\ i - 1 <= m
      BY <1>3, <2>2
    <3>2. h[i] = f[i] /\ h[i - 1] = f[i - 1] BY <2>2, <3>1
    <3>. QED BY <1>1, <2>1, <2>2, <3>1, <3>2 DEF Adds
  <2>3. CASE i = m + 1
    <3>1. /\ i \in 0..(m + n) /\ m \in 0..(m + n) /\ i - 1 = m /\ i - m = 1
          /\ ~(i <= m) /\ m <= m /\ 1 \in 1..n /\ 1 - 1 = 0 /\ m \in 0..m
      BY <1>3, <2>3
    <3>2. h[i] = f[m] \o g[1] /\ h[m] = f[m] BY <3>1
    <3>3. g[1] = g[0] \o tt[1] /\ g[0] = <<>> BY <1>2, <3>1 DEF Adds
    <3>4. tt[1] \in Seq(S) BY <3>1
    <3>. QED BY <2>1, <3>1, <3>2, <3>3, <3>4, ConcatEmptySeq
  <2>4. CASE i > m + 1
    <3>1. /\ i \in 0..(m + n) /\ i - 1 \in 0..(m + n) /\ ~(i <= m) /\ ~(i - 1 <= m)
          /\ i - m \in 1..n /\ (i - 1) - m = (i - m) - 1 /\ (i - m) - 1 \in 0..n /\ m \in 0..m
      BY <1>3, <2>4
    <3>2. h[i] = f[m] \o g[i - m] /\ h[i - 1] = f[m] \o g[(i - m) - 1] BY <3>1
    <3>3. g[i - m] = g[(i - m) - 1] \o tt[i - m] BY <1>2, <3>1 DEF Adds
    <3>4. f[m] \in Seq(S) /\ g[(i - m) - 1] \in Seq(S) /\ tt[i - m] \in Seq(S)
      BY <1>4, <1>5, <3>1
    <3>5. (f[m] \o g[(i - m) - 1]) \o tt[i - m] = f[m] \o (g[(i - m) - 1] \o tt[i - m])
      <4>1. \A u, v, w \in Seq(S) : (u \o v) \o w = u \o (v \o w)
        BY ConcatAssociative, SMTT(30)
      <4>. QED BY <3>4, <4>1
    <3>6. (ss \o tt)[i] = tt[i - m] BY <2>1, <3>1
    <3>7. h[i] = (f[m] \o g[(i - m) - 1]) \o tt[i - m] BY <3>2, <3>3, <3>5
    <3>8. h[i - 1] = f[m] \o g[(i - m) - 1] BY <3>2
    <3>. HIDE DEF h
    <3>. QED BY <3>6, <3>7, <3>8, Zenon
  <2>5. i <= m \/ i = m + 1 \/ i > m + 1
    <3>1. \A a \in Nat, b \in Int : b <= a \/ b = a + 1 \/ b > a + 1 OBVIOUS
    <3>2. i \in Int OBVIOUS
    <3>. HIDE DEF m, n
    <3>. QED BY <1>3, <3>1, <3>2
  <2>. HIDE DEF h
  <2>. QED BY <2>2, <2>3, <2>4, <2>5
<1>8. Adds(h, ss \o tt) BY <1>3, <1>6, <1>7 DEF Adds
<1>9. FlattenSeq(ss \o tt) = h[m + n]
  <2>. HIDE DEF h
  <2>. QED BY <1>3, <1>8, FlattenAdds
<1>10. FlattenSeq(ss) = f[m] /\ FlattenSeq(tt) = g[n] BY <1>1, <1>2, FlattenAdds
<1>11. CASE n = 0
  <2>1. g[n] = <<>> /\ h[m + n] = f[m] /\ f[m] \in Seq(S)
    BY <1>2, <1>3, <1>4, <1>11 DEF Adds
  <2>. QED BY <1>9, <1>10, <2>1, ConcatEmptySeq
<1>12. CASE n # 0
  <2>1. m + n \in 0..(m + n) /\ ~(m + n <= m) /\ (m + n) - m = n BY <1>3, <1>12
  <2>2. h[m + n] = f[m] \o g[n] BY <2>1
  <2>. QED BY <1>9, <1>10, <2>2
<1>. QED BY <1>11, <1>12

LEMMA FlattenOne ==
  ASSUME NEW S, NEW s \in Seq(S)
  PROVE  FlattenSeq(<<s>>) = s /\ <<s>> \in Seq(Seq(S))
<1>. DEFINE f == [i \in 0..1 |-> IF i = 0 THEN <<>> ELSE s]
<1>1. <<s>> \in Seq(Seq(S)) /\ Len(<<s>>) = 1 /\ <<s>>[1] = s OBVIOUS
<1>2. f[0] = <<>> /\ f[1] = s /\ <<>> \o s = s BY ConcatEmptySeq
<1>. HIDE DEF f
<1>3. Adds(f, <<s>>)
  <2>1. \A i \in 1..1 : i = 1 /\ i - 1 = 0 OBVIOUS
  <2>. QED BY <1>1, <1>2, <2>1 DEF Adds
<1>4. FlattenSeq(<<s>>) = f[1] BY <1>1, <1>3, FlattenAdds
<1>. QED BY <1>1, <1>2, <1>4

-----------------------------------------------------------------------------
(* Trees.                                                                  *)

\* The levels are what their definition says.
LEMMA LevelStep ==
  /\ DOMAIN Levels = Nat
  /\ Levels[0] = Leaves
  /\ \A d \in Nat : Levels[d + 1] = Leaves \cup Elements(Levels[d])
<1>. DEFINE up(K) == Leaves \cup Elements(K)
            P(g) == g = [h \in Nat |-> Leaves \cup IF h = 0 THEN {} ELSE Elements(g[h - 1])]
            Good(m, f) == /\ DOMAIN f = 0..m /\ f[0] = Leaves
                          /\ \A i \in 1..m : f[i] = up(f[i - 1])
            T == {m \in Nat : \E f : Good(m, f)}
<1>. HIDE DEF up
<1>1. 0 \in T
  <2>1. Good(0, [i \in 0..0 |-> Leaves]) OBVIOUS
  <2>. HIDE DEF Good
  <2>. QED BY <2>1
<1>2. ASSUME NEW m \in Nat, NEW f, Good(m, f) PROVE \E g : Good(m + 1, g)
  <2>. DEFINE g == [i \in 0..(m + 1) |-> IF i = m + 1 THEN up(f[m]) ELSE f[i]]
  <2>1. DOMAIN g = 0..(m + 1) /\ g[0] = Leaves BY <1>2
  <2>2. m + 1 \in 0..(m + 1) /\ m \in 0..(m + 1) /\ m # m + 1 /\ (m + 1) - 1 = m
    OBVIOUS
  <2>3. g[m + 1] = up(g[m]) BY <2>2
  <2>4. ASSUME NEW i \in 1..m PROVE g[i] = up(g[i - 1])
    <3>1. i \in 0..(m + 1) /\ i - 1 \in 0..(m + 1) /\ i # m + 1 /\ i - 1 # m + 1
      OBVIOUS
    <3>2. g[i] = f[i] /\ g[i - 1] = f[i - 1] BY <3>1
    <3>. QED BY <1>2, <3>2
  <2>5. \A i \in 1..(m + 1) : i = m + 1 \/ i \in 1..m OBVIOUS
  <2>. HIDE DEF g
  <2>6. Good(m + 1, g) BY <2>1, <2>2, <2>3, <2>4, <2>5
  <2>. QED BY <2>6
<1>3. \A m \in Nat : \E f : Good(m, f)
  <2>1. T \in SUBSET Nat OBVIOUS
  <2>2. \A m \in Nat : m \in T => m + 1 \in T
    <3>. HIDE DEF Good
    <3>. QED BY <1>2
  <2>3. T = Nat
    <3>. HIDE DEF T
    <3>. QED BY <1>1, <2>1, <2>2, FromZeroOn
  <2>. HIDE DEF Good
  <2>. QED BY <2>3
\* Two of them agree wherever both are defined.
<1>4. ASSUME NEW m \in Nat, NEW f, Good(m, f), NEW p \in Nat, NEW h, Good(p, h)
      PROVE  \A d \in Nat : d <= m /\ d <= p => f[d] = h[d]
  <2>. DEFINE U == {d \in Nat : d <= m /\ d <= p => f[d] = h[d]}
  <2>1. 0 \in U BY <1>4
  <2>2. ASSUME NEW d \in Nat, d \in U PROVE d + 1 \in U
    <3>1. SUFFICES ASSUME d + 1 <= m, d + 1 <= p PROVE f[d + 1] = h[d + 1]
      OBVIOUS
    <3>2. d + 1 \in 1..m /\ d + 1 \in 1..p /\ (d + 1) - 1 = d /\ d <= m /\ d <= p
      BY <3>1
    <3>3. f[d + 1] = up(f[d]) /\ h[d + 1] = up(h[d]) BY <1>4, <3>2
    <3>. QED BY <2>2, <3>2, <3>3
  <2>3. U = Nat
    <3>1. U \in SUBSET Nat OBVIOUS
    <3>. HIDE DEF U
    <3>. QED BY <2>1, <2>2, <3>1, FromZeroOn
  <2>. QED BY <2>3
<1>. DEFINE F(d) == CHOOSE f : Good(d, f)
            g == [d \in Nat |-> F(d)[d]]
<1>5. \A d \in Nat : Good(d, F(d))
  <2>. HIDE DEF Good
  <2>. QED BY <1>3
<1>. HIDE DEF F
<1>6. P(g)
  <2>1. ASSUME NEW d \in Nat PROVE g[d] = IF d = 0 THEN Leaves ELSE up(g[d - 1])
    <3>1. CASE d = 0 BY <1>5, <3>1
    <3>2. CASE d # 0
      <4>1. d \in 1..d /\ d - 1 \in Nat /\ d - 1 <= d /\ d - 1 <= d - 1 BY <3>2
      <4>2. F(d)[d] = up(F(d)[d - 1]) BY <1>5, <4>1
      <4>3. F(d)[d - 1] = F(d - 1)[d - 1] BY <1>4, <1>5, <4>1
      <4>. QED BY <3>2, <4>1, <4>2, <4>3
    <3>. QED BY <3>1, <3>2
  <2>. DEFINE e == [h \in Nat |-> Leaves \cup IF h = 0 THEN {} ELSE Elements(g[h - 1])]
  <2>2. DOMAIN g = Nat /\ g = [d \in Nat |-> g[d]] /\ DOMAIN e = Nat OBVIOUS
  <2>3. \A d \in Nat : e[d] = g[d] BY <2>1 DEF up
  <2>. HIDE DEF g
  <2>4. e = g BY <2>2, <2>3
  <2>. QED BY <2>4
<1>. HIDE DEF g
<1>7. Levels = CHOOSE h : P(h) BY DEF Levels
<1>8. P(Levels)
  <2>. HIDE DEF P
  <2>. QED BY <1>6, <1>7
<1>9. \A d \in Nat : d + 1 \in Nat /\ d + 1 # 0 /\ (d + 1) - 1 = d OBVIOUS
<1>10. DOMAIN Levels = Nat /\ Levels[0] = Leaves /\ \A d \in Nat : Levels[d + 1] = up(Levels[d])
  BY <1>8, <1>9 DEF up
<1>. QED BY <1>10 DEF up

LEMMA LevelsGrow ==
  ASSUME NEW d \in Nat, NEW e \in Nat
  PROVE  Levels[d] \subseteq Levels[d + e]
<1>1. ASSUME NEW m \in Nat, Levels[m] \subseteq Levels[m + 1]
      PROVE  Levels[m + 1] \subseteq Levels[(m + 1) + 1]
  <2>1. Elements(Levels[m]) \subseteq Elements(Levels[m + 1])
    <3>. DEFINE A == Levels[m]
                B == Levels[m + 1]
    <3>1. A \subseteq B BY <1>1
    <3>. HIDE DEF A, B
    <3>2. Seq(A) \subseteq Seq(B) BY <3>1, SeqMonotonic
    <3>3. Elements(A) \subseteq Elements(B) BY <3>2 DEF Elements
    <3>. QED BY <3>3 DEF A, B
  <2>2. m + 1 \in Nat OBVIOUS
  <2>3. Levels[m + 1] = Leaves \cup Elements(Levels[m]) BY LevelStep
  <2>4. Levels[(m + 1) + 1] = Leaves \cup Elements(Levels[m + 1])
    BY <2>2, LevelStep
  <2>. QED BY <2>1, <2>3, <2>4
<1>2. \A m \in Nat : Levels[m] \subseteq Levels[m + 1]
  <2>. DEFINE T == {m \in Nat : Levels[m] \subseteq Levels[m + 1]}
  <2>1. 0 \in T BY LevelStep
  <2>2. T = Nat
    <3>1. T \in SUBSET Nat /\ \A m \in Nat : m \in T => m + 1 \in T BY <1>1
    <3>. HIDE DEF T
    <3>. QED BY <2>1, <3>1, FromZeroOn
  <2>. QED BY <2>2
<1>3. \A m \in Nat : Levels[d] \subseteq Levels[d + m]
  <2>. DEFINE T == {m \in Nat : Levels[d] \subseteq Levels[d + m]}
  <2>1. 0 \in T OBVIOUS
  <2>2. ASSUME NEW m \in Nat, m \in T PROVE m + 1 \in T
    <3>1. d + m \in Nat /\ d + (m + 1) = (d + m) + 1 OBVIOUS
    <3>2. Levels[d + m] \subseteq Levels[(d + m) + 1] BY <1>2, <3>1
    <3>. QED BY <2>2, <3>1, <3>2
  <2>3. T = Nat
    <3>1. T \in SUBSET Nat OBVIOUS
    <3>. HIDE DEF T
    <3>. QED BY <2>1, <2>2, <3>1, FromZeroOn
  <2>. QED BY <2>3
<1>. QED BY <1>3

\* A tree is a leaf or an element whose kids are trees.
LEMMA TreesAre == Trees = Leaves \cup Elements(Trees)
<1>1. ASSUME NEW x \in Trees PROVE x \in Leaves \cup Elements(Trees)
  <2>1. PICK d \in Nat : x \in Levels[d] BY DEF Trees
  <2>2. CASE d = 0 BY <2>1, <2>2, LevelStep
  <2>3. CASE d # 0
    <3>1. d - 1 \in Nat /\ (d - 1) + 1 = d BY <2>3
    <3>2. x \in Leaves \cup Elements(Levels[d - 1]) BY <2>1, <3>1, LevelStep
    <3>. DEFINE A == Levels[d - 1]
    <3>3. A \subseteq Trees BY <3>1 DEF Trees
    <3>. HIDE DEF A
    <3>4. Seq(A) \subseteq Seq(Trees) BY <3>3, SeqMonotonic
    <3>5. Elements(A) \subseteq Elements(Trees) BY <3>4 DEF Elements
    <3>. QED BY <3>2, <3>5 DEF A
  <2>. QED BY <2>2, <2>3
<1>2. Leaves \subseteq Trees BY LevelStep DEF Trees
<1>3. ASSUME NEW x \in Elements(Trees) PROVE x \in Trees
  <2>. DEFINE n == Len(x.k)
              depth == [i \in 1..n |-> CHOOSE d \in Nat : x.k[i] \in Levels[d]]
  <2>1. x.k \in Seq(Trees) /\ n \in Nat BY DEF Elements
  <2>2. \A i \in 1..n : \E d \in Nat : x.k[i] \in Levels[d]
    <3>1. \A i \in 1..n : x.k[i] \in Trees BY <2>1
    <3>. QED BY <3>1 DEF Trees
  <2>3. depth \in [1..n -> Nat] /\ \A i \in 1..n : x.k[i] \in Levels[depth[i]]
    BY <2>2
  <2>4. PICK b \in Nat : \A i \in 1..n : depth[i] <= b
    <3>. HIDE DEF depth, n
    <3>. QED BY <2>1, <2>3, BoundedValues
  <2>5. ASSUME NEW i \in 1..n PROVE x.k[i] \in Levels[b]
    <3>. DEFINE d == depth[i]
    <3>1. d \in Nat /\ b - d \in Nat /\ d + (b - d) = b
      <4>1. d \in Nat /\ d <= b BY <2>3, <2>4
      <4>. HIDE DEF d
      <4>. QED BY <4>1
    <3>2. x.k[i] \in Levels[d] BY <2>3
    <3>. HIDE DEF d
    <3>3. Levels[d] \subseteq Levels[d + (b - d)] BY <3>1, LevelsGrow
    <3>. QED BY <3>1, <3>2, <3>3
  <2>. DEFINE B == Levels[b]
  <2>6. x.k \in Seq(B)
    <3>1. x.k \in [1..n -> B]
      <4>1. DOMAIN x.k = 1..n /\ x.k = [i \in 1..n |-> x.k[i]] BY <2>1
      <4>. HIDE DEF n
      <4>. QED BY <2>5, <4>1
    <3>. HIDE DEF B, n
    <3>. QED BY <2>1, <3>1, SeqOfFunction
  <2>. HIDE DEF B
  <2>7. x \in Elements(B) BY <2>6 DEF Elements
  <2>8. x \in Levels[b + 1] /\ b + 1 \in Nat BY <2>7, LevelStep DEF B
  <2>. QED BY <2>8 DEF Trees
<1>. QED BY <1>1, <1>2, <1>3

\* What holds of the leaves, and of an element whenever of its kids, holds of every tree.
LEMMA TreeInduction ==
  ASSUME NEW S, Leaves \subseteq S,
         \A n \in Elements(Trees) : (\A i \in DOMAIN n.k : n.k[i] \in S) => n \in S
  PROVE  Trees \subseteq S
<1>. DEFINE T == {d \in Nat : Levels[d] \subseteq S}
<1>1. 0 \in T BY LevelStep
<1>2. ASSUME NEW d \in Nat, d \in T PROVE d + 1 \in T
  <2>. DEFINE A == Levels[d]
  <2>1. Levels[d + 1] = Leaves \cup Elements(A) /\ A \subseteq S /\ A \subseteq Trees
    BY <1>2, LevelStep DEF Trees
  <2>. HIDE DEF A
  <2>2. ASSUME NEW n \in Elements(A) PROVE n \in S
    <3>1. n.k \in Seq(A) BY DEF Elements
    <3>2. Seq(A) \subseteq Seq(Trees) BY <2>1, SeqMonotonic
    <3>3. n \in Elements(Trees) BY <3>1, <3>2 DEF Elements
    <3>4. \A i \in DOMAIN n.k : n.k[i] \in S BY <2>1, <3>1
    <3>. QED BY <3>3, <3>4
  <2>. QED BY <2>1, <2>2
<1>3. T = Nat
  <2>1. T \in SUBSET Nat OBVIOUS
  <2>. HIDE DEF T
  <2>. QED BY <1>1, <1>2, <2>1, FromZeroOn
<1>. QED BY <1>3 DEF Trees

-----------------------------------------------------------------------------
(* What is read.                                                           *)

LEMMA TreeKinds ==
  /\ \A n \in Nodes : /\ n \in Trees /\ IsElem(n) /\ Type(n) = n.s /\ n.s \in Kinds
                      /\ n.k \in Seq(Trees) /\ DOMAIN n.k = 1..Len(n.k) /\ Len(n.k) \in Nat
  /\ \A x \in Trees \ Nodes : x \in Leaves /\ x.mcid \in Nat /\ ~IsElem(x) /\ Type(x) = ""
<1>1. ASSUME NEW n \in Nodes
      PROVE  /\ n \in Trees /\ IsElem(n) /\ Type(n) = n.s /\ n.s \in Kinds
             /\ n.k \in Seq(Trees) /\ DOMAIN n.k = 1..Len(n.k) /\ Len(n.k) \in Nat
  <2>1. n \in Trees BY TreesAre DEF Nodes
  <2>2. IsElem(n) /\ n.s \in Kinds /\ n.k \in Seq(Trees)
    BY DEF Nodes, Elements, IsElem
  <2>. QED BY <2>1, <2>2 DEF Type
<1>2. ASSUME NEW x \in Trees, x \notin Nodes
      PROVE  x \in Leaves /\ x.mcid \in Nat /\ ~IsElem(x) /\ Type(x) = ""
  <2>1. x \in Leaves BY <1>2, TreesAre DEF Nodes
  <2>2. x.mcid \in Nat /\ ~IsElem(x) BY <2>1 DEF Leaves, IsElem
  <2>. QED BY <2>1, <2>2 DEF Type
<1>. QED BY <1>1, <1>2

LEMMA KidsAre ==
  ASSUME NEW n \in Nodes, NEW i \in DOMAIN n.k
  PROVE  n.k[i] \in Trees
<1>. DEFINE k == n.k
<1>1. k \in Seq(Trees) /\ i \in DOMAIN k BY TreeKinds
<1>. HIDE DEF k
<1>2. k[i] \in Trees BY <1>1
<1>. QED BY <1>2 DEF k

-----------------------------------------------------------------------------
(* Functions of trees.                                                     *)

\* The elements among the kids of one.
LEMMA ElemKidsAre ==
  ASSUME NEW n \in Nodes
  PROVE  /\ ElemKids(n) \subseteq Nodes
         /\ \A i \in DOMAIN n.k : IsElem(n.k[i]) => n.k[i] \in ElemKids(n) /\ n.k[i] \in Nodes
         /\ \A y \in ElemKids(n) : \E i \in DOMAIN n.k : n.k[i] = y
<1>1. \A i \in DOMAIN n.k : n.k[i] \in Trees BY KidsAre
<1>2. \A x \in Trees : IsElem(x) => x \in Nodes BY TreeKinds
<1>. QED BY <1>1, <1>2 DEF ElemKids, ToSet

LEMMA LowAre ==
  /\ \A d \in Nat : Low(d) \subseteq Nodes
  /\ \A n \in Nodes : \E d \in Nat : n \in Low(d)
  /\ \A d \in Nat : \A n \in Low(d) : \A y \in ElemKids(n) : d # 0 /\ y \in Low(d - 1)
  /\ \A d \in Nat : \A n \in Nodes :
       (\A i \in DOMAIN n.k : IsElem(n.k[i]) => d # 0 /\ n.k[i] \in Low(d - 1)) => n \in Low(d)
<1>1. ASSUME NEW d \in Nat PROVE Low(d) \subseteq Nodes
  <2>. DEFINE A == Levels[d]
  <2>1. A \subseteq Trees BY DEF Trees
  <2>. HIDE DEF A
  <2>2. Seq(A) \subseteq Seq(Trees) BY <2>1, SeqMonotonic
  <2>3. Elements(A) \subseteq Elements(Trees) BY <2>2 DEF Elements
  <2>. QED BY <2>3 DEF A, Low, Nodes
<1>2. ASSUME NEW d \in Nat, NEW x \in Levels[d], IsElem(x) PROVE d # 0 /\ x \in Low(d - 1)
  <2>1. x \notin Leaves BY <1>2 DEF Leaves, IsElem
  <2>2. d # 0 BY <2>1, LevelStep
  <2>3. d - 1 \in Nat /\ (d - 1) + 1 = d BY <2>2
  <2>4. Levels[(d - 1) + 1] = Leaves \cup Low(d - 1) BY <2>3, LevelStep DEF Low
  <2>. QED BY <2>1, <2>2, <2>3, <2>4
<1>3. ASSUME NEW n \in Nodes PROVE \E d \in Nat : n \in Low(d)
  <2>1. n \in Trees /\ IsElem(n) BY TreeKinds
  <2>2. PICK d \in Nat : n \in Levels[d] BY <2>1 DEF Trees
  <2>3. d # 0 /\ n \in Low(d - 1) BY <1>2, <2>1, <2>2
  <2>4. d - 1 \in Nat BY <2>3
  <2>. QED BY <2>3, <2>4
<1>4. ASSUME NEW d \in Nat, NEW n \in Low(d), NEW y \in ElemKids(n)
      PROVE  d # 0 /\ y \in Low(d - 1)
  <2>. DEFINE A == Levels[d]
              k == n.k
  <2>1. IsElem(y) /\ \E i \in DOMAIN k : y = k[i] BY DEF ElemKids, ToSet
  <2>2. k \in Seq(A) BY DEF Low, Elements
  <2>. HIDE DEF A, k
  <2>3. y \in A BY <2>1, <2>2
  <2>. QED BY <1>2, <2>1, <2>3 DEF A
<1>5. ASSUME NEW d \in Nat, NEW n \in Nodes,
             \A i \in DOMAIN n.k : IsElem(n.k[i]) => d # 0 /\ n.k[i] \in Low(d - 1)
      PROVE  n \in Low(d)
  <2>. DEFINE A == Levels[d]
              k == n.k
              m == Len(k)
  <2>1. DOMAIN k = 1..m /\ m \in Nat /\ k \in Seq(Trees) BY TreeKinds
  <2>2. ASSUME NEW i \in 1..m PROVE k[i] \in A
    <3>1. k[i] \in Trees BY <2>1, KidsAre
    <3>2. CASE IsElem(k[i])
      <4>1. d # 0 /\ k[i] \in Low(d - 1) BY <1>5, <2>1, <3>2
      <4>2. d - 1 \in Nat /\ (d - 1) + 1 = d BY <4>1
      <4>3. Levels[(d - 1) + 1] = Leaves \cup Low(d - 1)
        BY <4>2, LevelStep DEF Low
      <4>. QED BY <4>1, <4>2, <4>3
    <3>3. CASE ~IsElem(k[i])
      <4>1. k[i] \in Leaves BY <3>1, <3>3, TreeKinds
      <4>2. Levels[0] \subseteq Levels[0 + d] /\ Levels[0] = Leaves
        BY LevelsGrow, LevelStep
      <4>3. 0 + d = d OBVIOUS
      <4>. QED BY <4>1, <4>2, <4>3
    <3>. QED BY <3>2, <3>3
  <2>3. k \in Seq(A)
    <3>1. k = [i \in 1..m |-> k[i]] BY <2>1
    <3>. HIDE DEF A, k, m
    <3>2. k \in [1..m -> A] BY <2>2, <3>1
    <3>. QED BY <2>1, <3>2, SeqOfFunction
  <2>. HIDE DEF A, k
  <2>. QED BY <2>3 DEF A, k, Nodes, Elements, Low
<1>. QED BY <1>1, <1>3, <1>4, <1>5

\* When trees may have any height, the passes are functions of all elements.
LEMMA ScopeIsNodes ==
  ASSUME Heights = Nat
  PROVE  Scope = Nodes
<1>1. Scope = UNION {Low(d) : d \in Nat} BY DEF Scope, Low
<1>. QED BY <1>1, LowAre

LEMMA SameGrounded == Grounded(Same) /\ \A n \in Nodes : Same[n] = n
<1>1. ASSUME NEW S \in SUBSET Nodes, \A x \in Nodes : ElemKids(x) \subseteq S => x \in S
      PROVE  S = Nodes
  <2>. DEFINE T == Leaves \cup S
  <2>1. ASSUME NEW n \in Elements(Trees), \A i \in DOMAIN n.k : n.k[i] \in T PROVE n \in T
    <3>1. n \in Nodes BY DEF Nodes
    <3>2. \A x \in Leaves : ~IsElem(x) BY DEF Leaves, IsElem
    <3>3. ElemKids(n) \subseteq S BY <2>1, <3>2 DEF ElemKids, ToSet
    <3>. QED BY <1>1, <3>1, <3>3
  <2>2. Trees \subseteq T
    <3>1. Leaves \subseteq T OBVIOUS
    <3>. HIDE DEF T
    <3>. QED BY <2>1, <3>1, TreeInduction
  <2>3. \A n \in Nodes : n \in Trees /\ n \notin Leaves
    BY TreeKinds DEF Leaves, IsElem
  <2>. QED BY <2>2, <2>3
<1>2. Same \in [Nodes -> Nodes] /\ \A n \in Nodes : Same[n] = n BY DEF Same
<1>. QED BY <1>1, <1>2 DEF Grounded

\* What holds of an element whenever of the kids a function goes on with, holds of all.
LEMMA GroundedInduction ==
  ASSUME NEW G, Grounded(G), NEW S,
         \A x \in Nodes : (\A y \in ElemKids(G[x]) : y \in S) => x \in S
  PROVE  Nodes \subseteq S
<1>. DEFINE T == S \cap Nodes
<1>1. T \in SUBSET Nodes OBVIOUS
<1>2. \A x \in Nodes : ElemKids(G[x]) \subseteq T => x \in T OBVIOUS
<1>. HIDE DEF T
<1>3. T = Nodes BY <1>1, <1>2 DEF Grounded
<1>. QED BY <1>3 DEF T

\* A function that makes the value of an element of the element and the values of
\* the kids it goes on with has a value everywhere.
LEMMA GroundedRecursion ==
  ASSUME NEW G, Grounded(G), NEW V, NEW F \in [Nodes \X Partial(V) -> V]
  PROVE  \E w : w \in [Nodes -> V] /\ Unfolding(w, Nodes, G, F)
<1>. DEFINE Closed(D) == D \subseteq Nodes /\ \A n \in D : ElemKids(G[n]) \subseteq D
            Good(D, w) == Closed(D) /\ w \in [D -> V] /\ Unfolding(w, D, G, F)
            Known(n) == \E D, w : n \in D /\ Good(D, w)
            T == {n \in Nodes : Known(n)}
<1>1. G \in [Nodes -> Nodes] /\ \A n \in Nodes : ElemKids(G[n]) \subseteq Nodes
  BY ElemKidsAre DEF Grounded
\* Two of them agree.
<1>2. ASSUME NEW D, NEW w, Good(D, w), NEW E, NEW u, Good(E, u), NEW x \in D, x \in E
      PROVE  w[x] = u[x]
  <2>. DEFINE S == {n \in Nodes : n \in D /\ n \in E => w[n] = u[n]}
  <2>1. ASSUME NEW n \in Nodes, \A y \in ElemKids(G[n]) : y \in S PROVE n \in S
    <3>1. SUFFICES ASSUME n \in D, n \in E PROVE w[n] = u[n] OBVIOUS
    <3>2. \A y \in ElemKids(G[n]) : w[y] = u[y] BY <1>2, <2>1, <3>1
    <3>3. OnKids(w, G[n]) = OnKids(u, G[n]) BY <3>2 DEF OnKids
    <3>. QED BY <1>2, <3>1, <3>3 DEF Unfolding
  <2>. HIDE DEF S
  <2>2. Nodes \subseteq S BY <2>1, GroundedInduction
  <2>3. x \in Nodes BY <1>2
  <2>. QED BY <1>2, <2>2, <2>3 DEF S
\* All of them put together.
<1>. DEFINE pair(n) == CHOOSE p : n \in p[1] /\ Good(p[1], p[2])
            W == [n \in T |-> pair(n)[2][n]]
<1>3. ASSUME NEW n \in T PROVE n \in pair(n)[1] /\ Good(pair(n)[1], pair(n)[2])
  <2>1. PICK D, w : n \in D /\ Good(D, w) BY <1>3
  <2>. DEFINE q == <<D, w>>
  <2>2. q[1] = D /\ q[2] = w OBVIOUS
  <2>. HIDE DEF q, Good
  <2>3. \E p : n \in p[1] /\ Good(p[1], p[2]) BY <2>1, <2>2
  <2>. QED BY <2>3
<1>. HIDE DEF pair
<1>4. ASSUME NEW n \in T, NEW D, NEW w, n \in D, Good(D, w) PROVE W[n] = w[n]
  <2>1. W[n] = pair(n)[2][n] OBVIOUS
  <2>2. n \in pair(n)[1] /\ Good(pair(n)[1], pair(n)[2]) BY <1>3
  <2>. HIDE DEF Good
  <2>. QED BY <1>2, <1>4, <2>1, <2>2
<1>5. \A D, w : Good(D, w) => D \subseteq T OBVIOUS
<1>6. Good(T, W)
  <2>1. ASSUME NEW n \in T
        PROVE  /\ ElemKids(G[n]) \subseteq T /\ W[n] \in V
               /\ W[n] = F[<<n, OnKids(W, G[n])>>]
    <3>1. PICK D, w : n \in D /\ Good(D, w) OBVIOUS
    <3>2. ElemKids(G[n]) \subseteq D /\ w[n] \in V /\ w[n] = F[<<n, OnKids(w, G[n])>>]
      BY <3>1 DEF Unfolding
    <3>3. D \subseteq T BY <1>5, <3>1
    <3>4. \A y \in ElemKids(G[n]) : W[y] = w[y]
      <4>. HIDE DEF Good, T, W
      <4>. QED BY <1>4, <3>1, <3>2, <3>3
    <3>5. OnKids(W, G[n]) = OnKids(w, G[n])
      <4>. HIDE DEF W
      <4>. QED BY <3>4 DEF OnKids
    <3>6. W[n] = w[n]
      <4>. HIDE DEF Good, T, W
      <4>. QED BY <1>4, <3>1
    <3>. QED BY <3>2, <3>3, <3>5, <3>6
  <2>2. W = [n \in T |-> W[n]] OBVIOUS
  <2>3. T \subseteq Nodes OBVIOUS
  <2>. HIDE DEF T, W
  <2>. QED BY <2>1, <2>2, <2>3 DEF Unfolding
<1>. HIDE DEF W
\* They reach everywhere.
<1>7. ASSUME NEW x \in Nodes, \A y \in ElemKids(G[x]) : y \in T PROVE x \in T
  <2>1. SUFFICES ASSUME x \notin T PROVE FALSE OBVIOUS
  <2>. DEFINE D == T \cup {x}
              v == F[<<x, OnKids(W, G[x])>>]
              w == [n \in D |-> IF n = x THEN v ELSE W[n]]
  <2>. HIDE DEF T
  <2>2. v \in V
    <3>1. OnKids(W, G[x]) \in [ElemKids(G[x]) -> V] BY <1>6, <1>7 DEF OnKids
    <3>2. OnKids(W, G[x]) \in Partial(V) BY <1>1, <3>1 DEF Partial
    <3>. QED BY <3>2
  <2>. HIDE DEF v
  <2>3. w \in [D -> V] BY <1>6, <2>2
  <2>4. Closed(D) BY <1>6, <1>7
  <2>5. ASSUME NEW n \in D PROVE w[n] = F[<<n, OnKids(w, G[n])>>]
    <3>1. \A y \in ElemKids(G[n]) : y \in T BY <1>6, <1>7
    <3>2. \A y \in ElemKids(G[n]) : w[y] = W[y] BY <2>1, <3>1
    <3>3. OnKids(w, G[n]) = OnKids(W, G[n])
      <4>. HIDE DEF w
      <4>. QED BY <3>2 DEF OnKids
    <3>4. CASE n = x BY <3>3, <3>4 DEF v
    <3>5. CASE n # x
      <4>1. n \in T /\ w[n] = W[n] BY <3>5
      <4>. HIDE DEF w
      <4>. QED BY <1>6, <3>3, <4>1 DEF Unfolding
    <3>. QED BY <3>4, <3>5
  <2>6. Good(D, w)
    <3>. HIDE DEF w, D
    <3>. QED BY <2>3, <2>4, <2>5 DEF Unfolding
  <2>7. x \in D OBVIOUS
  <2>. HIDE DEF Good, w, D
  <2>8. Known(x) BY <2>6, <2>7
  <2>. QED BY <2>1, <2>8 DEF T
<1>8. T = Nodes
  <2>1. T \subseteq Nodes OBVIOUS
  <2>. HIDE DEF T
  <2>2. Nodes \subseteq T BY <1>7, GroundedInduction
  <2>. QED BY <2>1, <2>2
<1>9. W \in [T -> V] /\ Unfolding(W, T, G, F) BY <1>6
<1>. HIDE DEF T
<1>. QED BY <1>8, <1>9

-----------------------------------------------------------------------------
(* The readings of elements.                                              *)

LEMMA ReadingExists == \E R : IsReading(R)
<1>. DEFINE V == Seq(Nat)
            none == <<>>
            kids(n, f) == [i \in DOMAIN n.k |-> IF IsElem(n.k[i]) THEN f[n.k[i]] ELSE <<n.k[i].mcid>>]
            F == [p \in Nodes \X Partial(V) |->
                    IF kids(p[1], p[2]) \in Seq(V) THEN FlattenSeq(kids(p[1], p[2])) ELSE none]
<1>1. none \in V OBVIOUS
<1>. HIDE DEF none, kids
<1>2. F \in [Nodes \X Partial(V) -> V]
  <2>1. \A s \in Seq(V) : FlattenSeq(s) \in V BY FlattenType
  <2>. HIDE DEF V
  <2>. QED BY <1>1, <2>1
<1>3. \A n \in Nodes, f \in Partial(V) :
        F[<<n, f>>] = IF kids(n, f) \in Seq(V) THEN FlattenSeq(kids(n, f)) ELSE none
  <2>. HIDE DEF V
  <2>. QED OBVIOUS
<1>. HIDE DEF F, V
<1>4. PICK R : R \in [Nodes -> V] /\ Unfolding(R, Nodes, Same, F)
  BY <1>2, SameGrounded, GroundedRecursion
<1>5. ASSUME NEW n \in Nodes PROVE R[n] = ReadKids(n, LAMBDA x : R[x])
  <2>. DEFINE m == Len(n.k)
              f == OnKids(R, n)
              r == AllSaid(R, n.k)
  <2>1. /\ DOMAIN n.k = 1..m /\ m \in Nat
        /\ \A i \in 1..m : /\ n.k[i] \in Trees
                           /\ IsElem(n.k[i]) => n.k[i] \in Nodes /\ n.k[i] \in ElemKids(n)
                           /\ ~IsElem(n.k[i]) => n.k[i].mcid \in Nat
    <3>1. DOMAIN n.k = 1..m /\ m \in Nat BY TreeKinds
    <3>2. ASSUME NEW i \in 1..m
          PROVE  /\ n.k[i] \in Trees
                 /\ IsElem(n.k[i]) => n.k[i] \in Nodes /\ n.k[i] \in ElemKids(n)
                 /\ ~IsElem(n.k[i]) => n.k[i].mcid \in Nat
      <4>1. n.k[i] \in Trees BY <3>1, <3>2, KidsAre
      <4>2. ~IsElem(n.k[i]) => n.k[i].mcid \in Nat BY <4>1, TreeKinds
      <4>. QED BY <3>1, <4>1, <4>2, ElemKidsAre
    <3>. QED BY <3>1, <3>2
  <2>2. f \in Partial(V) /\ \A y \in ElemKids(n) : f[y] = R[y]
    <3>1. f \in [ElemKids(n) -> V] /\ ElemKids(n) \in SUBSET Nodes
      BY <1>4, ElemKidsAre DEF OnKids
    <3>2. \A y \in ElemKids(n) : f[y] = R[y] BY DEF OnKids
    <3>. QED BY <3>1, <3>2 DEF Partial
  <2>. HIDE DEF f
  <2>3. kids(n, f) = r BY <2>1, <2>2 DEF kids, AllSaid, Said
  <2>4. r \in Seq(V)
    <3>1. \A i \in 1..m : Said(R, n.k[i]) \in V BY <1>4, <2>1 DEF Said, V
    <3>2. r \in [1..m -> V] BY <2>1, <3>1 DEF AllSaid
    <3>. HIDE DEF r, m
    <3>. QED BY <2>1, <3>2, SeqOfFunction
  <2>5. R[n] = F[<<n, f>>] BY <1>4, SameGrounded DEF Unfolding, f
  <2>6. R[n] = FlattenSeq(r) BY <1>3, <2>2, <2>3, <2>4, <2>5
  <2>. QED BY <2>6 DEF ReadKids, AllSaid, Said
<1>6. IsReading(R) BY <1>4, <1>5 DEF IsReading, ReadKids, V
<1>. QED BY <1>6

LEMMA SaidType ==
  ASSUME NEW R, IsReading(R)
  PROVE  /\ \A x \in Trees : Said(R, x) \in Seq(Nat)
         /\ \A n \in Nodes : Said(R, n) = R[n] /\ R[n] = Aloud(R, n.k)
         /\ \A k \in Seq(Trees) : /\ AllSaid(R, k) \in Seq(Seq(Nat))
                                  /\ Len(AllSaid(R, k)) = Len(k)
                                  /\ Aloud(R, k) \in Seq(Nat)
<1>1. \A x \in Trees : Said(R, x) \in Seq(Nat)
  <2>1. SUFFICES ASSUME NEW x \in Trees PROVE Said(R, x) \in Seq(Nat) OBVIOUS
  <2>2. CASE x \in Nodes
    <3>1. IsElem(x) /\ R[x] \in Seq(Nat) BY <2>2, TreeKinds DEF IsReading
    <3>. QED BY <3>1 DEF Said
  <2>3. CASE x \notin Nodes
    <3>1. ~IsElem(x) /\ x.mcid \in Nat BY <2>3, TreeKinds
    <3>. QED BY <3>1 DEF Said
  <2>. QED BY <2>2, <2>3
<1>2. \A n \in Nodes : Said(R, n) = R[n] /\ R[n] = Aloud(R, n.k)
  BY TreeKinds DEF IsReading, ReadKids, Aloud, AllSaid, Said
<1>3. ASSUME NEW k \in Seq(Trees)
      PROVE  /\ AllSaid(R, k) \in Seq(Seq(Nat))
             /\ Len(AllSaid(R, k)) = Len(k)
             /\ Aloud(R, k) \in Seq(Nat)
  <2>. DEFINE n == Len(k)
  <2>1. n \in Nat /\ DOMAIN k = 1..n /\ \A i \in 1..n : k[i] \in Trees OBVIOUS
  <2>. HIDE DEF n
  <2>2. AllSaid(R, k) \in [1..n -> Seq(Nat)] BY <1>1, <2>1 DEF AllSaid
  <2>3. AllSaid(R, k) \in Seq(Seq(Nat)) /\ Len(AllSaid(R, k)) = n
    BY <2>1, <2>2, SeqOfFunction
  <2>. QED BY <2>3, FlattenType DEF Aloud, n
<1>. QED BY <1>1, <1>2, <1>3

\* Kids that say the same, one by one, say the same together.
LEMMA SaidAlike ==
  ASSUME NEW R, NEW Q, NEW a \in Seq(Trees), NEW b \in Seq(Trees), Len(a) = Len(b),
         \A i \in 1..Len(a) : Said(R, a[i]) = Said(Q, b[i])
  PROVE  Aloud(R, a) = Aloud(Q, b)
<1>1. AllSaid(R, a) = AllSaid(Q, b) BY DEF AllSaid
<1>. QED BY <1>1 DEF Aloud

LEMMA OneAfterTheOther ==
  ASSUME NEW a \in Seq(Nat), NEW b \in Seq(Nat), NEW c \in Seq(Nat)
  PROVE  (a \o b) \o c = a \o (b \o c)
<1>. DEFINE N == Nat
<1>1. a \in Seq(N) /\ b \in Seq(N) /\ c \in Seq(N) OBVIOUS
<1>. HIDE DEF N
<1>. QED BY <1>1, ConcatAssociative, SMTT(30)

LEMMA SaidOnAndOn ==
  ASSUME NEW R, IsReading(R), NEW a \in Seq(Trees), NEW b \in Seq(Trees)
  PROVE  a \o b \in Seq(Trees) /\ Aloud(R, a \o b) = Aloud(R, a) \o Aloud(R, b)
<1>. DEFINE m == Len(a)
            n == Len(b)
            x == AllSaid(R, a)
            y == AllSaid(R, b)
<1>1. /\ x \in Seq(Seq(Nat)) /\ y \in Seq(Seq(Nat)) /\ Len(x) = m /\ Len(y) = n
      /\ a \o b \in Seq(Trees) /\ Len(a \o b) = m + n /\ m \in Nat /\ n \in Nat
      /\ \A i \in 1..(m + n) : (a \o b)[i] = IF i <= m THEN a[i] ELSE b[i - m]
  BY SaidType, ConcatProperties
<1>2. /\ x \o y \in Seq(Seq(Nat)) /\ Len(x \o y) = m + n
      /\ \A i \in 1..(m + n) : (x \o y)[i] = IF i <= m THEN x[i] ELSE y[i - m]
  <2>. HIDE DEF x, y
  <2>1. /\ x \o y \in Seq(Seq(Nat)) /\ Len(x \o y) = Len(x) + Len(y)
        /\ \A i \in 1..(Len(x) + Len(y)) :
             (x \o y)[i] = IF i <= Len(x) THEN x[i] ELSE y[i - Len(x)]
    <3>. DEFINE T == Seq(Nat)
    <3>1. x \in Seq(T) /\ y \in Seq(T) BY <1>1
    <3>. HIDE DEF T
    <3>2. /\ x \o y \in Seq(T) /\ Len(x \o y) = Len(x) + Len(y)
          /\ \A i \in 1..(Len(x) + Len(y)) :
               (x \o y)[i] = IF i <= Len(x) THEN x[i] ELSE y[i - Len(x)]
      BY <3>1, ConcatProperties
    <3>. QED BY <3>2 DEF T
  <2>. QED BY <1>1, <2>1
<1>3. /\ AllSaid(R, a \o b) \in Seq(Seq(Nat)) /\ Len(AllSaid(R, a \o b)) = m + n
  BY <1>1, SaidType
<1>4. ASSUME NEW i \in 1..(m + n) PROVE AllSaid(R, a \o b)[i] = (x \o y)[i]
  <2>1. AllSaid(R, a \o b)[i] = Said(R, (a \o b)[i])
    <3>1. DOMAIN (a \o b) = 1..(m + n) BY <1>1
    <3>. QED BY <3>1 DEF AllSaid
  <2>2. CASE i <= m
    <3>1. i \in DOMAIN a BY <1>1, <2>2
    <3>2. x[i] = Said(R, a[i]) BY <3>1 DEF AllSaid
    <3>. HIDE DEF x, y, m, n
    <3>. QED BY <1>1, <1>2, <2>1, <2>2, <3>2
  <2>3. CASE ~(i <= m)
    <3>1. i - m \in 1..n /\ DOMAIN b = 1..n BY <1>1, <2>3
    <3>2. y[i - m] = Said(R, b[i - m]) BY <3>1 DEF AllSaid
    <3>. HIDE DEF x, y, m, n
    <3>. QED BY <1>1, <1>2, <2>1, <2>3, <3>2
  <2>. QED BY <2>2, <2>3
<1>5. AllSaid(R, a \o b) = x \o y
  <2>. DEFINE u == AllSaid(R, a \o b)
              v == x \o y
  <2>1. u \in Seq(Seq(Nat)) /\ v \in Seq(Seq(Nat)) /\ Len(u) = Len(v)
        /\ \A i \in 1..Len(u) : u[i] = v[i]
    BY <1>2, <1>3, <1>4
  <2>. HIDE DEF u, v
  <2>2. u = v BY <2>1, SeqEqual
  <2>. QED BY <2>2 DEF u, v
<1>6. FlattenSeq(x \o y) = FlattenSeq(x) \o FlattenSeq(y)
  <2>. HIDE DEF x, y
  <2>. QED BY <1>1, FlattenConcat
<1>. QED BY <1>1, <1>5, <1>6 DEF Aloud

LEMMA SaidAlone ==
  ASSUME NEW R, IsReading(R), NEW x \in Trees
  PROVE  <<x>> \in Seq(Trees) /\ Aloud(R, <<x>>) = Said(R, x)
<1>1. Said(R, x) \in Seq(Nat) BY SaidType
<1>2. AllSaid(R, <<x>>) = <<Said(R, x)>> BY DEF AllSaid
<1>3. FlattenSeq(<<Said(R, x)>>) = Said(R, x) BY <1>1, FlattenOne
<1>. QED BY <1>2, <1>3 DEF Aloud

LEMMA SaidByNone ==
  ASSUME NEW R
  PROVE  <<>> \in Seq(Trees) /\ Aloud(R, <<>>) = <<>>
<1>1. AllSaid(R, <<>>) = <<>> BY DEF AllSaid
<1>2. Len(<<>>) = 0 OBVIOUS
<1>. QED BY <1>1, <1>2 DEF Aloud, FlattenSeq

\* An element given new kids, and one made of kids.
LEMMA NewElements ==
  ASSUME NEW R, IsReading(R)
  PROVE  /\ \A n \in Nodes, k \in Seq(Trees) :
              /\ SetKids(n, k) \in Nodes /\ SetKids(n, k).s = n.s /\ SetKids(n, k).k = k
              /\ R[SetKids(n, k)] = Aloud(R, k)
              /\ [n EXCEPT !.k = k] \in Nodes /\ [n EXCEPT !.k = k].s = n.s
              /\ [n EXCEPT !.k = k].k = k
              /\ R[[n EXCEPT !.k = k]] = Aloud(R, k)
         /\ \A s \in Kinds, k \in Seq(Trees) :
              /\ Elem(s, k) \in Nodes /\ Elem(s, k).s = s /\ Elem(s, k).k = k
              /\ R[Elem(s, k)] = Aloud(R, k)
         /\ \A s \in Kinds, x \in Trees :
              /\ Only(s, x) \in Nodes /\ Only(s, x).s = s /\ R[Only(s, x)] = Said(R, x)
<1>1. ASSUME NEW n \in Nodes, NEW k \in Seq(Trees)
      PROVE  /\ SetKids(n, k) \in Nodes /\ SetKids(n, k).s = n.s /\ SetKids(n, k).k = k
             /\ [n EXCEPT !.k = k] \in Nodes /\ [n EXCEPT !.k = k].s = n.s
             /\ [n EXCEPT !.k = k].k = k
  BY DEF Nodes, Elements, SetKids
<1>2. ASSUME NEW s \in Kinds, NEW k \in Seq(Trees)
      PROVE  Elem(s, k) \in Nodes /\ Elem(s, k).s = s /\ Elem(s, k).k = k
  BY DEF Nodes, Elements, Elem
<1>3. ASSUME NEW s \in Kinds, NEW x \in Trees
      PROVE  /\ Only(s, x) \in Nodes /\ Only(s, x).s = s /\ R[Only(s, x)] = Said(R, x)
  <2>1. <<>> \in Seq(Trees) /\ <<x>> \in Seq(Trees) /\ Aloud(R, <<x>>) = Said(R, x)
    BY SaidAlone, SaidByNone
  <2>2. Elem(s, <<>>) \in Nodes /\ Elem(s, <<>>).s = s BY <1>2, <2>1
  <2>3. /\ SetKids(Elem(s, <<>>), <<x>>) \in Nodes
        /\ SetKids(Elem(s, <<>>), <<x>>).s = s
        /\ SetKids(Elem(s, <<>>), <<x>>).k = <<x>>
    BY <1>1, <2>1, <2>2
  <2>. QED BY <2>1, <2>3, SaidType DEF Only
<1>4. ASSUME NEW n \in Nodes PROVE R[n] = Aloud(R, n.k) BY SaidType
<1>5. ASSUME NEW n \in Nodes, NEW k \in Seq(Trees)
      PROVE  R[SetKids(n, k)] = Aloud(R, k) /\ R[[n EXCEPT !.k = k]] = Aloud(R, k)
  <2>1. /\ R[SetKids(n, k)] = Aloud(R, SetKids(n, k).k)
        /\ R[[n EXCEPT !.k = k]] = Aloud(R, [n EXCEPT !.k = k].k)
    BY <1>1, <1>4
  <2>. QED BY <1>1, <2>1
<1>6. ASSUME NEW s \in Kinds, NEW k \in Seq(Trees)
      PROVE  R[Elem(s, k)] = Aloud(R, k)
  BY <1>2, <1>4
<1>. QED BY <1>1, <1>2, <1>3, <1>5, <1>6

\* The kids between two of them, and up to one of them.
LEMMA SaidBetween ==
  ASSUME NEW R, IsReading(R), NEW k \in Seq(Trees), NEW i \in 0..Len(k), NEW j \in i..Len(k)
  PROVE  /\ SubSeq(k, 1, i) \in Seq(Trees) /\ SubSeq(k, i + 1, j) \in Seq(Trees)
         /\ Aloud(R, SubSeq(k, 1, j)) = Aloud(R, SubSeq(k, 1, i)) \o Aloud(R, SubSeq(k, i + 1, j))
<1>. DEFINE a == SubSeq(k, 1, i)
            b == SubSeq(k, i + 1, j)
<1>1. Len(k) \in Nat /\ \A l \in 1..Len(k) : k[l] \in Trees OBVIOUS
<1>2. a \in Seq(Trees)
  <2>1. 1 \in Int /\ i \in Int /\ \A l \in 1..i : k[l] \in Trees BY <1>1
  <2>. QED BY <2>1, SubSeqProperties
<1>3. b \in Seq(Trees)
  <2>1. i + 1 \in Int /\ j \in Int /\ \A l \in (i + 1)..j : k[l] \in Trees
    BY <1>1
  <2>. QED BY <2>1, SubSeqProperties
<1>4. a \o b = SubSeq(k, 1, j)
  <2>1. 1 \in 1..(Len(k) + 1) /\ i \in (1 - 1)..Len(k) /\ j \in i..Len(k)
    BY <1>1
  <2>. QED BY <2>1, ConcatAdjacentSubSeq
<1>. HIDE DEF a, b
<1>5. Aloud(R, a \o b) = Aloud(R, a) \o Aloud(R, b) BY <1>2, <1>3, SaidOnAndOn
<1>. QED BY <1>2, <1>3, <1>4, <1>5 DEF a, b

LEMMA SaidSoFar ==
  ASSUME NEW R, IsReading(R), NEW k \in Seq(Trees), NEW n, n = Len(k)
  PROVE  /\ n \in Nat
         /\ \A j \in 0..n : SubSeq(k, 1, j) \in Seq(Trees)
         /\ Aloud(R, SubSeq(k, 1, 0)) = <<>>
         /\ SubSeq(k, 1, n) = k
         /\ \A i \in 1..n :
              Aloud(R, SubSeq(k, 1, i)) = Aloud(R, SubSeq(k, 1, i - 1)) \o Said(R, k[i])
<1>1. n \in Nat /\ \A i \in 1..n : k[i] \in Trees OBVIOUS
<1>2. ASSUME NEW j \in 0..n PROVE SubSeq(k, 1, j) \in Seq(Trees)
  <2>1. j \in 0..Len(k) /\ j \in j..Len(k) BY <1>1
  <2>. QED BY <2>1, SaidBetween
<1>3. Aloud(R, SubSeq(k, 1, 0)) = <<>>
  <2>1. SubSeq(k, 1, 0) = <<>> BY SubSeqEmpty
  <2>. QED BY <2>1, SaidByNone
<1>4. SubSeq(k, 1, n) = k BY SubSeqFull
<1>5. ASSUME NEW i \in 1..n
      PROVE  Aloud(R, SubSeq(k, 1, i)) = Aloud(R, SubSeq(k, 1, i - 1)) \o Said(R, k[i])
  <2>. DEFINE u == SubSeq(k, i, i)
              h == i - 1
  <2>1. h \in 0..Len(k) /\ i \in h..Len(k) /\ h + 1 = i /\ k[i] \in Trees
    BY <1>1
  <2>2. u = <<k[i]>>
    <3>1. i \in Int /\ \A l \in i..i : k[l] \in Trees BY <2>1
    <3>2. u \in Seq(Trees) /\ Len(u) = 1 /\ u[1] = k[i]
      BY <3>1, SubSeqProperties
    <3>. HIDE DEF u
    <3>. QED BY <3>2
  <2>3. Aloud(R, <<k[i]>>) = Said(R, k[i]) BY <2>1, SaidAlone
  <2>. HIDE DEF h
  <2>4. Aloud(R, SubSeq(k, 1, i)) = Aloud(R, SubSeq(k, 1, h)) \o Aloud(R, SubSeq(k, h + 1, i))
    BY <2>1, SaidBetween
  <2>. QED BY <2>1, <2>2, <2>3, <2>4 DEF h
<1>. QED BY <1>1, <1>2, <1>3, <1>4, <1>5

\* Kids replaced piece by piece.
LEMMA SaidInPieces ==
  ASSUME NEW R, IsReading(R), NEW k \in Seq(Trees), NEW ss \in Seq(Seq(Trees)),
         NEW reach, InPieces(R, k, ss, reach)
  PROVE  FlattenSeq(ss) \in Seq(Trees) /\ Aloud(R, FlattenSeq(ss)) = Aloud(R, k)
<1>. DEFINE n == Len(k)
<1>0. /\ Len(ss) = n /\ n = Len(k) /\ reach \in [0..n -> 0..n] /\ reach[0] = 0 /\ reach[n] = n
      /\ \A i \in 1..n : Aloud(R, SubSeq(k, 1, reach[i]))
                            = Aloud(R, SubSeq(k, 1, reach[i - 1])) \o Aloud(R, ss[i])
  BY DEF InPieces
<1>. HIDE DEF n
<1>1. PICK f : Adds(f, ss) BY SomethingAdds
<1>2. /\ n \in Nat /\ f[0] = <<>> /\ \A i \in 1..n : f[i] = f[i - 1] \o ss[i] /\ ss[i] \in Seq(Trees)
  <2>1. n \in Nat BY <1>0
  <2>2. f[0] = <<>> /\ \A i \in 1..n : f[i] = f[i - 1] \o ss[i]
    BY <1>0, <1>1 DEF Adds
  <2>3. \A i \in 1..n : ss[i] \in Seq(Trees) BY <1>0
  <2>. QED BY <2>1, <2>2, <2>3
<1>3. \A i \in 0..n : f[i] \in Seq(Trees) BY <1>0, <1>1, JoinedSoFar
<1>. DEFINE T == {m \in Nat : m <= n => Aloud(R, f[m]) = Aloud(R, SubSeq(k, 1, reach[m]))}
<1>4. 0 \in T BY <1>0, <1>2, SaidByNone, SaidSoFar
<1>5. ASSUME NEW m \in Nat, m \in T PROVE m + 1 \in T
  <2>1. SUFFICES ASSUME m + 1 <= n
                 PROVE  Aloud(R, f[m + 1]) = Aloud(R, SubSeq(k, 1, reach[m + 1]))
    OBVIOUS
  <2>2. m + 1 \in 1..n /\ (m + 1) - 1 = m /\ m <= n /\ m \in 0..n BY <1>2, <2>1
  <2>3. f[m + 1] = f[m] \o ss[m + 1] /\ f[m] \in Seq(Trees) /\ ss[m + 1] \in Seq(Trees)
    BY <1>2, <1>3, <2>2
  <2>4. Aloud(R, f[m + 1]) = Aloud(R, f[m]) \o Aloud(R, ss[m + 1])
    <3>. DEFINE a == f[m]
                b == ss[m + 1]
    <3>1. a \in Seq(Trees) /\ b \in Seq(Trees) BY <2>3
    <3>. HIDE DEF a, b
    <3>2. Aloud(R, a \o b) = Aloud(R, a) \o Aloud(R, b) BY <3>1, SaidOnAndOn
    <3>. QED BY <2>3, <3>2 DEF a, b
  <2>5. Aloud(R, SubSeq(k, 1, reach[m + 1]))
          = Aloud(R, SubSeq(k, 1, reach[m])) \o Aloud(R, ss[m + 1])
    BY <1>0, <2>2
  <2>. QED BY <1>5, <2>2, <2>4, <2>5
<1>6. T = Nat
  <2>1. T \in SUBSET Nat OBVIOUS
  <2>. HIDE DEF T
  <2>. QED BY <1>4, <1>5, <2>1, FromZeroOn
<1>7. Aloud(R, f[n]) = Aloud(R, k)
  <2>1. Aloud(R, f[n]) = Aloud(R, SubSeq(k, 1, n)) BY <1>0, <1>2, <1>6
  <2>. QED BY <1>0, <2>1, SaidSoFar
<1>8. FlattenSeq(ss) = f[n] BY <1>0, <1>1, FlattenAdds
<1>. QED BY <1>7, <1>8, FlattenType

-----------------------------------------------------------------------------
(* What the passes do at one element.                                      *)

LEMMA OnlySaid ==
  ASSUME NEW R, IsReading(R), NEW x \in Trees
  PROVE  \A s \in Kinds : Only(s, x) \in Trees /\ Said(R, Only(s, x)) = Said(R, x)
<1>1. SUFFICES ASSUME NEW s \in Kinds
               PROVE  Only(s, x) \in Trees /\ Said(R, Only(s, x)) = Said(R, x)
  OBVIOUS
<1>. DEFINE o == Only(s, x)
<1>2. o \in Nodes /\ R[o] = Said(R, x) BY NewElements
<1>. HIDE DEF o
<1>3. o \in Trees /\ Said(R, o) = R[o] BY <1>2, TreeKinds, SaidType
<1>. QED BY <1>2, <1>3 DEF o

\* Every kid replaced by one that says the same.
LEMMA KidByKid ==
  ASSUME NEW R, IsReading(R), NEW n \in Nodes, NEW k, k \in [DOMAIN n.k -> Trees],
         \A i \in DOMAIN n.k : Said(R, k[i]) = Said(R, n.k[i])
  PROVE  /\ k \in Seq(Trees) /\ Len(k) = Len(n.k)
         /\ SetKids(n, k) \in Nodes /\ R[SetKids(n, k)] = R[n]
         /\ [n EXCEPT !.k = k] \in Nodes /\ R[[n EXCEPT !.k = k]] = R[n]
<1>. DEFINE m == Len(n.k)
<1>1. n.k \in Seq(Trees) /\ DOMAIN n.k = 1..m /\ m \in Nat BY TreeKinds
<1>. HIDE DEF m
<1>2. k \in Seq(Trees) /\ Len(k) = m BY <1>1, SeqOfFunction
<1>3. Aloud(R, k) = Aloud(R, n.k) BY <1>1, <1>2, SaidAlike
<1>4. R[n] = Aloud(R, n.k) BY SaidType
<1>5. /\ SetKids(n, k) \in Nodes /\ R[SetKids(n, k)] = Aloud(R, k)
      /\ [n EXCEPT !.k = k] \in Nodes /\ R[[n EXCEPT !.k = k]] = Aloud(R, k)
  BY <1>2, NewElements
<1>. QED BY <1>2, <1>3, <1>4, <1>5 DEF m

LEMMA RowKidsSaid ==
  ASSUME NEW R, IsReading(R), NEW n \in Nodes
  PROVE  RowKids(n) \in Nodes /\ R[RowKids(n)] = R[n]
<1>. DEFINE k == [i \in DOMAIN n.k |-> IF IsCell(n.k[i]) THEN n.k[i] ELSE Only("TD", n.k[i])]
<1>1. ASSUME NEW i \in DOMAIN n.k PROVE k[i] \in Trees /\ Said(R, k[i]) = Said(R, n.k[i])
  <2>1. n.k[i] \in Trees BY KidsAre
  <2>2. Only("TD", n.k[i]) \in Trees /\ Said(R, Only("TD", n.k[i])) = Said(R, n.k[i])
    <3>1. "TD" \in Kinds BY DEF Kinds
    <3>. QED BY <2>1, <3>1, OnlySaid
  <2>. QED BY <2>1, <2>2
<1>2. k \in [DOMAIN n.k -> Trees] BY <1>1
<1>3. RowKids(n) = n \/ RowKids(n) = SetKids(n, k) BY DEF RowKids
<1>. HIDE DEF k
<1>4. SetKids(n, k) \in Nodes /\ R[SetKids(n, k)] = R[n] BY <1>1, <1>2, KidByKid
<1>. QED BY <1>3, <1>4

LEMMA ContentsKidsSaid ==
  ASSUME NEW R, IsReading(R), NEW n \in Nodes
  PROVE  ContentsKids(n) \in Nodes /\ R[ContentsKids(n)] = R[n]
<1>. DEFINE k == [i \in DOMAIN n.k |->
                    IF Type(n.k[i]) \in Contents THEN n.k[i] ELSE Only("TOCI", n.k[i])]
<1>1. ASSUME NEW i \in DOMAIN n.k PROVE k[i] \in Trees /\ Said(R, k[i]) = Said(R, n.k[i])
  <2>1. n.k[i] \in Trees BY KidsAre
  <2>2. Only("TOCI", n.k[i]) \in Trees /\ Said(R, Only("TOCI", n.k[i])) = Said(R, n.k[i])
    <3>1. "TOCI" \in Kinds BY DEF Kinds
    <3>. QED BY <2>1, <3>1, OnlySaid
  <2>. QED BY <2>1, <2>2
<1>2. k \in [DOMAIN n.k -> Trees] BY <1>1
<1>3. ContentsKids(n) = n \/ ContentsKids(n) = SetKids(n, k) BY DEF ContentsKids
<1>. HIDE DEF k
<1>4. SetKids(n, k) \in Nodes /\ R[SetKids(n, k)] = R[n] BY <1>1, <1>2, KidByKid
<1>. QED BY <1>3, <1>4

LEMMA ListKidsSaid ==
  ASSUME NEW R, IsReading(R), NEW n \in Nodes
  PROVE  ListKids(n) \in Nodes /\ R[ListKids(n)] = R[n]
<1>. DEFINE k == [i \in DOMAIN n.k |-> Only("LI", Only("LBody", n.k[i]))]
<1>1. ASSUME NEW i \in DOMAIN n.k PROVE k[i] \in Trees /\ Said(R, k[i]) = Said(R, n.k[i])
  <2>. DEFINE b == Only("LBody", n.k[i])
  <2>1. n.k[i] \in Trees BY KidsAre
  <2>2. b \in Trees /\ Said(R, b) = Said(R, n.k[i])
    <3>1. "LBody" \in Kinds BY DEF Kinds
    <3>. QED BY <2>1, <3>1, OnlySaid
  <2>. HIDE DEF b
  <2>3. Only("LI", b) \in Trees /\ Said(R, Only("LI", b)) = Said(R, b)
    <3>1. "LI" \in Kinds BY DEF Kinds
    <3>. QED BY <2>2, <3>1, OnlySaid
  <2>. QED BY <2>2, <2>3 DEF b
<1>2. k \in [DOMAIN n.k -> Trees] BY <1>1
<1>3. ListKids(n) = n \/ ListKids(n) = SetKids(n, k) BY DEF ListKids
<1>. HIDE DEF k
<1>4. SetKids(n, k) \in Nodes /\ R[SetKids(n, k)] = R[n] BY <1>1, <1>2, KidByKid
<1>. QED BY <1>3, <1>4

LEMMA WithRowSaid ==
  ASSUME NEW R, IsReading(R), NEW kids \in Seq(Trees), NEW x \in Trees
  PROVE  /\ WithRow(kids, x) \in Seq(Trees)
         /\ Aloud(R, WithRow(kids, x)) = Aloud(R, kids) \o Said(R, x)
<1>. DEFINE row == Only("TR", IF IsCell(x) THEN x ELSE Only("TD", x))
            tail == Last(kids)
            grown == SetKids(tail, Append(tail.k, row))
<1>1. "TR" \in Kinds /\ "TD" \in Kinds /\ "TBody" \in Kinds BY DEF Kinds
<1>2. row \in Trees /\ Said(R, row) = Said(R, x)
  <2>. DEFINE cell == IF IsCell(x) THEN x ELSE Only("TD", x)
  <2>1. cell \in Trees /\ Said(R, cell) = Said(R, x) BY <1>1, OnlySaid
  <2>. HIDE DEF cell
  <2>2. Only("TR", cell) \in Trees /\ Said(R, Only("TR", cell)) = Said(R, cell)
    BY <1>1, <2>1, OnlySaid
  <2>. QED BY <2>1, <2>2 DEF cell
<1>. HIDE DEF row
\* One more kid.
<1>3. ASSUME NEW y \in Trees, Said(R, y) = Said(R, x)
      PROVE  /\ Append(kids, y) \in Seq(Trees)
             /\ Aloud(R, Append(kids, y)) = Aloud(R, kids) \o Said(R, x)
  <2>1. <<y>> \in Seq(Trees) /\ Aloud(R, <<y>>) = Said(R, y) BY SaidAlone
  <2>2. Append(kids, y) = kids \o <<y>> BY AppendIsConcat
  <2>3. kids \o <<y>> \in Seq(Trees) /\ Aloud(R, kids \o <<y>>) = Aloud(R, kids) \o Aloud(R, <<y>>)
    BY <2>1, SaidOnAndOn
  <2>. QED BY <1>3, <2>1, <2>2, <2>3
\* A row of its own, in a body of its own.
<1>4. Only("TBody", row) \in Trees /\ Said(R, Only("TBody", row)) = Said(R, x)
  BY <1>1, <1>2, OnlySaid
\* A row of the last body.
<1>5. ASSUME kids # <<>>, Type(tail) = "TBody"
      PROVE  /\ Append(Front(kids), grown) \in Seq(Trees)
             /\ Aloud(R, Append(Front(kids), grown)) = Aloud(R, kids) \o Said(R, x)
  <2>. DEFINE n == Len(kids)
              front == SubSeq(kids, 1, n - 1)
  <2>1. n \in Nat /\ n \in 1..n /\ n - 1 \in 0..n /\ tail = kids[n] /\ tail \in Trees
    <3>1. n \in Nat /\ n # 0 BY <1>5, EmptySeq
    <3>2. n \in 1..n /\ n - 1 \in 0..n BY <3>1
    <3>. QED BY <3>1, <3>2 DEF Last
  <2>2. /\ front \in Seq(Trees) /\ Front(kids) = front
        /\ Aloud(R, kids) = Aloud(R, front) \o Said(R, tail)
    <3>1. n = Len(kids) /\ Front(kids) = front BY DEF Front
    <3>2. front \in Seq(Trees) BY <2>1, <3>1, SaidSoFar
    <3>3. SubSeq(kids, 1, n) = kids BY <3>1, SaidSoFar
    <3>4. Aloud(R, SubSeq(kids, 1, n)) = Aloud(R, front) \o Said(R, kids[n])
      BY <2>1, <3>1, SaidSoFar
    <3>. QED BY <2>1, <3>1, <3>2, <3>3, <3>4
  <2>. HIDE DEF front, n, tail
  <2>3. tail \in Nodes /\ tail.k \in Seq(Trees) /\ Said(R, tail) = Aloud(R, tail.k)
    <3>1. tail \in Nodes BY <1>5, <2>1, TreeKinds
    <3>. QED BY <3>1, TreeKinds, SaidType
  <2>. DEFINE k == tail.k
  <2>4. Append(k, row) \in Seq(Trees) /\ Aloud(R, Append(k, row)) = Aloud(R, k) \o Said(R, row)
    <3>1. k \in Seq(Trees) BY <2>3
    <3>. HIDE DEF k
    <3>2. <<row>> \in Seq(Trees) /\ Aloud(R, <<row>>) = Said(R, row)
      BY <1>2, SaidAlone
    <3>3. Append(k, row) = k \o <<row>> BY <1>2, <3>1, AppendIsConcat
    <3>4. k \o <<row>> \in Seq(Trees) /\ Aloud(R, k \o <<row>>) = Aloud(R, k) \o Aloud(R, <<row>>)
      BY <3>1, <3>2, SaidOnAndOn
    <3>. QED BY <3>2, <3>3, <3>4
  <2>5. grown \in Nodes /\ R[grown] = Aloud(R, k) \o Said(R, x)
    <3>. DEFINE w == Append(k, row)
    <3>1. w \in Seq(Trees) /\ Aloud(R, w) = Aloud(R, k) \o Said(R, x)
      BY <1>2, <2>4
    <3>. HIDE DEF w
    <3>2. SetKids(tail, w) \in Nodes /\ R[SetKids(tail, w)] = Aloud(R, w)
      <4>1. tail \in Nodes /\ w \in Seq(Trees) BY <2>3, <3>1
      <4>. QED BY <4>1, NewElements, ZenonT(30)
    <3>. QED BY <3>1, <3>2 DEF w
  <2>. HIDE DEF grown
  <2>6. grown \in Trees /\ Said(R, grown) = Said(R, tail) \o Said(R, x)
    <3>1. grown \in Trees /\ Said(R, grown) = R[grown]
      BY <2>5, TreeKinds, SaidType
    <3>. QED BY <2>3, <2>5, <3>1
  <2>7. <<grown>> \in Seq(Trees) /\ Aloud(R, <<grown>>) = Said(R, grown)
    BY <2>6, SaidAlone
  <2>8. Append(front, grown) = front \o <<grown>> BY <2>2, <2>6, AppendIsConcat
  <2>9. /\ front \o <<grown>> \in Seq(Trees)
        /\ Aloud(R, front \o <<grown>>) = Aloud(R, front) \o Aloud(R, <<grown>>)
    <3>. DEFINE last == <<grown>>
    <3>1. front \in Seq(Trees) /\ last \in Seq(Trees) BY <2>2, <2>7
    <3>. HIDE DEF front, last
    <3>2. front \o last \in Seq(Trees) /\ Aloud(R, front \o last) = Aloud(R, front) \o Aloud(R, last)
      BY <3>1, SaidOnAndOn
    <3>. QED BY <3>2 DEF last
  <2>10. Aloud(R, front) \o (Said(R, tail) \o Said(R, x)) = (Aloud(R, front) \o Said(R, tail)) \o Said(R, x)
    <3>1. /\ Aloud(R, front) \in Seq(Nat) /\ Said(R, tail) \in Seq(Nat)
          /\ Said(R, x) \in Seq(Nat)
      BY <2>1, <2>2, SaidType
    <3>. DEFINE a == Aloud(R, front)
                b == Said(R, tail)
                c == Said(R, x)
    <3>2. a \in Seq(Nat) /\ b \in Seq(Nat) /\ c \in Seq(Nat) BY <3>1
    <3>. HIDE DEF a, b, c
    <3>3. (a \o b) \o c = a \o (b \o c) BY <3>2, OneAfterTheOther
    <3>. QED BY <3>3 DEF a, b, c
  <2>. QED BY <2>2, <2>6, <2>7, <2>8, <2>9, <2>10
<1>. HIDE DEF grown, tail
<1>6. \/ WithRow(kids, x) = Append(kids, x)
      \/ /\ kids # <<>> /\ Type(tail) = "TBody"
         /\ WithRow(kids, x) = Append(Front(kids), grown)
      \/ WithRow(kids, x) = Append(kids, Only("TBody", row))
  BY DEF WithRow, row, tail, grown
<1>. QED BY <1>3, <1>4, <1>5, <1>6

\* The kids put in rows one after the other.
LEMMA InRowsStep ==
  ASSUME NEW k \in Seq(Trees)
  PROVE  \E c : /\ InRows(k) = c[Len(k)] /\ c[0] = <<>>
                /\ \A i \in 1..Len(k) : c[i] = WithRow(c[i - 1], k[i])
<1>0. PICK R : IsReading(R) BY ReadingExists
<1>. DEFINE n == Len(k)
            C == Seq(Trees)
            F == [p \in (1..n) \X C |-> WithRow(p[2], k[p[1]])]
            P(g) == g = [i \in 0..n |-> IF i = 0 THEN <<>> ELSE WithRow(g[i - 1], k[i])]
<1>1. n \in Nat /\ \A i \in 1..n : k[i] \in Trees OBVIOUS
<1>2. \A i \in 1..n, c \in C :
        WithRow(c, k[i]) \in C /\ Aloud(R, WithRow(c, k[i])) = Aloud(R, c) \o Said(R, k[i])
  BY <1>0, <1>1, WithRowSaid
<1>3. StepsIn(C, n, F) /\ \A i \in 1..n, c \in C : F[<<i, c>>] = WithRow(c, k[i])
  <2>. HIDE DEF C, n
  <2>. QED BY <1>2 DEF StepsIn
<1>4. <<>> \in C /\ Aloud(R, <<>>) = <<>> BY <1>0, SaidByNone
<1>. HIDE DEF C, F, n
<1>5. \E f : RunsFrom(C, n, F, <<>>, f)
  <2>. DEFINE a == <<>>
  <2>1. a \in C BY <1>4
  <2>. HIDE DEF a
  <2>2. \E f : RunsFrom(C, n, F, a, f) BY <1>1, <1>3, <2>1, Recursion
  <2>. QED BY <2>2 DEF a
<1>6. PICK f : RunsFrom(C, n, F, <<>>, f) BY <1>5
<1>7. /\ f \in [0..n -> C] /\ f[0] = <<>>
      /\ \A i \in 1..n : f[i - 1] \in C /\ f[i] = WithRow(f[i - 1], k[i])
  <2>1. f \in [0..n -> C] /\ f[0] = <<>> /\ \A i \in 1..n : f[i] = F[<<i, f[i - 1]>>]
    BY <1>6 DEF RunsFrom
  <2>2. \A i \in 1..n : f[i - 1] \in C
    <3>1. \A i \in 1..n : i - 1 \in 0..n BY <1>1
    <3>. QED BY <2>1, <3>1
  <2>. QED BY <1>3, <2>1, <2>2
<1>8. P(f)
  <2>. DEFINE e == [i \in 0..n |-> IF i = 0 THEN <<>> ELSE WithRow(f[i - 1], k[i])]
  <2>1. \A i \in 0..n : i = 0 \/ i \in 1..n BY <1>1
  <2>2. \A i \in 0..n : e[i] = f[i] BY <1>7, <2>1
  <2>3. f = [i \in 0..n |-> f[i]] /\ e = [i \in 0..n |-> e[i]] BY <1>7
  <2>. HIDE DEF e
  <2>4. e = f BY <2>2, <2>3
  <2>. QED BY <2>4 DEF e
<1>. DEFINE c == CHOOSE g : P(g)
<1>9. P(c)
  <2>. HIDE DEF P
  <2>. QED BY <1>8
<1>10. InRows(k) = c[n] BY DEF InRows, n
<1>. HIDE DEF c
<1>11. c[0] = <<>> /\ \A i \in 1..n : c[i] = WithRow(c[i - 1], k[i])
  <2>1. 0 \in 0..n /\ \A i \in 1..n : i \in 0..n /\ i # 0 BY <1>1
  <2>. QED BY <1>9, <2>1
<1>. QED BY <1>10, <1>11 DEF n

LEMMA InRowsSaid ==
  ASSUME NEW R, IsReading(R), NEW k \in Seq(Trees)
  PROVE  InRows(k) \in Seq(Trees) /\ Aloud(R, InRows(k)) = Aloud(R, k)
<1>. DEFINE n == Len(k)
            C == Seq(Trees)
<1>1. n \in Nat /\ \A i \in 1..n : k[i] \in Trees OBVIOUS
<1>2. \A i \in 1..n, c \in C :
        WithRow(c, k[i]) \in C /\ Aloud(R, WithRow(c, k[i])) = Aloud(R, c) \o Said(R, k[i])
  BY <1>1, WithRowSaid
<1>4. <<>> \in C /\ Aloud(R, <<>>) = <<>> BY SaidByNone
<1>5. PICK c : /\ InRows(k) = c[n] /\ c[0] = <<>>
               /\ \A i \in 1..n : c[i] = WithRow(c[i - 1], k[i])
  BY InRowsStep
<1>. HIDE DEF C, n
<1>. DEFINE T == {m \in Nat : m <= n => /\ c[m] \in C
                                       /\ Aloud(R, c[m]) = Aloud(R, SubSeq(k, 1, m))}
<1>12. 0 \in T
  <2>1. Aloud(R, SubSeq(k, 1, 0)) = <<>> BY SaidSoFar
  <2>. QED BY <1>4, <1>5, <2>1
<1>13. ASSUME NEW m \in Nat, m \in T PROVE m + 1 \in T
  <2>1. SUFFICES ASSUME m + 1 <= n
                 PROVE  c[m + 1] \in C /\ Aloud(R, c[m + 1]) = Aloud(R, SubSeq(k, 1, m + 1))
    OBVIOUS
  <2>2. m + 1 \in 1..n /\ (m + 1) - 1 = m /\ m <= n BY <1>1, <2>1
  <2>3. c[m + 1] = WithRow(c[m], k[m + 1]) /\ c[m] \in C BY <1>5, <1>13, <2>2
  <2>4. c[m + 1] \in C /\ Aloud(R, c[m + 1]) = Aloud(R, c[m]) \o Said(R, k[m + 1])
    BY <1>2, <2>2, <2>3
  <2>5. Aloud(R, SubSeq(k, 1, m + 1)) = Aloud(R, SubSeq(k, 1, (m + 1) - 1)) \o Said(R, k[m + 1])
    BY <2>2, SaidSoFar DEF n
  <2>. QED BY <1>13, <2>2, <2>4, <2>5
<1>14. T = Nat
  <2>1. T \in SUBSET Nat OBVIOUS
  <2>. HIDE DEF T
  <2>. QED BY <1>12, <1>13, <2>1, FromZeroOn
<1>15. SubSeq(k, 1, n) = k BY SaidSoFar DEF n
<1>16. c[n] \in C /\ Aloud(R, c[n]) = Aloud(R, SubSeq(k, 1, n)) BY <1>1, <1>14
<1>. QED BY <1>5, <1>15, <1>16 DEF C

LEMMA TableKidsSaid ==
  ASSUME NEW R, IsReading(R), NEW n \in Nodes
  PROVE  TableKids(n) \in Nodes /\ R[TableKids(n)] = R[n]
<1>. DEFINE k == InRows(n.k)
<1>1. k \in Seq(Trees) /\ Aloud(R, k) = R[n]
  <2>1. n.k \in Seq(Trees) /\ R[n] = Aloud(R, n.k) BY TreeKinds, SaidType
  <2>. QED BY <2>1, InRowsSaid
<1>2. TableKids(n) = n \/ TableKids(n) = SetKids(n, k) BY DEF TableKids
<1>. HIDE DEF k
<1>3. SetKids(n, k) \in Nodes /\ R[SetKids(n, k)] = Aloud(R, k)
  BY <1>1, NewElements, ZenonT(30)
<1>. QED BY <1>1, <1>2, <1>3

\* The least of some numbers up to n, or 0 if there are none.
LEMMA FirstOfSome ==
  ASSUME NEW n \in Nat, NEW I \in SUBSET (1..n), NEW i, i = IF I # {} THEN Min(I) ELSE 0
  PROVE  \/ I = {} /\ i = 0
         \/ i \in I /\ \A j \in I : i <= j
<1>1. CASE I = {} BY <1>1
<1>2. CASE I # {}
  <2>1. \E m \in I : \A j \in I : m <= j
    <3>1. I \subseteq Nat OBVIOUS
    <3>. QED BY <1>2, <3>1, LeastNat
  <2>2. i = CHOOSE m \in I : \A j \in I : m <= j BY <1>2 DEF Min
  <2>. QED BY <2>1, <2>2
<1>. QED BY <1>1, <1>2

LEMMA PromotedHeadSaid ==
  ASSUME NEW R, IsReading(R), NEW n \in Nodes
  PROVE  PromotedHead(n) \in Nodes /\ R[PromotedHead(n)] = R[n]
<1>. DEFINE k == n.k
            m == Len(k)
            I == {l \in 1..m : HeaderFirst(k[l])}
            i == SelectInSeq(k, HeaderFirst)
            x == k[i]
            h == Head(x.k)
            head == Elem("THead", <<h>>)
            rest == Tail(x.k)
            body == IF rest = <<>> THEN <<>> ELSE <<SetKids(x, rest)>>
            before == SubSeq(k, 1, i - 1)
            after == SubSeq(k, i + 1, m)
            new == before \o <<head>> \o body \o after
<1>1. k \in Seq(Trees) /\ m \in Nat /\ R[n] = Aloud(R, k) BY TreeKinds, SaidType
<1>2. i = 0 \/ (i \in 1..m /\ HeaderFirst(x))
  <2>1. i = IF I # {} THEN Min(I) ELSE 0 BY DEF SelectInSeq
  <2>2. I \in SUBSET (1..m) /\ \A l \in I : l \in 1..m /\ HeaderFirst(k[l])
    OBVIOUS
  <2>. HIDE DEF I, i, m
  <2>3. i = 0 \/ i \in I BY <1>1, <2>1, <2>2, FirstOfSome
  <2>. QED BY <2>2, <2>3
<1>3. PromotedHead(n) = n \/ (i # 0 /\ PromotedHead(n) = SetKids(n, new))
  BY DEF PromotedHead
<1>4. SUFFICES ASSUME i \in 1..m, HeaderFirst(x)
               PROVE  new \in Seq(Trees) /\ Aloud(R, new) = Aloud(R, k)
  <2>1. CASE PromotedHead(n) = n BY <2>1
  <2>2. CASE i # 0 /\ PromotedHead(n) = SetKids(n, new)
    <3>1. i \in 1..m /\ HeaderFirst(x) BY <1>2, <2>2
    <3>2. new \in Seq(Trees) /\ Aloud(R, new) = Aloud(R, k) BY <1>4, <3>1
    <3>. HIDE DEF new
    <3>3. SetKids(n, new) \in Nodes /\ R[SetKids(n, new)] = Aloud(R, new)
      BY <3>2, NewElements, ZenonT(30)
    <3>. QED BY <1>1, <2>2, <3>2, <3>3
  <2>. QED BY <1>3, <2>1, <2>2
<1>. HIDE DEF i, I
<1>5. x \in Trees BY <1>1, <1>4
<1>. HIDE DEF x
<1>6. x \in Nodes /\ x.k \in Seq(Trees) /\ x.k # <<>> /\ Said(R, x) = Aloud(R, x.k)
  <2>1. Type(x) = "TBody" /\ x.k # <<>> BY <1>4 DEF HeaderFirst
  <2>2. x \in Nodes BY <1>5, <2>1, TreeKinds
  <2>. QED BY <2>1, <2>2, TreeKinds, SaidType
<1>7. /\ h \in Trees /\ rest \in Seq(Trees)
      /\ Said(R, x) = Said(R, h) \o Aloud(R, rest)
  <2>. DEFINE s == x.k
  <2>1. s \in Seq(Trees) /\ s # <<>> BY <1>6
  <2>. HIDE DEF s
  <2>2. Head(s) \in Trees /\ Tail(s) \in Seq(Trees) /\ s = <<Head(s)>> \o Tail(s)
    <3>1. Len(s) \in Nat /\ Len(s) # 0 BY <2>1, EmptySeq
    <3>2. 1 \in 1..Len(s) /\ Len(s) \in 1..Len(s) BY <3>1
    <3>3. SubSeq(s, 1, Len(s)) = <<s[1]>> \o SubSeq(s, 1 + 1, Len(s))
      BY <2>1, <3>2, SubSeqRecursiveFirst
    <3>4. SubSeq(s, 1, Len(s)) = s BY <2>1, SubSeqFull
    <3>5. Tail(s) = SubSeq(s, 2, Len(s)) /\ Tail(s) \in Seq(Trees) /\ Head(s) \in Trees
      BY <2>1, TailIsSubSeq, HeadTailProperties
    <3>6. Head(s) = s[1] /\ 1 + 1 = 2 BY <2>1
    <3>. QED BY <3>3, <3>4, <3>5, <3>6
  <2>. DEFINE a == Head(s)
              t == Tail(s)
  <2>3. a \in Trees /\ t \in Seq(Trees) /\ s = <<a>> \o t BY <2>2
  <2>. HIDE DEF a, t
  <2>4. <<a>> \in Seq(Trees) /\ Aloud(R, <<a>>) = Said(R, a) BY <2>3, SaidAlone
  <2>5. Aloud(R, <<a>> \o t) = Aloud(R, <<a>>) \o Aloud(R, t)
    BY <2>3, <2>4, SaidOnAndOn
  <2>. QED BY <1>6, <2>3, <2>4, <2>5 DEF a, t, s
<1>. HIDE DEF h, rest
<1>8. <<head>> \in Seq(Trees) /\ Aloud(R, <<head>>) = Said(R, h)
  <2>1. "THead" \in Kinds BY DEF Kinds
  <2>2. <<h>> \in Seq(Trees) /\ Aloud(R, <<h>>) = Said(R, h) BY <1>7, SaidAlone
  <2>. DEFINE hs == <<h>>
  <2>. HIDE DEF hs
  <2>3. Elem("THead", hs) \in Nodes /\ R[Elem("THead", hs)] = Aloud(R, hs)
    BY <2>1, <2>2, NewElements, ZenonT(30) DEF hs
  <2>4. head \in Nodes /\ R[head] = Said(R, h) BY <2>2, <2>3 DEF hs
  <2>. HIDE DEF head
  <2>5. head \in Trees /\ Said(R, head) = Said(R, h)
    BY <2>4, TreeKinds, SaidType
  <2>. QED BY <2>5, SaidAlone
<1>. HIDE DEF head
<1>9. body \in Seq(Trees) /\ Aloud(R, body) = Aloud(R, rest)
  <2>1. CASE rest = <<>> BY <2>1, SaidByNone
  <2>2. CASE rest # <<>>
    <3>. DEFINE y == SetKids(x, rest)
    <3>1. y \in Nodes /\ R[y] = Aloud(R, rest)
      <4>1. x \in Nodes /\ rest \in Seq(Trees) BY <1>6, <1>7
      <4>. QED BY <4>1, NewElements
    <3>. HIDE DEF y
    <3>2. y \in Trees /\ Said(R, y) = Aloud(R, rest)
      BY <3>1, TreeKinds, SaidType
    <3>3. <<y>> \in Seq(Trees) /\ Aloud(R, <<y>>) = Said(R, y)
      BY <3>2, SaidAlone
    <3>4. body = <<y>> BY <2>2 DEF y
    <3>. HIDE DEF body
    <3>. QED BY <3>2, <3>3, <3>4
  <2>. QED BY <2>1, <2>2
<1>. HIDE DEF body
<1>10. /\ before \in Seq(Trees) /\ after \in Seq(Trees)
       /\ Aloud(R, k) = (Aloud(R, before) \o Said(R, x)) \o Aloud(R, after)
  <2>. HIDE DEF k
  <2>1. m = Len(k) OBVIOUS
  <2>. HIDE DEF m
  <2>2. i - 1 \in 0..m /\ i \in 0..m /\ m \in 0..m /\ m \in i..m BY <1>1, <1>4
  <2>3. before \in Seq(Trees) /\ after \in Seq(Trees) /\ SubSeq(k, 1, m) = k
    <3>1. k \in Seq(Trees) /\ i \in 0..Len(k) /\ m \in i..Len(k)
      BY <1>1, <2>1, <2>2
    <3>2. before \in Seq(Trees) /\ SubSeq(k, 1, m) = k
      BY <3>1, <2>1, <2>2, SaidSoFar
    <3>. QED BY <3>1, <3>2, SaidBetween
  <2>4. Aloud(R, SubSeq(k, 1, m)) = Aloud(R, SubSeq(k, 1, i)) \o Aloud(R, after)
    <3>1. k \in Seq(Trees) /\ i \in 0..Len(k) /\ m \in i..Len(k)
      BY <1>1, <2>1, <2>2
    <3>. QED BY <3>1, SaidBetween
  <2>5. Aloud(R, SubSeq(k, 1, i)) = Aloud(R, before) \o Said(R, k[i])
    BY <1>1, <1>4, <2>1, SaidSoFar
  <2>. QED BY <2>3, <2>4, <2>5 DEF x
<1>. HIDE DEF before, after
<1>11. /\ new \in Seq(Trees)
       /\ Aloud(R, new) = ((Aloud(R, before) \o Said(R, h)) \o Aloud(R, rest)) \o Aloud(R, after)
  <2>. DEFINE a == before \o <<head>>
              b == a \o body
  <2>. DEFINE hs == <<head>>
  <2>1. hs \in Seq(Trees) /\ Aloud(R, hs) = Said(R, h) BY <1>8
  <2>2. a \in Seq(Trees) /\ Aloud(R, a) = Aloud(R, before) \o Said(R, h)
    <3>. HIDE DEF hs
    <3>1. before \o hs \in Seq(Trees) /\ Aloud(R, before \o hs) = Aloud(R, before) \o Aloud(R, hs)
      BY <1>10, <2>1, SaidOnAndOn
    <3>. QED BY <2>1, <3>1 DEF hs
  <2>. HIDE DEF a
  <2>3. b \in Seq(Trees) /\ Aloud(R, b) = Aloud(R, a) \o Aloud(R, body)
    BY <1>9, <2>2, SaidOnAndOn
  <2>. HIDE DEF b
  <2>4. b \o after \in Seq(Trees) /\ Aloud(R, b \o after) = Aloud(R, b) \o Aloud(R, after)
    BY <1>10, <2>3, SaidOnAndOn
  <2>. QED BY <1>9, <2>2, <2>3, <2>4 DEF a, b
<1>12. (Aloud(R, before) \o Said(R, h)) \o Aloud(R, rest) = Aloud(R, before) \o Said(R, x)
  <2>. DEFINE a == Aloud(R, before)
              b == Said(R, h)
              c == Aloud(R, rest)
  <2>1. a \in Seq(Nat) /\ b \in Seq(Nat) /\ c \in Seq(Nat)
    BY <1>7, <1>10, SaidType
  <2>. HIDE DEF a, b, c
  <2>2. (a \o b) \o c = a \o (b \o c) BY <2>1, OneAfterTheOther
  <2>. QED BY <1>7, <2>2 DEF a, b, c
<1>. QED BY <1>10, <1>11, <1>12

\* A run of numbers has an end.
LEMMA RunEnds ==
  ASSUME NEW m \in Nat, NEW S \in SUBSET (1..m), NEW i \in S
  PROVE  \E j \in i..m : j + 1 \notin S /\ \A l \in i..j : l \in S
<1>. DEFINE J == {j \in Nat : j >= i /\ j + 1 \notin S}
<1>1. J \subseteq Nat /\ m \in J /\ i \in 1..m OBVIOUS
<1>2. PICK j \in J : \A l \in J : j <= l
  <2>. HIDE DEF J
  <2>. QED BY <1>1, LeastNat
<1>3. j \in i..m /\ j + 1 \notin S BY <1>1, <1>2
<1>4. ASSUME NEW l \in i..j PROVE l \in S
  <2>1. CASE l = i BY <2>1
  <2>2. CASE l # i
    <3>1. l - 1 \in Nat /\ l - 1 >= i /\ ~(j <= l - 1) /\ (l - 1) + 1 = l
      BY <1>1, <1>3, <2>2
    <3>2. l - 1 \notin J
      <4>. HIDE DEF J
      <4>. QED BY <1>2, <3>1
    <3>. QED BY <3>1, <3>2
  <2>. QED BY <2>1, <2>2
<1>. QED BY <1>3, <1>4

LEMMA GroupedSectionsSaid ==
  ASSUME NEW R, IsReading(R), NEW n \in Nodes
  PROVE  GroupedSections(n) \in Nodes /\ R[GroupedSections(n)] = R[n]
<1>. DEFINE k == n.k
            m == Len(k)
            section(i) == i \in DOMAIN k /\ Type(k[i]) \in Sections
            IsEnd(i, j) == j \in i..m /\ ~section(j + 1) /\ \A l \in i..j : section(l)
            end(i) == CHOOSE j \in i..m : ~section(j + 1) /\ \A l \in i..j : section(l)
            at(i) == IF ~section(i) THEN <<k[i]>>
                     ELSE IF section(i - 1) THEN <<>>
                     ELSE <<SetKids(Elem("Table", <<>>), SubSeq(k, i, end(i)))>>
            ss == [i \in DOMAIN k |-> at(i)]
            reach == [i \in 0..m |-> IF section(i) THEN end(i) ELSE i]
            new == FlattenSeq(ss)
<1>1. k \in Seq(Trees) /\ m \in Nat /\ DOMAIN k = 1..m /\ R[n] = Aloud(R, k)
  BY TreeKinds, SaidType
<1>2. GroupedSections(n) = n \/ GroupedSections(n) = SetKids(n, new)
  BY DEF GroupedSections
<1>3. SUFFICES new \in Seq(Trees) /\ Aloud(R, new) = Aloud(R, k)
  <2>. HIDE DEF new
  <2>. SUFFICES ASSUME new \in Seq(Trees), Aloud(R, new) = Aloud(R, k)
                PROVE  GroupedSections(n) \in Nodes /\ R[GroupedSections(n)] = R[n]
    BY <1>3
  <2>1. SetKids(n, new) \in Nodes /\ R[SetKids(n, new)] = Aloud(R, new)
    BY NewElements, ZenonT(30)
  <2>. QED BY <1>1, <1>2, <2>1
<1>4. /\ \A i : section(i) => i \in 1..m
      /\ ~section(0) /\ ~section(m + 1)
  BY <1>1
<1>5. m = Len(k) OBVIOUS
<1>. HIDE DEF k, m, section
\* A run of sections has one end.
<1>6. ASSUME NEW i \in 1..m, section(i) PROVE IsEnd(i, end(i))
  <2>. DEFINE S == {l \in 1..m : section(l)}
  <2>1. S \in SUBSET (1..m) /\ i \in S /\ \A l : l \in S <=> section(l)
    BY <1>4, <1>6
  <2>. HIDE DEF S
  <2>2. \E e \in i..m : e + 1 \notin S /\ \A l \in i..e : l \in S
    BY <1>1, <2>1, RunEnds
  <2>3. \E e \in i..m : ~section(e + 1) /\ \A l \in i..e : section(l)
    BY <2>1, <2>2
  <2>. QED BY <2>3
<1>7. ASSUME NEW i \in 1..m, NEW a, NEW b, IsEnd(i, a), IsEnd(i, b) PROVE a = b
  <2>1. a \in Int /\ b \in Int /\ i <= a /\ i <= b BY <1>1, <1>7
  <2>2. ASSUME a < b PROVE FALSE
    <3>1. a + 1 \in i..b BY <2>1, <2>2
    <3>. QED BY <1>7, <3>1
  <2>3. ASSUME b < a PROVE FALSE
    <3>1. b + 1 \in i..a BY <2>1, <2>3
    <3>. QED BY <1>7, <3>1
  <2>. QED BY <2>1, <2>2, <2>3
<1>. HIDE DEF end
<1>8. \A i \in 1..m : section(i) => end(i) \in i..m /\ end(i) \in 1..m
  BY <1>1, <1>6
<1>9. reach \in [0..m -> 0..m] /\ reach[0] = 0 /\ reach[m] = m
  <2>1. ASSUME NEW i \in 0..m PROVE (IF section(i) THEN end(i) ELSE i) \in 0..m
    BY <1>1, <1>4, <1>8
  <2>2. ASSUME section(m) PROVE end(m) = m
    <3>1. m \in 1..m BY <1>4, <2>2
    <3>2. end(m) \in m..m BY <1>8, <2>2, <3>1
    <3>. QED BY <1>1, <3>2
  <2>3. 0 \in 0..m /\ m \in 0..m BY <1>1
  <2>. QED BY <1>4, <2>1, <2>2, <2>3
<1>10. ASSUME NEW i \in 1..m
       PROVE  /\ at(i) \in Seq(Trees)
              /\ Aloud(R, SubSeq(k, 1, reach[i])) = Aloud(R, SubSeq(k, 1, reach[i - 1])) \o Aloud(R, at(i))
  <2>1. i - 1 \in 0..m /\ i \in 0..m /\ (i - 1) + 1 = i /\ k[i] \in Trees
    BY <1>1, <1>5
  <2>2. reach[i] = IF section(i) THEN end(i) ELSE i BY <2>1
  <2>3. reach[i - 1] = IF section(i - 1) THEN end(i - 1) ELSE i - 1 BY <2>1
  <2>. HIDE DEF reach
  <2>4. CASE ~section(i)
    <3>1. reach[i - 1] = i - 1
      <4>1. CASE section(i - 1)
        <5>1. i - 1 \in 1..m BY <1>4, <4>1
        <5>2. IsEnd(i - 1, i - 1) BY <1>1, <2>1, <2>4, <4>1, <5>1
        <5>3. IsEnd(i - 1, end(i - 1)) BY <1>6, <4>1, <5>1
        <5>4. end(i - 1) = i - 1
          <6>. HIDE DEF IsEnd
          <6>. QED BY <1>7, <5>1, <5>2, <5>3
        <5>. QED BY <2>3, <4>1, <5>4
      <4>. QED BY <2>3, <4>1
    <3>2. at(i) = <<k[i]>> /\ reach[i] = i BY <2>2, <2>4
    <3>3. <<k[i]>> \in Seq(Trees) /\ Aloud(R, <<k[i]>>) = Said(R, k[i])
      BY <2>1, SaidAlone
    <3>4. Aloud(R, SubSeq(k, 1, i)) = Aloud(R, SubSeq(k, 1, i - 1)) \o Said(R, k[i])
      BY <1>1, <1>5, SaidSoFar
    <3>. QED BY <3>1, <3>2, <3>3, <3>4
  <2>5. CASE section(i) /\ section(i - 1)
    <3>1. i - 1 \in 1..m BY <1>4, <2>5
    <3>2. IsEnd(i - 1, end(i - 1)) /\ IsEnd(i, end(i)) BY <1>6, <2>5, <3>1
    <3>3. IsEnd(i, end(i - 1))
      <4>. DEFINE e == end(i - 1)
      <4>1. e \in (i - 1)..m /\ ~section(e + 1) /\ \A l \in (i - 1)..e : section(l)
        BY <3>2
      <4>. HIDE DEF e
      <4>2. e # i - 1 BY <2>1, <2>5, <4>1
      <4>3. e \in i..m /\ \A l \in i..e : l \in (i - 1)..e BY <1>1, <4>1, <4>2
      <4>4. IsEnd(i, e) BY <4>1, <4>3
      <4>. QED BY <4>4 DEF e
    <3>4. end(i - 1) = end(i)
      <4>. HIDE DEF IsEnd
      <4>. QED BY <1>7, <3>2, <3>3
    <3>5. at(i) = <<>> /\ reach[i] = reach[i - 1] /\ reach[i - 1] \in 0..m
      <4>1. at(i) = <<>> /\ reach[i] = reach[i - 1] BY <2>2, <2>3, <2>5, <3>4
      <4>. QED BY <1>9, <2>1, <4>1
    <3>. DEFINE a == SubSeq(k, 1, reach[i - 1])
    <3>6. a \in Seq(Trees) BY <1>1, <1>5, <3>5, SaidSoFar
    <3>. HIDE DEF a
    <3>7. Aloud(R, a) \in Seq(Nat) /\ Aloud(R, <<>>) = <<>> /\ <<>> \in Seq(Trees)
      BY <3>6, SaidType, SaidByNone
    <3>8. Aloud(R, a) \o <<>> = Aloud(R, a) BY <3>7, ConcatEmptySeq
    <3>. QED BY <3>5, <3>7, <3>8 DEF a
  <2>6. CASE section(i) /\ ~section(i - 1)
    <3>. DEFINE e == end(i)
                block == SubSeq(k, i, e)
                none == <<>>
                table == SetKids(Elem("Table", none), block)
    <3>1. e \in i..m /\ e \in 0..m /\ e \in (i - 1)..m BY <1>1, <1>8, <2>6
    <3>2. at(i) = <<table>> /\ reach[i] = e /\ reach[i - 1] = i - 1
      BY <2>2, <2>3, <2>6
    <3>. HIDE DEF e
    <3>3. /\ block \in Seq(Trees)
          /\ Aloud(R, SubSeq(k, 1, e)) = Aloud(R, SubSeq(k, 1, i - 1)) \o Aloud(R, block)
      <4>1. k \in Seq(Trees) /\ i - 1 \in 0..Len(k) /\ e \in (i - 1)..Len(k)
        BY <1>1, <1>5, <2>1, <3>1
      <4>2. /\ SubSeq(k, (i - 1) + 1, e) \in Seq(Trees)
            /\ Aloud(R, SubSeq(k, 1, e))
                 = Aloud(R, SubSeq(k, 1, i - 1)) \o Aloud(R, SubSeq(k, (i - 1) + 1, e))
        BY <4>1, SaidBetween
      <4>. QED BY <2>1, <4>2
    <3>. HIDE DEF block
    <3>4. table \in Nodes /\ R[table] = Aloud(R, block)
      <4>1. "Table" \in Kinds /\ none \in Seq(Trees) BY SaidByNone DEF Kinds
      <4>. DEFINE o == Elem("Table", none)
      <4>. HIDE DEF none
      <4>2. o \in Nodes BY <4>1, NewElements
      <4>. HIDE DEF o
      <4>3. SetKids(o, block) \in Nodes /\ R[SetKids(o, block)] = Aloud(R, block)
        BY <3>3, <4>2, NewElements, ZenonT(30)
      <4>. QED BY <4>3 DEF o
    <3>. HIDE DEF table
    <3>5. <<table>> \in Seq(Trees) /\ Aloud(R, <<table>>) = Aloud(R, block)
      <4>1. table \in Trees /\ Said(R, table) = R[table]
        BY <3>4, TreeKinds, SaidType
      <4>2. <<table>> \in Seq(Trees) /\ Aloud(R, <<table>>) = Said(R, table)
        BY <4>1, SaidAlone
      <4>. QED BY <3>4, <4>1, <4>2
    <3>. QED BY <3>2, <3>3, <3>5
  <2>. QED BY <2>4, <2>5, <2>6
<1>11. ss \in Seq(Seq(Trees)) /\ Len(ss) = m /\ \A i \in 1..m : ss[i] = at(i)
  <2>1. ss \in [1..m -> Seq(Trees)] /\ \A i \in 1..m : ss[i] = at(i)
    BY <1>1, <1>10
  <2>. HIDE DEF ss, at
  <2>. DEFINE S == Seq(Trees)
  <2>2. ss \in [1..m -> S] BY <2>1
  <2>. HIDE DEF S
  <2>3. ss \in Seq(S) /\ Len(ss) = m BY <1>1, <2>2, SeqOfFunction
  <2>. QED BY <2>1, <2>3 DEF S
<1>. HIDE DEF ss, reach, at
<1>12. InPieces(R, k, ss, reach) BY <1>5, <1>9, <1>10, <1>11 DEF InPieces
<1>13. new \in Seq(Trees) /\ Aloud(R, new) = Aloud(R, k)
  BY <1>1, <1>11, <1>12, SaidInPieces
<1>. QED BY <1>13

\* An item whose parts stand in front.
LEMMA ItemKidsSaid ==
  ASSUME NEW R, IsReading(R), NEW n \in Nodes, ~LatePart(n)
  PROVE  ItemKids(n) \in Nodes /\ R[ItemKids(n)] = R[n]
<1>. DEFINE k == n.k
            m == Len(k)
            lbl == SelectInSeq(k, LAMBDA x : Type(x) = "Lbl")
            body == SelectInSeq(k, LAMBDA x : Type(x) = "LBody")
            at(i) == IF i = 0 THEN <<>> ELSE <<k[i]>>
            ss == [i \in DOMAIN k |-> IF i \in {lbl, body} THEN <<>> ELSE at(i)]
            extras == FlattenSeq(ss)
            old == IF body = 0 THEN Elem("LBody", <<>>) ELSE k[body]
            all == old.k \o extras
            new == at(lbl) \o <<SetKids(old, all)>>
            p == IF body = 0 THEN lbl ELSE lbl + 1
<1>1. k \in Seq(Trees) /\ m \in Nat /\ DOMAIN k = 1..m /\ R[n] = Aloud(R, k)
  BY TreeKinds, SaidType
<1>2. ItemKids(n) = n \/ ItemKids(n) = SetKids(n, new) BY DEF ItemKids
<1>3. SUFFICES new \in Seq(Trees) /\ Aloud(R, new) = Aloud(R, k)
  <2>. HIDE DEF new
  <2>. SUFFICES ASSUME new \in Seq(Trees), Aloud(R, new) = Aloud(R, k)
                PROVE  ItemKids(n) \in Nodes /\ R[ItemKids(n)] = R[n]
    BY <1>3
  <2>1. SetKids(n, new) \in Nodes /\ R[SetKids(n, new)] = Aloud(R, new)
    BY NewElements, ZenonT(30)
  <2>. QED BY <1>1, <1>2, <2>1
<1>4. /\ lbl = 0 \/ (lbl \in 1..m /\ Type(k[lbl]) = "Lbl")
      /\ body = 0 \/ (body \in 1..m /\ Type(k[body]) = "LBody")
  <2>. DEFINE I == {i \in 1..m : Type(k[i]) = "Lbl"}
              J == {i \in 1..m : Type(k[i]) = "LBody"}
  <2>1. lbl = IF I # {} THEN Min(I) ELSE 0 BY DEF SelectInSeq
  <2>2. body = IF J # {} THEN Min(J) ELSE 0 BY DEF SelectInSeq
  <2>3. /\ I \in SUBSET (1..m) /\ \A l \in I : l \in 1..m /\ Type(k[l]) = "Lbl"
        /\ J \in SUBSET (1..m) /\ \A l \in J : l \in 1..m /\ Type(k[l]) = "LBody"
    OBVIOUS
  <2>. HIDE DEF I, J, lbl, body, m
  <2>4. (lbl = 0 \/ lbl \in I) /\ (body = 0 \/ body \in J)
    BY <1>1, <2>1, <2>2, <2>3, FirstOfSome
  <2>. QED BY <2>3, <2>4
<1>5. ~(lbl > 1) /\ ~(body > 1 + (IF lbl = 0 THEN 0 ELSE 1)) BY DEF LatePart
<1>6. m = Len(k) OBVIOUS
<1>. HIDE DEF k, m, lbl, body
<1>7. lbl \in {0, 1} /\ body \in {0, lbl + 1} BY <1>1, <1>4, <1>5
<1>8. /\ lbl \in 0..m /\ p \in 0..m /\ m \in p..m
      /\ \A i \in 1..m : i \in {lbl, body} <=> i <= p
  BY <1>1, <1>4, <1>7
<1>. HIDE DEF p
\* What is left is what follows the parts.
<1>9. extras = SubSeq(k, p + 1, m)
  <2>. DEFINE f == [i \in 0..m |-> SubSeq(k, p + 1, i)]
              S == Trees
  <2>1. ss \in Seq(Seq(S)) /\ Len(ss) = m /\ \A i \in 1..m : ss[i] = IF i <= p THEN <<>> ELSE <<k[i]>>
    <3>1. \A i \in 1..m : <<k[i]>> \in Seq(S) /\ <<>> \in Seq(S) BY <1>1, <1>6
    <3>. DEFINE C == Seq(S)
    <3>2. \A i \in 1..m : ss[i] = IF i <= p THEN <<>> ELSE <<k[i]>>
      BY <1>1, <1>8
    <3>3. ss \in [1..m -> C]
      <4>1. DOMAIN ss = 1..m /\ ss = [i \in 1..m |-> ss[i]] BY <1>1
      <4>. HIDE DEF ss
      <4>. QED BY <3>1, <3>2, <4>1
    <3>. HIDE DEF ss, C
    <3>4. ss \in Seq(C) /\ Len(ss) = m BY <1>1, <3>3, SeqOfFunction
    <3>. QED BY <3>2, <3>4 DEF C
  <2>2. f[0] = <<>>
    <3>1. 0 \in 0..m /\ p + 1 \in Int /\ 0 < p + 1 BY <1>1, <1>8
    <3>. QED BY <3>1, SubSeqEmpty
  <2>3. ASSUME NEW i \in 1..m PROVE f[i] = f[i - 1] \o ss[i]
    <3>1. i \in 0..m /\ i - 1 \in 0..m BY <1>1
    <3>2. f[i] = SubSeq(k, p + 1, i) /\ f[i - 1] = SubSeq(k, p + 1, i - 1)
      BY <3>1
    <3>3. CASE i <= p
      <4>1. p + 1 \in Int /\ i \in Int /\ i - 1 \in Int /\ i < p + 1 /\ i - 1 < p + 1
        BY <1>8, <3>3
      <4>2. SubSeq(k, p + 1, i) = <<>> /\ SubSeq(k, p + 1, i - 1) = <<>>
        BY <4>1, SubSeqEmpty
      <4>3. ss[i] = <<>>
        <5>. HIDE DEF ss
        <5>. QED BY <2>1, <3>3
      <4>4. <<>> \o <<>> = <<>> OBVIOUS
      <4>. QED BY <3>2, <4>2, <4>3, <4>4
    <3>4. CASE ~(i <= p)
      <4>1. p + 1 \in 1..Len(k) /\ i \in (p + 1)..Len(k)
        BY <1>1, <1>6, <1>8, <3>4
      <4>2. SubSeq(k, p + 1, i) = SubSeq(k, p + 1, i - 1) \o <<k[i]>>
        BY <1>1, <4>1, SubSeqRecursiveSecond
      <4>3. ss[i] = <<k[i]>> BY <2>1, <3>4
      <4>. QED BY <3>2, <4>2, <4>3
    <3>. QED BY <3>3, <3>4
  <2>4. f[m] = SubSeq(k, p + 1, m)
    <3>1. m \in 0..m BY <1>1
    <3>. QED BY <3>1
  <2>. HIDE DEF f, ss, S
  <2>5. Adds(f, ss) BY <2>1, <2>2, <2>3 DEF Adds
  <2>6. FlattenSeq(ss) = f[Len(ss)] BY <2>1, <2>5, FlattenAdds
  <2>. QED BY <2>1, <2>4, <2>6
<1>. HIDE DEF extras
<1>10. /\ extras \in Seq(Trees)
       /\ Aloud(R, k) = Aloud(R, SubSeq(k, 1, p)) \o Aloud(R, extras)
  <2>1. k \in Seq(Trees) /\ p \in 0..Len(k) /\ m \in p..Len(k)
    BY <1>1, <1>6, <1>8
  <2>2. SubSeq(k, 1, m) = k BY <1>1, <1>6, SaidSoFar
  <2>3. /\ SubSeq(k, p + 1, m) \in Seq(Trees)
        /\ Aloud(R, SubSeq(k, 1, m)) = Aloud(R, SubSeq(k, 1, p)) \o Aloud(R, SubSeq(k, p + 1, m))
    BY <2>1, SaidBetween
  <2>. QED BY <1>9, <2>2, <2>3
<1>11. at(lbl) \in Seq(Trees) /\ Aloud(R, at(lbl)) = Aloud(R, SubSeq(k, 1, lbl))
  <2>1. CASE lbl = 0
    <3>1. Aloud(R, SubSeq(k, 1, 0)) = <<>> BY <1>1, SaidSoFar
    <3>. QED BY <2>1, <3>1, SaidByNone
  <2>2. CASE lbl = 1
    <3>1. 1 \in 1..m /\ k[1] \in Trees /\ 1 - 1 = 0 BY <1>1, <1>6, <1>8, <2>2
    <3>2. Aloud(R, SubSeq(k, 1, 1)) = Aloud(R, SubSeq(k, 1, 0)) \o Said(R, k[1])
      <4>1. \A i \in 1..m :
              Aloud(R, SubSeq(k, 1, i)) = Aloud(R, SubSeq(k, 1, i - 1)) \o Said(R, k[i])
        BY <1>1, <1>6, SaidSoFar, ZenonT(30)
      <4>2. Aloud(R, SubSeq(k, 1, 1)) = Aloud(R, SubSeq(k, 1, 1 - 1)) \o Said(R, k[1])
        BY <3>1, <4>1
      <4>. QED BY <3>1, <4>2
    <3>3. Aloud(R, SubSeq(k, 1, 0)) = <<>> BY <1>1, SaidSoFar
    <3>4. <<k[1]>> \in Seq(Trees) /\ Aloud(R, <<k[1]>>) = Said(R, k[1]) /\ Said(R, k[1]) \in Seq(Nat)
      BY <3>1, SaidAlone, SaidType
    <3>5. <<>> \o Said(R, k[1]) = Said(R, k[1]) BY <3>4, ConcatEmptySeq
    <3>6. at(lbl) = <<k[1]>> BY <2>2
    <3>. QED BY <2>2, <3>2, <3>3, <3>4, <3>5, <3>6
  <2>. QED BY <1>7, <2>1, <2>2
<1>12. /\ old \in Nodes /\ old.k \in Seq(Trees)
       /\ Aloud(R, SubSeq(k, 1, p)) = Aloud(R, SubSeq(k, 1, lbl)) \o Aloud(R, old.k)
  <2>1. CASE body = 0
    <3>1. "LBody" \in Kinds /\ <<>> \in Seq(Trees) /\ Aloud(R, <<>>) = <<>>
      BY SaidByNone DEF Kinds
    <3>. DEFINE none == <<>>
    <3>2. none = <<>> OBVIOUS
    <3>. HIDE DEF none
    <3>3. Elem("LBody", none) \in Nodes /\ Elem("LBody", none).k = none
      BY <3>1, <3>2, NewElements, ZenonT(30)
    <3>4. old \in Nodes /\ old.k = <<>> /\ p = lbl BY <2>1, <3>2, <3>3 DEF p
    <3>5. SubSeq(k, 1, lbl) \in Seq(Trees) BY <1>1, <1>6, <1>8, SaidSoFar
    <3>6. Aloud(R, SubSeq(k, 1, lbl)) \in Seq(Nat) BY <3>5, SaidType
    <3>7. Aloud(R, SubSeq(k, 1, lbl)) \o <<>> = Aloud(R, SubSeq(k, 1, lbl))
      BY <3>6, ConcatEmptySeq
    <3>. HIDE DEF old
    <3>. QED BY <3>1, <3>4, <3>7
  <2>2. CASE body # 0
    <3>1. body = lbl + 1 /\ p = body /\ body \in 1..m /\ body - 1 = lbl /\ Type(k[body]) = "LBody"
      BY <1>4, <1>7, <2>2 DEF p
    <3>2. old = k[body] BY <2>2
    <3>. HIDE DEF old
    <3>3. old \in Trees /\ Type(old) = "LBody" BY <1>1, <1>6, <3>1, <3>2
    <3>4. old \in Nodes BY <3>3, TreeKinds
    <3>5. old.k \in Seq(Trees) /\ Said(R, old) = Aloud(R, old.k)
      BY <3>4, TreeKinds, SaidType
    <3>6. Aloud(R, SubSeq(k, 1, body)) = Aloud(R, SubSeq(k, 1, body - 1)) \o Said(R, k[body])
      BY <1>1, <1>6, <3>1, SaidSoFar, ZenonT(30)
    <3>. QED BY <3>1, <3>2, <3>4, <3>5, <3>6
  <2>. QED BY <2>1, <2>2
<1>. DEFINE first == at(lbl)
<1>. HIDE DEF old, at
<1>13. all \in Seq(Trees) /\ Aloud(R, all) = Aloud(R, old.k) \o Aloud(R, extras)
  <2>. DEFINE ok == old.k
  <2>1. ok \in Seq(Trees) BY <1>12
  <2>. HIDE DEF ok
  <2>2. ok \o extras \in Seq(Trees) /\ Aloud(R, ok \o extras) = Aloud(R, ok) \o Aloud(R, extras)
    BY <1>10, <2>1, SaidOnAndOn
  <2>. QED BY <2>2 DEF ok
<1>. HIDE DEF all
<1>14. <<SetKids(old, all)>> \in Seq(Trees) /\ Aloud(R, <<SetKids(old, all)>>) = Aloud(R, all)
  <2>. DEFINE y == SetKids(old, all)
  <2>1. y \in Nodes /\ R[y] = Aloud(R, all)
    <3>1. old \in Nodes /\ all \in Seq(Trees) BY <1>12, <1>13
    <3>. QED BY <3>1, NewElements
  <2>. HIDE DEF y
  <2>2. y \in Trees /\ Said(R, y) = Aloud(R, all) BY <2>1, TreeKinds, SaidType
  <2>3. <<y>> \in Seq(Trees) /\ Aloud(R, <<y>>) = Said(R, y) BY <2>2, SaidAlone
  <2>. QED BY <2>2, <2>3 DEF y
<1>. DEFINE last == <<SetKids(old, all)>>
<1>15. /\ first \o last \in Seq(Trees)
       /\ Aloud(R, first \o last) = Aloud(R, SubSeq(k, 1, lbl)) \o (Aloud(R, old.k) \o Aloud(R, extras))
  <2>1. first \in Seq(Trees) /\ last \in Seq(Trees) BY <1>11, <1>14
  <2>2. Aloud(R, first) = Aloud(R, SubSeq(k, 1, lbl)) BY <1>11
  <2>3. Aloud(R, last) = Aloud(R, old.k) \o Aloud(R, extras) BY <1>13, <1>14
  <2>. HIDE DEF first, last
  <2>4. first \o last \in Seq(Trees) /\ Aloud(R, first \o last) = Aloud(R, first) \o Aloud(R, last)
    BY <2>1, SaidOnAndOn
  <2>. QED BY <2>2, <2>3, <2>4
<1>16. Aloud(R, k) = Aloud(R, SubSeq(k, 1, lbl)) \o (Aloud(R, old.k) \o Aloud(R, extras))
  <2>. DEFINE a == Aloud(R, SubSeq(k, 1, lbl))
              b == Aloud(R, old.k)
              c == Aloud(R, extras)
  <2>1. Aloud(R, k) = (a \o b) \o c BY <1>10, <1>12
  <2>2. a \in Seq(Nat) /\ b \in Seq(Nat) /\ c \in Seq(Nat)
    <3>1. SubSeq(k, 1, lbl) \in Seq(Trees) BY <1>1, <1>6, <1>8, SaidSoFar
    <3>. QED BY <1>10, <1>12, <3>1, SaidType
  <2>. HIDE DEF a, b, c
  <2>3. (a \o b) \o c = a \o (b \o c) BY <2>2, OneAfterTheOther
  <2>. QED BY <2>1, <2>3 DEF a, b, c
<1>. QED BY <1>15, <1>16

LEMMA KeptSaid ==
  ASSUME NEW R, IsReading(R), NEW k \in Seq(Trees)
  PROVE  Kept(k) \in Seq(Trees) /\ Aloud(R, Kept(k)) = Aloud(R, k)
<1>. DEFINE m == Len(k)
            at(i) == IF Empty(k[i]) THEN <<>> ELSE <<k[i]>>
            ss == [i \in DOMAIN k |-> at(i)]
            reach == [i \in 0..m |-> i]
<1>1. m \in Nat /\ DOMAIN k = 1..m /\ m = Len(k) /\ \A i \in 1..m : k[i] \in Trees
  OBVIOUS
<1>. HIDE DEF m
<1>2. ASSUME NEW i \in 1..m
      PROVE  /\ at(i) \in Seq(Trees)
             /\ Aloud(R, SubSeq(k, 1, i)) = Aloud(R, SubSeq(k, 1, i - 1)) \o Aloud(R, at(i))
  <2>1. k[i] \in Trees BY <1>1
  <2>2. Aloud(R, SubSeq(k, 1, i)) = Aloud(R, SubSeq(k, 1, i - 1)) \o Said(R, k[i])
    <3>1. \A l \in 1..m :
            Aloud(R, SubSeq(k, 1, l)) = Aloud(R, SubSeq(k, 1, l - 1)) \o Said(R, k[l])
      BY <1>1, SaidSoFar
    <3>. QED BY <3>1
  <2>3. at(i) \in Seq(Trees) /\ Aloud(R, at(i)) = Said(R, k[i])
    <3>. DEFINE x == k[i]
    <3>1. CASE Empty(x)
      <4>. HIDE DEF x
      <4>1. IsElem(x) /\ x.k = <<>> BY <3>1 DEF Empty
      <4>2. x \in Nodes BY <2>1, <4>1, TreeKinds DEF x
      <4>3. Said(R, x) = Aloud(R, x.k) BY <4>2, SaidType
      <4>4. Said(R, x) = <<>> /\ Aloud(R, <<>>) = <<>> /\ <<>> \in Seq(Trees)
        BY <4>1, <4>3, SaidByNone
      <4>. QED BY <3>1, <4>4 DEF x
    <3>2. CASE ~Empty(x)
      <4>1. <<x>> \in Seq(Trees) /\ Aloud(R, <<x>>) = Said(R, x)
        BY <2>1, SaidAlone
      <4>. QED BY <3>2, <4>1
    <3>. QED BY <3>1, <3>2
  <2>. QED BY <2>2, <2>3
<1>3. ss \in Seq(Seq(Trees)) /\ Len(ss) = m /\ \A i \in 1..m : ss[i] = at(i)
  <2>. DEFINE S == Seq(Trees)
  <2>1. ss \in [1..m -> S] /\ \A i \in 1..m : ss[i] = at(i) BY <1>1, <1>2
  <2>. HIDE DEF ss, at, S
  <2>2. ss \in Seq(S) /\ Len(ss) = m BY <1>1, <2>1, SeqOfFunction
  <2>. QED BY <2>1, <2>2 DEF S
<1>4. /\ reach \in [0..m -> 0..m] /\ reach[0] = 0 /\ reach[m] = m
      /\ \A i \in 1..m : reach[i] = i /\ reach[i - 1] = i - 1
  BY <1>1
<1>5. Kept(k) = FlattenSeq(ss) BY DEF Kept
<1>. HIDE DEF ss, at, reach
<1>6. InPieces(R, k, ss, reach) BY <1>1, <1>2, <1>3, <1>4 DEF InPieces
<1>. QED BY <1>3, <1>5, <1>6, SaidInPieces

-----------------------------------------------------------------------------
(* What the passes do to trees.                                            *)

\* If what it gives an element reads like the element, what it makes of it does.
LEMMA GoesOnSaid ==
  ASSUME NEW R, IsReading(R), NEW W, NEW D, NEW instead, GoesOn(W, D, instead),
         \A n \in D : R[instead[n]] = R[n]
  PROVE  \A n \in D : R[W[n]] = R[n]
<1>. DEFINE S == {y \in Trees : \A n \in D : W[n] = y => R[y] = R[n]}
<1>1. D \subseteq Nodes /\ W \in [D -> Nodes] /\ instead \in [D -> Nodes]
  BY DEF GoesOn
<1>2. Leaves \subseteq S
  <2>1. SUFFICES ASSUME NEW y \in Leaves PROVE y \in S OBVIOUS
  <2>2. y \in Trees /\ ~IsElem(y) BY TreesAre DEF Leaves, IsElem
  <2>3. \A n \in D : W[n] # y BY <1>1, <2>2, TreeKinds
  <2>. QED BY <2>2, <2>3
<1>3. ASSUME NEW y \in Elements(Trees), \A i \in DOMAIN y.k : y.k[i] \in S
      PROVE  y \in S
  <2>1. y \in Nodes /\ y \in Trees BY TreesAre DEF Nodes
  <2>2. ASSUME NEW n \in D, W[n] = y PROVE R[y] = R[n]
    <3>. DEFINE m == instead[n]
                k == m.k
    <3>1. m \in Nodes /\ k \in Seq(Trees) /\ R[m] = Aloud(R, k) /\ R[m] = R[n]
      <4>1. m \in Nodes BY <1>1
      <4>. QED BY <4>1, TreeKinds, SaidType
    <3>2. /\ \A i \in DOMAIN k : IsElem(k[i]) => k[i] \in D
          /\ y.k = Onward(m, LAMBDA x : W[x]).k
      BY <2>2 DEF GoesOn
    <3>. HIDE DEF m
    <3>3. y.k = [i \in DOMAIN k |-> IF IsElem(k[i]) THEN W[k[i]] ELSE k[i]]
      <4>1. m \in Elements(Trees) BY <3>1 DEF Nodes
      <4>. QED BY <3>2, <4>1 DEF Onward, Elements
    <3>. DEFINE j == y.k
    <3>4. j \in Seq(Trees) /\ R[y] = Aloud(R, j) BY <2>1, TreeKinds, SaidType
    <3>5. \A i \in DOMAIN j : j[i] \in S BY <1>3
    <3>6. j = [i \in DOMAIN k |-> IF IsElem(k[i]) THEN W[k[i]] ELSE k[i]]
      BY <3>3
    <3>. HIDE DEF j, k
    <3>7. Len(j) = Len(k) /\ DOMAIN j = 1..Len(k) /\ DOMAIN k = 1..Len(k)
      BY <3>1, <3>4, <3>6
    <3>8. ASSUME NEW i \in 1..Len(k) PROVE Said(R, j[i]) = Said(R, k[i])
      <4>1. j[i] = IF IsElem(k[i]) THEN W[k[i]] ELSE k[i] BY <3>6, <3>7
      <4>2. CASE IsElem(k[i])
        <5>. DEFINE x == k[i]
        <5>1. x \in D BY <3>2, <3>7, <4>2 DEF k
        <5>2. j[i] = W[x] /\ j[i] \in S BY <3>5, <3>7, <4>1, <4>2
        <5>. HIDE DEF x
        <5>3. R[W[x]] = R[x] BY <5>1, <5>2
        <5>4. x \in Nodes /\ W[x] \in Nodes BY <1>1, <5>1
        <5>5. Said(R, x) = R[x] /\ Said(R, W[x]) = R[W[x]] BY <5>4, SaidType
        <5>. QED BY <5>2, <5>3, <5>5 DEF x
      <4>3. CASE ~IsElem(k[i]) BY <4>1, <4>3
      <4>. QED BY <4>2, <4>3
    <3>9. Aloud(R, j) = Aloud(R, k)
      BY <3>1, <3>4, <3>7, <3>8, SaidAlike, ZenonT(30)
    <3>. QED BY <3>1, <3>4, <3>9
  <2>. QED BY <2>1, <2>2
<1>4. Trees \subseteq S
  <2>. HIDE DEF S
  <2>. QED BY <1>2, <1>3, TreeInduction
<1>5. \A n \in D : W[n] \in Trees BY <1>1, TreeKinds
<1>. QED BY <1>4, <1>5

\* It is enough to know it of an element whose kids keep what they say.
LEMMA WithinSaid ==
  ASSUME NEW R, NEW D, NEW W, Within(W, D),
         \A n \in D : (\A i \in DOMAIN n.k : IsElem(n.k[i]) => R[W[n.k[i]]] = R[n.k[i]])
                        => R[W[n]] = R[n]
  PROVE  \A n \in D : R[W[n]] = R[n]
<1>. DEFINE S == {x \in Trees : x \in D => R[W[x]] = R[x]}
<1>1. D \subseteq Nodes BY DEF Within
<1>2. Leaves \subseteq S
  <2>1. \A x \in Leaves : x \in Trees /\ ~IsElem(x)
    BY TreesAre DEF Leaves, IsElem
  <2>2. \A x \in D : IsElem(x) BY <1>1, TreeKinds
  <2>. QED BY <2>1, <2>2
<1>3. ASSUME NEW n \in Elements(Trees), \A i \in DOMAIN n.k : n.k[i] \in S
      PROVE  n \in S
  <2>1. n \in Trees BY TreesAre
  <2>2. SUFFICES ASSUME n \in D PROVE R[W[n]] = R[n] BY <2>1
  <2>3. \A i \in DOMAIN n.k : IsElem(n.k[i]) => R[W[n.k[i]]] = R[n.k[i]]
    BY <1>3, <2>2 DEF Within
  <2>. QED BY <2>2, <2>3
<1>. HIDE DEF S
<1>4. Trees \subseteq S BY <1>2, <1>3, TreeInduction
<1>5. D \subseteq Trees BY <1>1, TreeKinds
<1>. QED BY <1>4, <1>5 DEF S

LEMMA WrapsSaid ==
  ASSUME NEW R, IsReading(R), NEW D, NEW W, NEW child, NEW wrapper \in Kinds,
         Wraps(W, D, child, wrapper)
  PROVE  \A n \in D : R[W[n]] = R[n]
<1>1. ASSUME NEW n \in D, \A i \in DOMAIN n.k : IsElem(n.k[i]) => R[W[n.k[i]]] = R[n.k[i]]
      PROVE  R[W[n]] = R[n]
  <2>. DEFINE wrong(x) == Misplaced(x, n, {child})
              k == [i \in DOMAIN n.k |->
                      IF wrong(n.k[i]) THEN Elem(wrapper, <<n.k[i]>>)
                      ELSE IF IsElem(n.k[i]) THEN W[n.k[i]]
                      ELSE n.k[i]]
  <2>1. n \in Nodes /\ Within(W, D) BY DEF Wraps, Within
  <2>2. W[n] = SetKids(n, k) \/ W[n] = [n EXCEPT !.k = k] BY DEF Wraps, WrapNode
  <2>3. ASSUME NEW i \in DOMAIN n.k
        PROVE  k[i] \in Trees /\ Said(R, k[i]) = Said(R, n.k[i])
    <3>. DEFINE x == n.k[i]
    <3>1. x \in Trees BY <2>1, KidsAre
    <3>2. /\ Elem(wrapper, <<x>>) \in Trees
          /\ Said(R, Elem(wrapper, <<x>>)) = Said(R, x)
      <4>. DEFINE xs == <<x>>
      <4>1. xs \in Seq(Trees) /\ Aloud(R, xs) = Said(R, x) BY <3>1, SaidAlone
      <4>. HIDE DEF xs, x
      <4>. DEFINE y == Elem(wrapper, xs)
      <4>2. y \in Nodes /\ R[y] = Aloud(R, xs) BY <4>1, NewElements
      <4>. HIDE DEF y
      <4>3. y \in Trees /\ Said(R, y) = Said(R, x)
        BY <4>1, <4>2, TreeKinds, SaidType
      <4>. QED BY <4>3 DEF y, xs
    <3>3. IsElem(x) => W[x] \in Trees /\ Said(R, W[x]) = Said(R, x)
      <4>1. SUFFICES ASSUME IsElem(x) PROVE W[x] \in Trees /\ Said(R, W[x]) = Said(R, x)
        OBVIOUS
      <4>2. x \in Nodes /\ W[x] \in Nodes /\ R[W[x]] = R[x]
        BY <1>1, <2>1, <4>1 DEF Within
      <4>. HIDE DEF x
      <4>3. Said(R, W[x]) = R[W[x]] /\ Said(R, x) = R[x] /\ W[x] \in Trees
        BY <4>2, TreeKinds, SaidType
      <4>. QED BY <4>2, <4>3
    <3>4. k[i] = IF wrong(x) THEN Elem(wrapper, <<x>>) ELSE IF IsElem(x) THEN W[x] ELSE x
      OBVIOUS
    <3>. HIDE DEF k, x, wrong
    <3>5. Said(R, k[i]) = Said(R, x) /\ k[i] \in Trees BY <3>1, <3>2, <3>3, <3>4
    <3>. QED BY <3>5 DEF x
  <2>4. k \in [DOMAIN n.k -> Trees] BY <2>3
  <2>. HIDE DEF k
  <2>5. R[SetKids(n, k)] = R[n] /\ R[[n EXCEPT !.k = k]] = R[n]
    BY <2>1, <2>3, <2>4, KidByKid
  <2>. QED BY <2>2, <2>5
<1>2. Within(W, D) BY DEF Wraps
<1>. QED BY <1>1, <1>2, WithinSaid

LEMMA WrapsEntriesSaid ==
  ASSUME NEW R, IsReading(R), NEW D, NEW W, WrapsEntries(W, D)
  PROVE  \A n \in D : R[W[n]] = R[n]
<1>1. ASSUME NEW n \in D, \A i \in DOMAIN n.k : IsElem(n.k[i]) => R[W[n.k[i]]] = R[n.k[i]]
      PROVE  R[W[n]] = R[n]
  <2>. DEFINE stray(x) == Type(x) = "TOCI" /\ n.s # "TOC"
              kid(x) == IF IsElem(x) THEN W[x] ELSE x
              k == [i \in DOMAIN n.k |->
                      IF stray(kid(n.k[i])) THEN Only("TOC", kid(n.k[i])) ELSE kid(n.k[i])]
  <2>1. n \in Nodes /\ Within(W, D) BY DEF WrapsEntries, Within
  <2>2. W[n] = SetKids(n, k) \/ W[n] = [n EXCEPT !.k = k]
    BY DEF WrapsEntries, EntriesNode
  <2>3. ASSUME NEW i \in DOMAIN n.k
        PROVE  k[i] \in Trees /\ Said(R, k[i]) = Said(R, n.k[i])
    <3>. DEFINE x == n.k[i]
                y == kid(x)
    <3>1. x \in Trees BY <2>1, KidsAre
    <3>2. y \in Trees /\ Said(R, y) = Said(R, x)
      <4>1. CASE IsElem(x)
        <5>1. x \in Nodes /\ W[x] \in Nodes /\ R[W[x]] = R[x] /\ y = W[x]
          BY <1>1, <2>1, <4>1 DEF Within
        <5>. HIDE DEF x, y
        <5>2. Said(R, W[x]) = R[W[x]] /\ Said(R, x) = R[x] /\ W[x] \in Trees
          BY <5>1, TreeKinds, SaidType
        <5>. QED BY <5>1, <5>2
      <4>2. CASE ~IsElem(x) BY <3>1, <4>2
      <4>. QED BY <4>1, <4>2
    <3>3. k[i] = IF stray(y) THEN Only("TOC", y) ELSE y OBVIOUS
    <3>. HIDE DEF k, x, y, stray
    <3>4. Only("TOC", y) \in Trees /\ Said(R, Only("TOC", y)) = Said(R, y)
      <4>1. "TOC" \in Kinds BY DEF Kinds
      <4>. QED BY <3>2, <4>1, OnlySaid
    <3>5. k[i] \in Trees /\ Said(R, k[i]) = Said(R, x) BY <3>2, <3>3, <3>4
    <3>. QED BY <3>5 DEF x
  <2>4. k \in [DOMAIN n.k -> Trees] BY <2>3
  <2>. HIDE DEF k
  <2>5. R[SetKids(n, k)] = R[n] /\ R[[n EXCEPT !.k = k]] = R[n]
    BY <2>1, <2>3, <2>4, KidByKid
  <2>. QED BY <2>2, <2>5
<1>2. Within(W, D) BY DEF WrapsEntries
<1>. QED BY <1>1, <1>2, WithinSaid, SMTT(30)

LEMMA PrunesSaid ==
  ASSUME NEW R, IsReading(R), NEW D, NEW W, Prunes(W, D)
  PROVE  \A n \in D : R[W[n]] = R[n]
<1>. DEFINE instead == [n \in D |-> [n EXCEPT !.k = Kept(n.k)]]
<1>1. D \subseteq Nodes /\ W \in [D -> Nodes] /\ Within(W, D)
  BY DEF Prunes, Within
<1>2. ASSUME NEW n \in D
      PROVE  /\ instead[n] \in Nodes /\ instead[n].k = Kept(n.k)
             /\ R[instead[n]] = R[n]
             /\ \A j \in DOMAIN Kept(n.k) : \E i \in DOMAIN n.k : Kept(n.k)[j] = n.k[i]
             /\ W[n].k = Onward(instead[n], LAMBDA x : W[x]).k
  <2>. DEFINE k == n.k
              kept == Kept(k)
              m == [n EXCEPT !.k = kept]
  <2>1. n \in Nodes /\ instead[n] = m /\ k \in Seq(Trees) /\ R[n] = Aloud(R, k)
    <3>1. n \in Nodes BY <1>1
    <3>. QED BY <3>1, TreeKinds, SaidType
  <2>2. kept \in Seq(Trees) /\ Aloud(R, kept) = Aloud(R, k)
    <3>. HIDE DEF k
    <3>. QED BY <2>1, KeptSaid
  <2>3. m \in Nodes /\ m.k = kept /\ R[m] = Aloud(R, kept)
    <3>. HIDE DEF kept
    <3>1. n \in Nodes /\ kept \in Seq(Trees) BY <2>1, <2>2
    <3>. QED BY <3>1, NewElements
  <2>4. \A j \in DOMAIN kept : \E i \in DOMAIN k : kept[j] = k[i]
    <3>. DEFINE K == {k[i] : i \in DOMAIN k}
                at(i) == IF Empty(k[i]) THEN <<>> ELSE <<k[i]>>
                ss == [i \in DOMAIN k |-> at(i)]
                l == Len(k)
                T == Seq(K)
    <3>1. DOMAIN k = 1..l /\ l \in Nat BY <2>1
    <3>. HIDE DEF k, l
    <3>2. \A i \in 1..l : at(i) \in T
      <4>1. \A i \in 1..l : k[i] \in K BY <3>1
      <4>2. \A i \in 1..l : at(i) = <<>> \/ at(i) = <<k[i]>> OBVIOUS
      <4>. HIDE DEF K, at
      <4>3. <<>> \in Seq(K) /\ \A x \in K : <<x>> \in Seq(K) OBVIOUS
      <4>. QED BY <4>1, <4>2, <4>3
    <3>3. ss \in [1..l -> T]
      <4>. HIDE DEF at, T
      <4>. QED BY <3>1, <3>2
    <3>4. kept = FlattenSeq(ss) BY DEF Kept
    <3>. HIDE DEF ss, T
    <3>5. ss \in Seq(T) BY <3>1, <3>3, SeqOfFunction
    <3>. HIDE DEF kept, K
    <3>6. kept \in Seq(K) BY <3>4, <3>5, FlattenType DEF T
    <3>7. \A j \in DOMAIN kept : kept[j] \in K BY <3>6
    <3>. QED BY <3>7 DEF K
  <2>5. W[n].k = Onward(m, LAMBDA x : W[x]).k
    <3>1. /\ \/ W[n] = SetKids(n, Onward(m, LAMBDA x : W[x]).k)
             \/ kept = k /\ W[n] = Onward(n, LAMBDA x : W[x])
      BY DEF Prunes, PruneNode, Kept
    <3>2. CASE W[n] = SetKids(n, Onward(m, LAMBDA x : W[x]).k)
      <4>. DEFINE j == Onward(m, LAMBDA x : W[x]).k
      <4>1. W[n] = SetKids(n, j) /\ n \in Elements(Trees)
        BY <2>1, <3>2 DEF Nodes
      <4>. HIDE DEF j
      <4>2. W[n].k = j BY <4>1 DEF SetKids, Elements
      <4>. QED BY <4>2 DEF j
    <3>3. CASE kept = k /\ W[n] = Onward(n, LAMBDA x : W[x])
      <4>1. m = n
        <5>1. n \in Elements(Trees) BY <2>1 DEF Nodes
        <5>. HIDE DEF kept
        <5>. QED BY <3>3, <5>1 DEF Elements
      <4>. HIDE DEF m
      <4>. QED BY <3>3, <4>1
    <3>. QED BY <3>1, <3>2, <3>3
  <2>. HIDE DEF kept, m
  <2>. QED BY <2>1, <2>2, <2>3, <2>4, <2>5 DEF kept
<1>. HIDE DEF instead
<1>3. GoesOn(W, D, instead)
  <2>1. instead \in [D -> Nodes]
    <3>1. instead = [n \in D |-> instead[n]] BY DEF instead
    <3>. QED BY <1>2, <3>1
  <2>2. ASSUME NEW n \in D, NEW j \in DOMAIN instead[n].k, IsElem(instead[n].k[j])
        PROVE  instead[n].k[j] \in D
    <3>. DEFINE kept == Kept(n.k)
    <3>1. instead[n].k = kept /\ \A l \in DOMAIN kept : \E i \in DOMAIN n.k : kept[l] = n.k[i]
      BY <1>2
    <3>. HIDE DEF kept
    <3>2. PICK i \in DOMAIN n.k : instead[n].k[j] = n.k[i] BY <2>2, <3>1
    <3>. QED BY <1>1, <2>2, <3>2 DEF Within
  <2>. QED BY <1>1, <1>2, <2>1, <2>2 DEF GoesOn, Onward
<1>4. \A n \in D : R[instead[n]] = R[n] BY <1>2
<1>. QED BY <1>3, <1>4, GoesOnSaid

\* Reading reads every element as IsReading asks for.
LEMMA ReadingIs ==
  ASSUME Heights = Nat
  PROVE  \E R : IsReading(R) /\ \A n \in Nodes : Reading(n) = R[n]
<1>. DEFINE P(f) == f = [x \in Scope |-> ReadKids(x, LAMBDA y : f[y])]
            f == CHOOSE f : P(f)
<1>1. PICK R : IsReading(R) BY ReadingExists
<1>2. Scope = Nodes BY ScopeIsNodes
<1>3. P(R)
  <2>1. R = [x \in Nodes |-> R[x]] BY <1>1 DEF IsReading
  <2>. QED BY <1>1, <1>2, <2>1 DEF IsReading, ReadKids
<1>4. P(f)
  <2>. HIDE DEF P
  <2>. QED BY <1>3
<1>5. \A n \in Nodes : Reading(n) = f[n] BY DEF Reading, ReadKids
<1>. HIDE DEF f
<1>6. \A n \in Nodes : f[n] = ReadKids(n, LAMBDA y : f[y])
  BY <1>2, <1>4 DEF ReadKids
<1>. DEFINE S == {n \in Nodes : f[n] = R[n]}
<1>7. ASSUME NEW n \in Nodes, \A y \in ElemKids(Same[n]) : y \in S PROVE n \in S
  <2>1. \A i \in DOMAIN n.k : IsElem(n.k[i]) => f[n.k[i]] = R[n.k[i]]
    BY <1>7, SameGrounded, ElemKidsAre
  <2>2. ReadKids(n, LAMBDA y : f[y]) = ReadKids(n, LAMBDA y : R[y])
    BY <2>1 DEF ReadKids
  <2>. QED BY <1>1, <1>6, <2>2 DEF IsReading, ReadKids
<1>8. Nodes \subseteq S
  <2>. HIDE DEF S
  <2>. QED BY <1>7, SameGrounded, GroundedInduction
<1>. QED BY <1>1, <1>5, <1>8

\* An element given other kids is one.
LEMMA NewKids ==
  ASSUME NEW n \in Nodes, NEW k \in [DOMAIN n.k -> Trees]
  PROVE  /\ k \in Seq(Trees) /\ Len(k) = Len(n.k) /\ DOMAIN k = DOMAIN n.k
         /\ SetKids(n, k) \in Nodes /\ SetKids(n, k).k = k /\ SetKids(n, k).s = n.s
         /\ [n EXCEPT !.k = k] \in Nodes /\ [n EXCEPT !.k = k].k = k
         /\ [n EXCEPT !.k = k].s = n.s
<1>1. PICK R : IsReading(R) BY ReadingExists
<1>. DEFINE m == Len(n.k)
<1>2. DOMAIN n.k = 1..m /\ m \in Nat BY TreeKinds
<1>. HIDE DEF m
<1>3. k \in Seq(Trees) /\ Len(k) = m BY <1>2, SeqOfFunction
<1>4. DOMAIN k = 1..m BY <1>2
<1>5. /\ SetKids(n, k) \in Nodes /\ SetKids(n, k).k = k /\ SetKids(n, k).s = n.s
      /\ [n EXCEPT !.k = k] \in Nodes /\ [n EXCEPT !.k = k].k = k
      /\ [n EXCEPT !.k = k].s = n.s
  BY <1>1, <1>3, NewElements
<1>. QED BY <1>2, <1>3, <1>4, <1>5 DEF m

LEMMA WrapFromIs ==
  ASSUME NEW n \in Nodes, NEW child, NEW wrapper \in Kinds
  PROVE  /\ \A r : (\A y \in ElemKids(n) : r[y] \in Nodes)
                     => WrapFrom(n, child, wrapper, r) \in Nodes
         /\ \A r, q : (\A y \in ElemKids(n) : r[y] = q[y])
                       => WrapFrom(n, child, wrapper, r) = WrapFrom(n, child, wrapper, q)
<1>. DEFINE wrong(x) == Misplaced(x, n, {child})
            k(r) == [i \in DOMAIN n.k |->
                      IF wrong(n.k[i]) THEN Elem(wrapper, <<n.k[i]>>)
                      ELSE IF IsElem(n.k[i]) THEN r[n.k[i]]
                      ELSE n.k[i]]
<1>1. \A r : WrapFrom(n, child, wrapper, r)
               = IF \E i \in DOMAIN n.k : wrong(n.k[i]) THEN SetKids(n, k(r)) ELSE [n EXCEPT !.k = k(r)]
  BY DEF WrapFrom, WrapNode
<1>2. ASSUME NEW r, \A y \in ElemKids(n) : r[y] \in Nodes
      PROVE  WrapFrom(n, child, wrapper, r) \in Nodes
  <2>1. ASSUME NEW i \in DOMAIN n.k PROVE k(r)[i] \in Trees
    <3>. DEFINE x == n.k[i]
    <3>1. x \in Trees BY KidsAre
    <3>2. Elem(wrapper, <<x>>) \in Trees
      <4>. DEFINE xs == <<x>>
      <4>1. xs \in Seq(Trees) BY <3>1
      <4>. HIDE DEF xs
      <4>2. PICK R : IsReading(R) BY ReadingExists
      <4>3. Elem(wrapper, xs) \in Nodes BY <4>1, <4>2, NewElements
      <4>. QED BY <4>3, TreeKinds DEF xs
    <3>3. IsElem(x) => r[x] \in Trees BY <1>2, ElemKidsAre, TreeKinds
    <3>. QED BY <3>1, <3>2, <3>3
  <2>. DEFINE j == k(r)
  <2>2. j \in [DOMAIN n.k -> Trees] BY <2>1
  <2>3. WrapFrom(n, child, wrapper, r) \in {SetKids(n, j), [n EXCEPT !.k = j]}
    BY <1>1
  <2>. HIDE DEF j
  <2>. QED BY <2>2, <2>3, NewKids
<1>3. ASSUME NEW r, NEW q, \A y \in ElemKids(n) : r[y] = q[y]
      PROVE  WrapFrom(n, child, wrapper, r) = WrapFrom(n, child, wrapper, q)
  <2>1. k(r) = k(q) BY <1>3, ElemKidsAre
  <2>. HIDE DEF k
  <2>. QED BY <1>1, <2>1
<1>. QED BY <1>2, <1>3

LEMMA WrappedIs ==
  ASSUME Heights = Nat, NEW child, NEW wrapper \in Kinds
  PROVE  \E W : /\ W \in [Nodes -> Nodes]
                /\ \A n \in Nodes : W[n] = WrapFrom(n, child, wrapper, W)
                /\ \A n \in Nodes : Wrapped(n, child, wrapper) = W[n]
<1>. DEFINE B(n, r) == WrapFrom(n, child, wrapper, r)
            P(g) == g = [x \in Scope |-> WrapNode(x, child, wrapper, LAMBDA y : g[y])]
            f == CHOOSE g : P(g)
            F == [p \in Nodes \X Partial(Nodes) |->
                    IF B(p[1], p[2]) \in Nodes THEN B(p[1], p[2]) ELSE p[1]]
<1>1. Scope = Nodes BY ScopeIsNodes
<1>2. ASSUME NEW n \in Nodes
      PROVE  /\ \A r : (\A y \in ElemKids(n) : r[y] \in Nodes) => B(n, r) \in Nodes
             /\ \A r, q : (\A y \in ElemKids(n) : r[y] = q[y]) => B(n, r) = B(n, q)
  BY WrapFromIs
<1>. HIDE DEF B
<1>3. PICK w : w \in [Nodes -> Nodes] /\ Unfolding(w, Nodes, Same, F)
  <2>1. F \in [Nodes \X Partial(Nodes) -> Nodes] OBVIOUS
  <2>. HIDE DEF F
  <2>. QED BY <2>1, SameGrounded, GroundedRecursion
<1>4. ASSUME NEW n \in Nodes PROVE w[n] = B(n, w)
  <2>. DEFINE r == OnKids(w, n)
  <2>1. w[n] = F[<<n, r>>] BY <1>3, SameGrounded DEF Unfolding
  <2>2. \A y \in ElemKids(n) : r[y] = w[y] /\ w[y] \in Nodes
    BY <1>3, ElemKidsAre DEF OnKids
  <2>3. r \in [ElemKids(n) -> Nodes] BY <1>3, ElemKidsAre DEF OnKids
  <2>4. r \in Partial(Nodes) BY <2>3, ElemKidsAre DEF Partial
  <2>. HIDE DEF r
  <2>5. B(n, r) \in Nodes /\ B(n, r) = B(n, w) BY <1>2, <2>2
  <2>. QED BY <2>1, <2>4, <2>5
<1>5. P(w)
  <2>1. w = [x \in Nodes |-> B(x, w)] BY <1>3, <1>4
  <2>. QED BY <1>1, <2>1 DEF B, WrapFrom, WrapNode
<1>6. P(f)
  <2>. HIDE DEF P
  <2>. QED BY <1>5
<1>7. \A n \in Nodes : Wrapped(n, child, wrapper) = f[n]
  BY DEF Wrapped, WrapNode
<1>. HIDE DEF f
<1>8. \A n \in Nodes : f[n] = B(n, f) BY <1>1, <1>6 DEF B, WrapFrom, WrapNode
<1>. DEFINE S == {n \in Nodes : f[n] = w[n]}
<1>9. ASSUME NEW n \in Nodes, \A y \in ElemKids(Same[n]) : y \in S PROVE n \in S
  <2>1. \A y \in ElemKids(n) : f[y] = w[y] BY <1>9, SameGrounded
  <2>. QED BY <1>2, <1>4, <1>8, <2>1
<1>10. Nodes \subseteq S
  <2>. HIDE DEF S
  <2>. QED BY <1>9, SameGrounded, GroundedInduction
<1>. QED BY <1>3, <1>4, <1>7, <1>10 DEF B

LEMMA EntriesFromIs ==
  ASSUME NEW n \in Nodes
  PROVE  /\ \A r : (\A y \in ElemKids(n) : r[y] \in Nodes) => EntriesFrom(n, r) \in Nodes
         /\ \A r, q : (\A y \in ElemKids(n) : r[y] = q[y]) => EntriesFrom(n, r) = EntriesFrom(n, q)
<1>. DEFINE stray(x) == Type(x) = "TOCI" /\ n.s # "TOC"
            kid(r, x) == IF IsElem(x) THEN r[x] ELSE x
            k(r) == [i \in DOMAIN n.k |->
                      IF stray(kid(r, n.k[i])) THEN Only("TOC", kid(r, n.k[i])) ELSE kid(r, n.k[i])]
<1>1. \A r : EntriesFrom(n, r)
               = IF \E i \in DOMAIN n.k : stray(n.k[i]) THEN SetKids(n, k(r)) ELSE [n EXCEPT !.k = k(r)]
  BY DEF EntriesFrom, EntriesNode
<1>2. ASSUME NEW r, \A y \in ElemKids(n) : r[y] \in Nodes
      PROVE  EntriesFrom(n, r) \in Nodes
  <2>1. ASSUME NEW i \in DOMAIN n.k PROVE k(r)[i] \in Trees
    <3>. DEFINE x == kid(r, n.k[i])
    <3>1. x \in Trees BY <1>2, KidsAre, ElemKidsAre, TreeKinds
    <3>2. k(r)[i] = IF stray(x) THEN Only("TOC", x) ELSE x OBVIOUS
    <3>. HIDE DEF x
    <3>3. PICK R : IsReading(R) BY ReadingExists
    <3>4. "TOC" \in Kinds BY DEF Kinds
    <3>5. Only("TOC", x) \in Trees BY <3>1, <3>3, <3>4, OnlySaid
    <3>. QED BY <3>1, <3>2, <3>5
  <2>. DEFINE j == k(r)
  <2>2. j \in [DOMAIN n.k -> Trees] BY <2>1
  <2>3. EntriesFrom(n, r) \in {SetKids(n, j), [n EXCEPT !.k = j]} BY <1>1
  <2>. HIDE DEF j
  <2>. QED BY <2>2, <2>3, NewKids
<1>3. ASSUME NEW r, NEW q, \A y \in ElemKids(n) : r[y] = q[y]
      PROVE  EntriesFrom(n, r) = EntriesFrom(n, q)
  <2>1. k(r) = k(q) BY <1>3, ElemKidsAre
  <2>. HIDE DEF k
  <2>. QED BY <1>1, <2>1
<1>. QED BY <1>2, <1>3

LEMMA OnwardsIs ==
  ASSUME NEW n \in Nodes
  PROVE  /\ \A r : (\A y \in ElemKids(n) : r[y] \in Nodes)
                     => /\ Onwards(n, r) \in Nodes /\ Onwards(n, r).s = n.s
                        /\ Onwards(n, r).k \in Seq(Trees)
                        /\ DOMAIN Onwards(n, r).k = DOMAIN n.k
                        /\ \A i \in DOMAIN n.k : Onwards(n, r).k[i]
                              = IF IsElem(n.k[i]) THEN r[n.k[i]] ELSE n.k[i]
         /\ \A r, q : (\A y \in ElemKids(n) : r[y] = q[y]) => Onwards(n, r) = Onwards(n, q)
<1>. DEFINE k(r) == [i \in DOMAIN n.k |-> IF IsElem(n.k[i]) THEN r[n.k[i]] ELSE n.k[i]]
<1>1. \A r : Onwards(n, r) = [n EXCEPT !.k = k(r)] BY DEF Onwards, Onward
<1>2. ASSUME NEW r, \A y \in ElemKids(n) : r[y] \in Nodes
      PROVE  /\ Onwards(n, r) \in Nodes /\ Onwards(n, r).s = n.s
             /\ Onwards(n, r).k \in Seq(Trees)
             /\ DOMAIN Onwards(n, r).k = DOMAIN n.k
             /\ \A i \in DOMAIN n.k : Onwards(n, r).k[i]
                   = IF IsElem(n.k[i]) THEN r[n.k[i]] ELSE n.k[i]
  <2>1. \A i \in DOMAIN n.k : k(r)[i] \in Trees
    BY <1>2, KidsAre, ElemKidsAre, TreeKinds
  <2>. DEFINE j == k(r)
  <2>2. j \in [DOMAIN n.k -> Trees] BY <2>1
  <2>3. Onwards(n, r) = [n EXCEPT !.k = j] BY <1>1
  <2>4. \A i \in DOMAIN n.k : j[i] = IF IsElem(n.k[i]) THEN r[n.k[i]] ELSE n.k[i]
    OBVIOUS
  <2>. HIDE DEF j
  <2>. QED BY <2>2, <2>3, <2>4, NewKids
<1>3. ASSUME NEW r, NEW q, \A y \in ElemKids(n) : r[y] = q[y]
      PROVE  Onwards(n, r) = Onwards(n, q)
  <2>1. k(r) = k(q) BY <1>3, ElemKidsAre
  <2>. HIDE DEF k
  <2>. QED BY <1>1, <2>1
<1>. QED BY <1>2, <1>3

\* The kids that are kept are kids.
LEMMA KeptKids ==
  ASSUME NEW n \in Nodes
  PROVE  /\ Kept(n.k) \in Seq(Trees)
         /\ [n EXCEPT !.k = Kept(n.k)] \in Nodes
         /\ [n EXCEPT !.k = Kept(n.k)].k = Kept(n.k)
         /\ ElemKids([n EXCEPT !.k = Kept(n.k)]) \subseteq ElemKids(n)
<1>. DEFINE k == n.k
            kept == Kept(k)
            K == {k[i] : i \in DOMAIN k}
            at(i) == IF Empty(k[i]) THEN <<>> ELSE <<k[i]>>
            ss == [i \in DOMAIN k |-> at(i)]
            l == Len(k)
            T == Seq(K)
<1>1. DOMAIN k = 1..l /\ l \in Nat /\ k \in Seq(Trees) BY TreeKinds
<1>2. kept \in Seq(Trees)
  <2>. HIDE DEF k
  <2>. QED BY <1>1, ReadingExists, KeptSaid
<1>3. kept \in T
  <2>. HIDE DEF k, l
  <2>1. \A i \in 1..l : at(i) \in T
    <3>1. \A i \in 1..l : k[i] \in K BY <1>1
    <3>2. \A i \in 1..l : at(i) = <<>> \/ at(i) = <<k[i]>> OBVIOUS
    <3>. HIDE DEF K, at
    <3>3. <<>> \in Seq(K) /\ \A x \in K : <<x>> \in Seq(K) OBVIOUS
    <3>. QED BY <3>1, <3>2, <3>3
  <2>2. ss \in [1..l -> T]
    <3>. HIDE DEF at, T
    <3>. QED BY <1>1, <2>1
  <2>3. kept = FlattenSeq(ss) BY DEF Kept
  <2>. HIDE DEF ss, T
  <2>4. ss \in Seq(T) BY <1>1, <2>2, SeqOfFunction
  <2>. HIDE DEF kept, K
  <2>. QED BY <2>3, <2>4, FlattenType DEF T
<1>4. \A j \in DOMAIN kept : kept[j] \in K
  <2>. HIDE DEF kept, K
  <2>. QED BY <1>3
<1>. DEFINE m == [n EXCEPT !.k = kept]
<1>5. m \in Nodes /\ m.k = kept
  <2>. HIDE DEF kept
  <2>. QED BY <1>2, ReadingExists, NewElements
<1>6. \A y \in ElemKids(m) : IsElem(y) /\ \E j \in DOMAIN kept : kept[j] = y
  <2>. HIDE DEF kept, m
  <2>. QED BY <1>5 DEF ElemKids, ToSet
<1>7. ElemKids(m) \subseteq ElemKids(n)
  <2>1. \A y \in ElemKids(m) : IsElem(y) /\ y \in K
    <3>. HIDE DEF m, kept, K
    <3>. QED BY <1>4, <1>6
  <2>. QED BY <2>1 DEF ElemKids, ToSet
<1>. QED BY <1>2, <1>5, <1>7

LEMMA PruneFromIs ==
  ASSUME NEW n \in Nodes
  PROVE  /\ \A r : (\A y \in ElemKids(n) : r[y] \in Nodes) => PruneFrom(n, r) \in Nodes
         /\ \A r, q : (\A y \in ElemKids(n) : r[y] = q[y]) => PruneFrom(n, r) = PruneFrom(n, q)
<1>. DEFINE m == [n EXCEPT !.k = Kept(n.k)]
<1>1. \A r : PruneFrom(n, r) = IF Kept(n.k) = n.k THEN Onwards(n, r) ELSE SetKids(n, Onwards(m, r).k)
  BY DEF PruneFrom, PruneNode, Kept, Onwards
<1>2. m \in Nodes /\ ElemKids(m) \subseteq ElemKids(n) BY KeptKids
<1>. HIDE DEF m
<1>3. ASSUME NEW r, \A y \in ElemKids(n) : r[y] \in Nodes
      PROVE  PruneFrom(n, r) \in Nodes
  <2>. DEFINE j == Onwards(m, r).k
  <2>1. Onwards(n, r) \in Nodes BY <1>3, OnwardsIs
  <2>2. \A y \in ElemKids(m) : r[y] \in Nodes BY <1>2, <1>3
  <2>3. j \in Seq(Trees) BY <1>2, <2>2, OnwardsIs
  <2>4. PruneFrom(n, r) \in {Onwards(n, r), SetKids(n, j)} BY <1>1
  <2>. HIDE DEF j
  <2>5. SetKids(n, j) \in Nodes BY <2>3, ReadingExists, NewElements
  <2>. QED BY <2>1, <2>4, <2>5
<1>4. ASSUME NEW r, NEW q, \A y \in ElemKids(n) : r[y] = q[y]
      PROVE  PruneFrom(n, r) = PruneFrom(n, q)
  <2>1. Onwards(n, r) = Onwards(n, q) /\ Onwards(m, r) = Onwards(m, q)
    BY <1>2, <1>4, OnwardsIs
  <2>. QED BY <1>1, <2>1
<1>. QED BY <1>3, <1>4

LEMMA WrappedEntriesIs ==
  ASSUME Heights = Nat
  PROVE  \E W : /\ W \in [Nodes -> Nodes]
                /\ \A n \in Nodes : W[n] = EntriesFrom(n, W)
                /\ \A n \in Nodes : WrappedEntries(n) = W[n]
<1>. DEFINE B(n, r) == EntriesFrom(n, r)
            P(g) == g = [x \in Scope |-> EntriesNode(x, LAMBDA y : g[y])]
            f == CHOOSE g : P(g)
            F == [p \in Nodes \X Partial(Nodes) |->
                    IF B(p[1], p[2]) \in Nodes THEN B(p[1], p[2]) ELSE p[1]]
<1>1. Scope = Nodes BY ScopeIsNodes
<1>2. ASSUME NEW n \in Nodes
      PROVE  /\ \A r : (\A y \in ElemKids(n) : r[y] \in Nodes) => B(n, r) \in Nodes
             /\ \A r, q : (\A y \in ElemKids(n) : r[y] = q[y]) => B(n, r) = B(n, q)
  BY EntriesFromIs
<1>. HIDE DEF B
<1>3. PICK w : w \in [Nodes -> Nodes] /\ Unfolding(w, Nodes, Same, F)
  <2>1. F \in [Nodes \X Partial(Nodes) -> Nodes] OBVIOUS
  <2>. HIDE DEF F
  <2>. QED BY <2>1, SameGrounded, GroundedRecursion
<1>4. ASSUME NEW n \in Nodes PROVE w[n] = B(n, w)
  <2>. DEFINE r == OnKids(w, n)
  <2>1. w[n] = F[<<n, r>>] BY <1>3, SameGrounded DEF Unfolding
  <2>0. ElemKids(n) \subseteq Nodes BY ElemKidsAre
  <2>2. \A y \in ElemKids(n) : r[y] = w[y] /\ w[y] \in Nodes
    BY <1>3, <2>0 DEF OnKids
  <2>3. r \in [ElemKids(n) -> Nodes] BY <1>3, <2>0 DEF OnKids
  <2>4. r \in Partial(Nodes) BY <2>0, <2>3 DEF Partial
  <2>. HIDE DEF r
  <2>5. B(n, r) \in Nodes /\ B(n, r) = B(n, w) BY <1>2, <2>2
  <2>. QED BY <2>1, <2>4, <2>5
<1>5. P(w)
  <2>1. w = [x \in Nodes |-> B(x, w)] BY <1>3, <1>4
  <2>. QED BY <1>1, <2>1 DEF B, EntriesFrom, EntriesNode
<1>6. P(f)
  <2>. HIDE DEF P
  <2>. QED BY <1>5
<1>7. \A n \in Nodes : WrappedEntries(n) = f[n]
  BY DEF WrappedEntries, EntriesNode
<1>. HIDE DEF f
<1>8. \A n \in Nodes : f[n] = B(n, f)
  BY <1>1, <1>6 DEF B, EntriesFrom, EntriesNode
<1>. DEFINE S == {n \in Nodes : f[n] = w[n]}
<1>9. ASSUME NEW n \in Nodes, \A y \in ElemKids(Same[n]) : y \in S PROVE n \in S
  <2>1. \A y \in ElemKids(n) : f[y] = w[y] BY <1>9, SameGrounded
  <2>. QED BY <1>2, <1>4, <1>8, <2>1
<1>10. Nodes \subseteq S
  <2>. HIDE DEF S
  <2>. QED BY <1>9, SameGrounded, GroundedInduction
<1>. QED BY <1>3, <1>4, <1>7, <1>10 DEF B

LEMMA WithoutEmptyIs ==
  ASSUME Heights = Nat
  PROVE  \E W : /\ W \in [Nodes -> Nodes]
                /\ \A n \in Nodes : W[n] = PruneFrom(n, W)
                /\ \A n \in Nodes : WithoutEmpty(n) = W[n]
<1>. DEFINE B(n, r) == PruneFrom(n, r)
            P(g) == g = [x \in Scope |-> PruneNode(x, LAMBDA y : g[y])]
            f == CHOOSE g : P(g)
            F == [p \in Nodes \X Partial(Nodes) |->
                    IF B(p[1], p[2]) \in Nodes THEN B(p[1], p[2]) ELSE p[1]]
<1>1. Scope = Nodes BY ScopeIsNodes
<1>2. ASSUME NEW n \in Nodes
      PROVE  /\ \A r : (\A y \in ElemKids(n) : r[y] \in Nodes) => B(n, r) \in Nodes
             /\ \A r, q : (\A y \in ElemKids(n) : r[y] = q[y]) => B(n, r) = B(n, q)
  BY PruneFromIs
<1>. HIDE DEF B
<1>3. PICK w : w \in [Nodes -> Nodes] /\ Unfolding(w, Nodes, Same, F)
  <2>1. F \in [Nodes \X Partial(Nodes) -> Nodes] OBVIOUS
  <2>. HIDE DEF F
  <2>. QED BY <2>1, SameGrounded, GroundedRecursion
<1>4. ASSUME NEW n \in Nodes PROVE w[n] = B(n, w)
  <2>. DEFINE r == OnKids(w, n)
  <2>1. w[n] = F[<<n, r>>] BY <1>3, SameGrounded DEF Unfolding
  <2>0. ElemKids(n) \subseteq Nodes BY ElemKidsAre
  <2>2. \A y \in ElemKids(n) : r[y] = w[y] /\ w[y] \in Nodes
    BY <1>3, <2>0 DEF OnKids
  <2>3. r \in [ElemKids(n) -> Nodes] BY <1>3, <2>0 DEF OnKids
  <2>4. r \in Partial(Nodes) BY <2>0, <2>3 DEF Partial
  <2>. HIDE DEF r
  <2>5. B(n, r) \in Nodes /\ B(n, r) = B(n, w) BY <1>2, <2>2
  <2>. QED BY <2>1, <2>4, <2>5
<1>5. P(w)
  <2>1. w = [x \in Nodes |-> B(x, w)] BY <1>3, <1>4
  <2>. QED BY <1>1, <2>1 DEF B, PruneFrom, PruneNode, Onward
<1>6. P(f)
  <2>. HIDE DEF P
  <2>. QED BY <1>5
<1>7. \A n \in Nodes : WithoutEmpty(n) = f[n]
  BY DEF WithoutEmpty, PruneNode, Onward
<1>. HIDE DEF f
<1>8. \A n \in Nodes : f[n] = B(n, f)
  BY <1>1, <1>6 DEF B, PruneFrom, PruneNode, Onward
<1>. DEFINE S == {n \in Nodes : f[n] = w[n]}
<1>9. ASSUME NEW n \in Nodes, \A y \in ElemKids(Same[n]) : y \in S PROVE n \in S
  <2>1. \A y \in ElemKids(n) : f[y] = w[y] BY <1>9, SameGrounded
  <2>. QED BY <1>2, <1>4, <1>8, <2>1
<1>10. Nodes \subseteq S
  <2>. HIDE DEF S
  <2>. QED BY <1>9, SameGrounded, GroundedInduction
<1>. QED BY <1>3, <1>4, <1>7, <1>10 DEF B

LEMMA RowsFromIs ==
  ASSUME NEW n \in Nodes
  PROVE  /\ \A r : (\A y \in ElemKids(n) : r[y] \in Seq(Seq(Trees)))
                     => RowsFrom(n, r) \in Seq(Seq(Trees))
         /\ \A r, q : (\A y \in ElemKids(n) : r[y] = q[y]) => RowsFrom(n, r) = RowsFrom(n, q)
<1>. DEFINE k == n.k
            m == Len(k)
<1>1. /\ DOMAIN n.k = 1..m /\ DOMAIN k = 1..m /\ m \in Nat
      /\ \A i \in 1..m : n.k[i] \in Trees /\ k[i] \in Trees
  BY TreeKinds, KidsAre
<1>2. \A i \in 1..m : Type(n.k[i]) \in Grids => n.k[i] \in ElemKids(n)
  <2>1. \A i \in 1..m : Type(n.k[i]) # "" => IsElem(n.k[i]) BY DEF Type
  <2>. QED BY <1>1, <2>1, ElemKidsAre DEF Grids, Sections
<1>3. CellsAmong(n.k) \in Seq(Trees)
  <2>. DEFINE at(i) == IF IsCell(k[i]) THEN <<k[i]>> ELSE <<>>
              ss == [i \in DOMAIN k |-> at(i)]
              T == Seq(Trees)
  <2>1. \A i \in 1..m : at(i) \in T BY <1>1
  <2>. HIDE DEF at, T, m
  <2>2. ss \in [1..m -> T] BY <1>1, <2>1
  <2>3. CellsAmong(n.k) = FlattenSeq(ss) BY DEF CellsAmong, at
  <2>. HIDE DEF ss
  <2>4. ss \in Seq(T) BY <1>1, <2>2, SeqOfFunction
  <2>. QED BY <2>3, <2>4, FlattenType DEF T
<1>. HIDE DEF k, m
<1>4. ASSUME NEW r, \A y \in ElemKids(n) : r[y] \in Seq(Seq(Trees))
      PROVE  RowsFrom(n, r) \in Seq(Seq(Trees))
  <2>. DEFINE T == Seq(Trees)
              Q == Seq(T)
              ss == [i \in DOMAIN n.k |-> IF Type(n.k[i]) \in Grids THEN r[n.k[i]] ELSE <<>>]
  <2>0. Q = Seq(Seq(Trees)) /\ <<>> \in Q /\ \A c \in T : <<c>> \in Q OBVIOUS
  <2>. HIDE DEF Q
  <2>1. ss \in [1..m -> Q] BY <1>1, <1>2, <1>4, <2>0
  <2>. HIDE DEF ss
  <2>2. ss \in Seq(Q) BY <1>1, <2>1, SeqOfFunction
  <2>. HIDE DEF T
  <2>3. FlattenSeq(ss) \in Q BY <2>2, FlattenType DEF Q
  <2>4. RowsFrom(n, r) = <<CellsAmong(n.k)>> \/ RowsFrom(n, r) = FlattenSeq(ss)
    BY DEF RowsFrom, ss
  <2>5. CellsAmong(n.k) \in T BY <1>3 DEF T
  <2>. QED BY <2>0, <2>3, <2>4, <2>5
<1>5. ASSUME NEW r, NEW q, \A y \in ElemKids(n) : r[y] = q[y]
      PROVE  RowsFrom(n, r) = RowsFrom(n, q)
  BY <1>1, <1>2, <1>5 DEF RowsFrom
<1>. QED BY <1>4, <1>5

\* An element is given one more kid, or another last one.
LEMMA TallerIs ==
  ASSUME NEW n \in Nodes, NEW x \in Trees
  PROVE  /\ Taller(n, x) \in Nodes /\ Taller(n, x).s = n.s /\ Taller(n, x).k = Append(n.k, x)
         /\ n.k # <<>> => /\ Last(n.k) \in Trees /\ Last(n.k) \in {n.k[i] : i \in DOMAIN n.k}
                          /\ Append(Front(n.k), x) \in Seq(Trees)
                          /\ [n EXCEPT !.k = Append(Front(n.k), x)] \in Nodes
                          /\ [n EXCEPT !.k = Append(Front(n.k), x)].s = n.s
                          /\ [n EXCEPT !.k = Append(Front(n.k), x)].k = Append(Front(n.k), x)
<1>. DEFINE k == n.k
            m == Len(k)
<1>1. k \in Seq(Trees) /\ m \in Nat /\ DOMAIN k = 1..m /\ \A i \in 1..m : k[i] \in Trees
  <2>1. k \in Seq(Trees) /\ m \in Nat /\ DOMAIN k = 1..m BY TreeKinds
  <2>. HIDE DEF k
  <2>. QED BY <2>1
<1>2. Taller(n, x) \in Nodes /\ Taller(n, x).s = n.s /\ Taller(n, x).k = Append(n.k, x)
  <2>. DEFINE j == Append(n.k, x)
  <2>1. j \in Seq(Trees) BY <1>1
  <2>2. Taller(n, x) = [n EXCEPT !.k = j, !.bare = FALSE] BY DEF Taller
  <2>. HIDE DEF j
  <2>3. Taller(n, x) \in Nodes /\ Taller(n, x).s = n.s /\ Taller(n, x).k = j
    BY <2>1, <2>2 DEF Nodes, Elements
  <2>. QED BY <2>3 DEF j
<1>3. ASSUME k # <<>>
      PROVE  /\ Last(k) \in Trees /\ Last(k) \in {k[i] : i \in DOMAIN k}
             /\ Append(Front(k), x) \in Seq(Trees)
  <2>. HIDE DEF k
  <2>1. m \in 1..m /\ Last(k) = k[m] BY <1>1, <1>3 DEF Last
  <2>2. Front(k) \in Seq(Trees)
    <3>1. \A i \in 1..(m - 1) : k[i] \in Trees BY <1>1
    <3>2. 1 \in Int /\ m - 1 \in Int BY <1>1
    <3>. QED BY <1>1, <3>1, <3>2, SubSeqProperties DEF Front
  <2>. QED BY <1>1, <2>1, <2>2
<1>4. ASSUME k # <<>>
      PROVE  /\ [n EXCEPT !.k = Append(Front(n.k), x)] \in Nodes
             /\ [n EXCEPT !.k = Append(Front(n.k), x)].s = n.s
             /\ [n EXCEPT !.k = Append(Front(n.k), x)].k = Append(Front(n.k), x)
  <2>. DEFINE j == Append(Front(n.k), x)
  <2>1. j \in Seq(Trees) BY <1>3, <1>4
  <2>. HIDE DEF j
  <2>2. /\ [n EXCEPT !.k = j] \in Nodes /\ [n EXCEPT !.k = j].s = n.s
        /\ [n EXCEPT !.k = j].k = j
    BY <2>1, ReadingExists, NewElements
  <2>. QED BY <2>2 DEF j
<1>. QED BY <1>2, <1>3, <1>4

LEMMA GrownFromIs ==
  ASSUME NEW n \in Nodes, NEW x \in Trees
  PROVE  /\ \A r : (\A y \in ElemKids(n) : r[y] \in SUBSET Nodes)
                     => GrownFrom(n, x, r) \in SUBSET Nodes
         /\ \A r, q : (\A y \in ElemKids(n) : r[y] = q[y]) => GrownFrom(n, x, r) = GrownFrom(n, x, q)
<1>1. n.k # <<>> /\ IsElem(Last(n.k)) => Last(n.k) \in ElemKids(n)
  BY TallerIs DEF ElemKids, ToSet
<1>2. ASSUME NEW r, \A y \in ElemKids(n) : r[y] \in SUBSET Nodes
      PROVE  GrownFrom(n, x, r) \in SUBSET Nodes
  <2>1. ASSUME n.k # <<>>, IsElem(Last(n.k)), NEW z \in r[Last(n.k)]
        PROVE  [n EXCEPT !.k = Append(Front(n.k), z)] \in Nodes
    <3>1. z \in Trees BY <1>1, <1>2, <2>1, TreeKinds
    <3>. QED BY <2>1, <3>1, TallerIs
  <2>2. Taller(n, x) \in Nodes BY TallerIs
  <2>3. GrownFrom(n, x, r)
          = {Taller(n, x)} \cup IF n.k # <<>> /\ IsElem(Last(n.k))
                               THEN {[n EXCEPT !.k = Append(Front(n.k), z)] : z \in r[Last(n.k)]}
                               ELSE {}
    BY DEF GrownFrom
  <2>. QED BY <2>1, <2>2, <2>3
<1>3. ASSUME NEW r, NEW q, \A y \in ElemKids(n) : r[y] = q[y]
      PROVE  GrownFrom(n, x, r) = GrownFrom(n, x, q)
  BY <1>1, <1>3 DEF GrownFrom
<1>. QED BY <1>2, <1>3

LEMMA BelowIs ==
  ASSUME Heights = Nat
  PROVE  \E w : /\ w \in [Nodes -> SUBSET Nodes]
                /\ \A n \in Nodes : w[n] = {n} \cup UNION {w[y] : y \in ElemKids(n)}
                /\ \A n \in Nodes : Below(n) = w[n]
<1>. DEFINE V == SUBSET Nodes
            B(n, r) == {n} \cup UNION {r[y] : y \in ElemKids(n)}
            P(g) == g = [x \in Scope |-> {x} \cup UNION {g[y] : y \in ElemKids(x)}]
            f == CHOOSE g : P(g)
            F == [p \in Nodes \X Partial(V) |->
                    IF B(p[1], p[2]) \in V THEN B(p[1], p[2]) ELSE {}]
<1>1. Scope = Nodes BY ScopeIsNodes
<1>2. ASSUME NEW n \in Nodes
      PROVE  /\ \A r : (\A y \in ElemKids(n) : r[y] \in V) => B(n, r) \in V
             /\ \A r, q : (\A y \in ElemKids(n) : r[y] = q[y]) => B(n, r) = B(n, q)
  <2>1. ASSUME NEW r, \A y \in ElemKids(n) : r[y] \in V PROVE B(n, r) \in V
    BY <2>1
  <2>2. ASSUME NEW r, NEW q, \A y \in ElemKids(n) : r[y] = q[y] PROVE B(n, r) = B(n, q)
    BY <2>2
  <2>. QED BY <2>1, <2>2
<1>0. {} \in V OBVIOUS
<1>. HIDE DEF B, V
<1>3. PICK w : w \in [Nodes -> V] /\ Unfolding(w, Nodes, Same, F)
  <2>1. F \in [Nodes \X Partial(V) -> V] BY <1>0
  <2>. HIDE DEF F
  <2>. QED BY <2>1, SameGrounded, GroundedRecursion
<1>4. ASSUME NEW n \in Nodes PROVE w[n] = B(n, w)
  <2>. DEFINE r == OnKids(w, n)
  <2>1. w[n] = F[<<n, r>>] BY <1>3, SameGrounded DEF Unfolding
  <2>2. \A y \in ElemKids(n) : r[y] = w[y] /\ w[y] \in V
    BY <1>3, ElemKidsAre DEF OnKids
  <2>3. r \in [ElemKids(n) -> V] BY <1>3, ElemKidsAre DEF OnKids
  <2>4. r \in Partial(V) BY <2>3, ElemKidsAre DEF Partial
  <2>. HIDE DEF r
  <2>5. B(n, r) \in V /\ B(n, r) = B(n, w) BY <1>2, <2>2
  <2>. QED BY <2>1, <2>4, <2>5
<1>5. P(w)
  <2>1. w = [x \in Nodes |-> B(x, w)] BY <1>3, <1>4
  <2>. QED BY <1>1, <2>1 DEF B
<1>6. P(f)
  <2>. HIDE DEF P
  <2>. QED BY <1>5
<1>7. \A n \in Nodes : Below(n) = f[n] BY DEF Below
<1>. HIDE DEF f
<1>8. \A n \in Nodes : f[n] = B(n, f) BY <1>1, <1>6 DEF B
<1>. DEFINE S == {n \in Nodes : f[n] = w[n]}
<1>9. ASSUME NEW n \in Nodes, \A y \in ElemKids(Same[n]) : y \in S PROVE n \in S
  <2>1. \A y \in ElemKids(n) : f[y] = w[y] BY <1>9, SameGrounded
  <2>. QED BY <1>2, <1>4, <1>8, <2>1
<1>10. Nodes \subseteq S
  <2>. HIDE DEF S
  <2>. QED BY <1>9, SameGrounded, GroundedInduction
<1>. QED BY <1>3, <1>4, <1>7, <1>10 DEF B, V

LEMMA RowsOfIs ==
  ASSUME Heights = Nat
  PROVE  \E w : /\ w \in [Nodes -> Seq(Seq(Trees))]
                /\ \A n \in Nodes : w[n] = RowsFrom(n, w)
                /\ \A n \in Nodes : \A m : RowsOf(m)[n] = w[n]
<1>. DEFINE V == Seq(Seq(Trees))
            B(n, r) == RowsFrom(n, r)
            P(g) == g = [x \in Scope |-> RowsFrom(x, g)]
            f == CHOOSE g : P(g)
            F == [p \in Nodes \X Partial(V) |->
                    IF B(p[1], p[2]) \in V THEN B(p[1], p[2]) ELSE <<>>]
<1>1. Scope = Nodes BY ScopeIsNodes
<1>2. ASSUME NEW n \in Nodes
      PROVE  /\ \A r : (\A y \in ElemKids(n) : r[y] \in V) => B(n, r) \in V
             /\ \A r, q : (\A y \in ElemKids(n) : r[y] = q[y]) => B(n, r) = B(n, q)
  <2>1. ASSUME NEW r, \A y \in ElemKids(n) : r[y] \in V PROVE B(n, r) \in V
    BY <2>1, RowsFromIs
  <2>2. ASSUME NEW r, NEW q, \A y \in ElemKids(n) : r[y] = q[y] PROVE B(n, r) = B(n, q)
    BY <2>2, RowsFromIs
  <2>. QED BY <2>1, <2>2
<1>0. <<>> \in V OBVIOUS
<1>. HIDE DEF B, V
<1>3. PICK w : w \in [Nodes -> V] /\ Unfolding(w, Nodes, Same, F)
  <2>1. F \in [Nodes \X Partial(V) -> V] BY <1>0
  <2>. HIDE DEF F
  <2>. QED BY <2>1, SameGrounded, GroundedRecursion
<1>4. ASSUME NEW n \in Nodes PROVE w[n] = B(n, w)
  <2>. DEFINE r == OnKids(w, n)
  <2>1. w[n] = F[<<n, r>>] BY <1>3, SameGrounded DEF Unfolding
  <2>2. \A y \in ElemKids(n) : r[y] = w[y] /\ w[y] \in V
    BY <1>3, ElemKidsAre DEF OnKids
  <2>3. r \in [ElemKids(n) -> V] BY <1>3, ElemKidsAre DEF OnKids
  <2>4. r \in Partial(V) BY <2>3, ElemKidsAre DEF Partial
  <2>. HIDE DEF r
  <2>5. B(n, r) \in V /\ B(n, r) = B(n, w) BY <1>2, <2>2
  <2>. QED BY <2>1, <2>4, <2>5
<1>5. P(w)
  <2>1. w = [x \in Nodes |-> B(x, w)] BY <1>3, <1>4
  <2>. QED BY <1>1, <2>1 DEF B, RowsFrom
<1>6. P(f)
  <2>. HIDE DEF P
  <2>. QED BY <1>5
<1>7. \A n \in Nodes : \A m : RowsOf(m)[n] = f[n] BY DEF RowsOf, RowsFrom
<1>. HIDE DEF f
<1>8. \A n \in Nodes : f[n] = B(n, f) BY <1>1, <1>6 DEF B, RowsFrom
<1>. DEFINE S == {n \in Nodes : f[n] = w[n]}
<1>9. ASSUME NEW n \in Nodes, \A y \in ElemKids(Same[n]) : y \in S PROVE n \in S
  <2>1. \A y \in ElemKids(n) : f[y] = w[y] BY <1>9, SameGrounded
  <2>. QED BY <1>2, <1>4, <1>8, <2>1
<1>10. Nodes \subseteq S
  <2>. HIDE DEF S
  <2>. QED BY <1>9, SameGrounded, GroundedInduction
<1>. QED BY <1>3, <1>4, <1>7, <1>10 DEF B, V

LEMMA GrownIs ==
  ASSUME Heights = Nat, NEW x \in Trees
  PROVE  \E w : /\ w \in [Nodes -> SUBSET Nodes]
                /\ \A n \in Nodes : w[n] = GrownFrom(n, x, w)
                /\ \A n \in Nodes : Grown(n, x) = w[n]
<1>. DEFINE V == SUBSET Nodes
            B(n, r) == GrownFrom(n, x, r)
            P(g) == g = [z \in Scope |-> GrownFrom(z, x, g)]
            f == CHOOSE g : P(g)
            F == [p \in Nodes \X Partial(V) |->
                    IF B(p[1], p[2]) \in V THEN B(p[1], p[2]) ELSE {}]
<1>1. Scope = Nodes BY ScopeIsNodes
<1>2. ASSUME NEW n \in Nodes
      PROVE  /\ \A r : (\A y \in ElemKids(n) : r[y] \in V) => B(n, r) \in V
             /\ \A r, q : (\A y \in ElemKids(n) : r[y] = q[y]) => B(n, r) = B(n, q)
  <2>1. ASSUME NEW r, \A y \in ElemKids(n) : r[y] \in V PROVE B(n, r) \in V
    BY <2>1, GrownFromIs
  <2>2. ASSUME NEW r, NEW q, \A y \in ElemKids(n) : r[y] = q[y] PROVE B(n, r) = B(n, q)
    BY <2>2, GrownFromIs
  <2>. QED BY <2>1, <2>2
<1>0. {} \in V OBVIOUS
<1>. HIDE DEF B, V
<1>3. PICK w : w \in [Nodes -> V] /\ Unfolding(w, Nodes, Same, F)
  <2>1. F \in [Nodes \X Partial(V) -> V] BY <1>0
  <2>. HIDE DEF F
  <2>. QED BY <2>1, SameGrounded, GroundedRecursion
<1>4. ASSUME NEW n \in Nodes PROVE w[n] = B(n, w)
  <2>. DEFINE r == OnKids(w, n)
  <2>1. w[n] = F[<<n, r>>] BY <1>3, SameGrounded DEF Unfolding
  <2>2. \A y \in ElemKids(n) : r[y] = w[y] /\ w[y] \in V
    BY <1>3, ElemKidsAre DEF OnKids
  <2>3. r \in [ElemKids(n) -> V] BY <1>3, ElemKidsAre DEF OnKids
  <2>4. r \in Partial(V) BY <2>3, ElemKidsAre DEF Partial
  <2>. HIDE DEF r
  <2>5. B(n, r) \in V /\ B(n, r) = B(n, w) BY <1>2, <2>2
  <2>. QED BY <2>1, <2>4, <2>5
<1>5. P(w)
  <2>1. w = [z \in Nodes |-> B(z, w)] BY <1>3, <1>4
  <2>. QED BY <1>1, <2>1 DEF B, GrownFrom
<1>6. P(f)
  <2>. HIDE DEF P
  <2>. QED BY <1>5
<1>7. \A n \in Nodes : Grown(n, x) = f[n] BY DEF Grown, GrownFrom
<1>. HIDE DEF f
<1>8. \A n \in Nodes : f[n] = B(n, f) BY <1>1, <1>6 DEF B, GrownFrom
<1>. DEFINE S == {n \in Nodes : f[n] = w[n]}
<1>9. ASSUME NEW n \in Nodes, \A y \in ElemKids(Same[n]) : y \in S PROVE n \in S
  <2>1. \A y \in ElemKids(n) : f[y] = w[y] BY <1>9, SameGrounded
  <2>. QED BY <1>2, <1>4, <1>8, <2>1
<1>10. Nodes \subseteq S
  <2>. HIDE DEF S
  <2>. QED BY <1>9, SameGrounded, GroundedInduction
<1>. QED BY <1>3, <1>4, <1>7, <1>10 DEF B, V

-----------------------------------------------------------------------------
(* Items whose label and body stand where they are looked for.             *)

LEMMA TameAre ==
  ASSUME Heights = Nat, NEW how
  PROVE  /\ Tame(how) \subseteq Nodes
         /\ \A n \in Nodes : n \in Tame(how) <=> /\ n.s = "LI" => Fits(how, n.k)
                                                 /\ ElemKids(n) \subseteq Tame(how)
<1>1. PICK w : /\ w \in [Nodes -> SUBSET Nodes]
               /\ \A n \in Nodes : w[n] = {n} \cup UNION {w[y] : y \in ElemKids(n)}
               /\ \A n \in Nodes : Below(n) = w[n]
  BY BelowIs
<1>2. Tame(how) = {n \in Nodes : \A x \in w[n] : x.s = "LI" => Fits(how, x.k)}
  BY <1>1 DEF Tame
<1>3. ASSUME NEW n \in Nodes
      PROVE  n \in Tame(how) <=> /\ n.s = "LI" => Fits(how, n.k)
                                 /\ ElemKids(n) \subseteq Tame(how)
  <2>1. w[n] = {n} \cup UNION {w[y] : y \in ElemKids(n)} /\ ElemKids(n) \subseteq Nodes
    BY <1>1, ElemKidsAre
  <2>2. (\A x \in w[n] : x.s = "LI" => Fits(how, x.k))
          <=> /\ n.s = "LI" => Fits(how, n.k)
              /\ \A y \in ElemKids(n) : \A x \in w[y] : x.s = "LI" => Fits(how, x.k)
    BY <2>1
  <2>. QED BY <1>2, <2>1, <2>2
<1>. QED BY <1>2, <1>3

LEMMA FirstOfType ==
  ASSUME NEW k \in Seq(Trees), NEW s
  PROVE  /\ FirstOf(k, s) \in 0..Len(k)
         /\ FirstOf(k, s) # 0 => Type(k[FirstOf(k, s)]) = s
         /\ \A j \in DOMAIN k : Type(k[j]) = s => FirstOf(k, s) # 0 /\ FirstOf(k, s) <= j
<1>. DEFINE m == Len(k)
            I == {i \in 1..m : Type(k[i]) = s}
<1>1. FirstOf(k, s) = IF I # {} THEN Min(I) ELSE 0 BY DEF FirstOf, SelectInSeq
<1>2. m \in Nat /\ DOMAIN k = 1..m OBVIOUS
<1>3. I \in SUBSET (1..m) /\ \A i \in 1..m : i \in I <=> Type(k[i]) = s OBVIOUS
<1>. HIDE DEF I, m
<1>4. \/ I = {} /\ FirstOf(k, s) = 0
      \/ FirstOf(k, s) \in I /\ \A j \in I : FirstOf(k, s) <= j
  BY <1>1, <1>2, <1>3, FirstOfSome
<1>. DEFINE i == FirstOf(k, s)
<1>. HIDE DEF i
<1>6. \A j \in I : j \in 1..m /\ j \in 0..m BY <1>2, <1>3
<1>5. /\ i \in 0..m
      /\ i # 0 => i \in I
      /\ \A j \in I : i \in I /\ i <= j
  <2>1. (I = {} /\ i = 0) \/ (i \in I /\ \A j \in I : i <= j) BY <1>4 DEF i
  <2>. QED BY <1>2, <1>6, <2>1
<1>7. i \in I => i # 0 BY <1>3
<1>. QED BY <1>2, <1>3, <1>5, <1>7 DEF m, i

\* An item is orderly if its label and its body do not come late.
LEMMA OrderlyIsNotLate ==
  ASSUME NEW n \in Nodes
  PROVE  Orderly(n.k) <=> ~LatePart(n)
<1>. DEFINE k == n.k
            m == Len(k)
            lbl == FirstOf(k, "Lbl")
            body == FirstOf(k, "LBody")
<1>1. k \in Seq(Trees) /\ m \in Nat /\ DOMAIN k = 1..m BY TreeKinds
<1>2. LatePart(n) <=> lbl > 1 \/ body > 1 + (IF lbl = 0 THEN 0 ELSE 1)
  BY DEF LatePart, FirstOf
<1>3. Orderly(n.k) <=> Orderly(k) OBVIOUS
<1>. HIDE DEF k
<1>4. /\ lbl \in 0..m
      /\ lbl # 0 => Type(k[lbl]) = "Lbl"
      /\ \A j \in 1..m : Type(k[j]) = "Lbl" => lbl # 0 /\ lbl <= j
  BY <1>1, FirstOfType
<1>5. /\ body \in 0..m
      /\ body # 0 => Type(k[body]) = "LBody"
      /\ \A j \in 1..m : Type(k[j]) = "LBody" => body # 0 /\ body <= j
  BY <1>1, FirstOfType
<1>. HIDE DEF lbl, body, m
<1>6. ASSUME Orderly(k) PROVE lbl <= 1 /\ body <= 1 + (IF lbl = 0 THEN 0 ELSE 1)
  <2>1. lbl <= 1
    <3>1. CASE lbl = 0 BY <3>1
    <3>2. CASE lbl # 0
      <4>1. lbl \in DOMAIN k /\ 1 \in 1..m BY <1>1, <1>4, <3>2
      <4>2. Type(k[1]) = "Lbl" BY <1>4, <1>6, <3>2, <4>1 DEF Orderly
      <4>. QED BY <1>4, <4>1, <4>2
    <3>. QED BY <3>1, <3>2
  <2>2. body <= 1 + (IF lbl = 0 THEN 0 ELSE 1)
    <3>1. CASE body = 0 BY <1>4, <3>1
    <3>2. CASE body # 0
      <4>1. body \in DOMAIN k /\ 1 \in 1..m BY <1>1, <1>5, <3>2
      <4>2. Type(k[1]) = "LBody" \/ (Type(k[1]) = "Lbl" /\ Type(k[2]) = "LBody")
        BY <1>5, <1>6, <3>2, <4>1 DEF Orderly
      <4>3. CASE Type(k[1]) = "LBody"
        <5>1. body <= 1 BY <1>5, <4>1, <4>3
        <5>. QED BY <1>1, <1>5, <5>1
      <4>4. CASE Type(k[1]) = "Lbl" /\ Type(k[2]) = "LBody"
        <5>1. lbl # 0 BY <1>4, <4>1, <4>4
        <5>2. body = 1 \/ 2 \in 1..m BY <1>1, <1>5, <3>2
        <5>3. body <= 2 BY <1>1, <1>5, <4>4, <5>2
        <5>. QED BY <5>1, <5>3
      <4>. QED BY <4>2, <4>3, <4>4
    <3>. QED BY <3>1, <3>2
  <2>. QED BY <2>1, <2>2
<1>7. ASSUME lbl <= 1, body <= 1 + (IF lbl = 0 THEN 0 ELSE 1) PROVE Orderly(k)
  <2>1. ASSUME NEW i \in 1..m, Type(k[i]) = "Lbl" PROVE Type(k[1]) = "Lbl"
    <3>1. lbl = 1 BY <1>1, <1>4, <1>7, <2>1
    <3>. QED BY <1>4, <3>1
  <2>2. ASSUME NEW i \in 1..m, Type(k[i]) = "LBody"
        PROVE  Type(k[1]) = "LBody" \/ (Type(k[1]) = "Lbl" /\ Type(k[2]) = "LBody")
    <3>1. body # 0 /\ Type(k[body]) = "LBody" BY <1>5, <2>2
    <3>2. CASE lbl = 0
      <4>1. body = 1 BY <1>1, <1>5, <1>7, <3>1, <3>2
      <4>. QED BY <3>1, <4>1
    <3>3. CASE lbl # 0
      <4>1. lbl = 1 /\ Type(k[1]) = "Lbl" BY <1>1, <1>4, <1>7, <3>3
      <4>2. body = 1 \/ body = 2 BY <1>1, <1>5, <1>7, <3>1, <3>3
      <4>. QED BY <3>1, <4>1, <4>2
    <3>. QED BY <3>2, <3>3
  <2>. QED BY <1>1, <2>1, <2>2 DEF Orderly
<1>8. (lbl > 1 \/ body > 1 + (IF lbl = 0 THEN 0 ELSE 1))
        <=> ~(lbl <= 1 /\ body <= 1 + (IF lbl = 0 THEN 0 ELSE 1))
  BY <1>1, <1>4, <1>5
<1>. QED BY <1>2, <1>3, <1>6, <1>7, <1>8

\* Where no item comes late, all are orderly.
LEMMA NothingLate ==
  ASSUME Heights = Nat, NEW n \in Nodes, n.s # "LI", ~Somewhere(n, "late")
  PROVE  n \in Tame("orderly")
<1>1. PICK w : /\ w \in [Nodes -> SUBSET Nodes]
               /\ \A x \in Nodes : w[x] = {x} \cup UNION {w[y] : y \in ElemKids(x)}
               /\ \A x \in Nodes : Below(x) = w[x]
  BY BelowIs
<1>2. \A p \in w[n] : \A x \in ElemKids(p) : x.s = "LI" => ~LatePart(x)
  <2>1. \A p \in Below(n) : \A x \in ElemKids(p) : ~(x.s = "LI" /\ LatePart(x))
    BY <1>1 DEF Somewhere
  <2>. QED BY <1>1, <2>1
<1>. DEFINE S == {m \in Nodes : w[m] \subseteq w[n] /\ (m.s = "LI" => ~LatePart(m)) => m \in Tame("orderly")}
<1>3. ASSUME NEW m \in Nodes, \A y \in ElemKids(Same[m]) : y \in S PROVE m \in S
  <2>1. SUFFICES ASSUME w[m] \subseteq w[n], m.s = "LI" => ~LatePart(m)
                 PROVE  m \in Tame("orderly")
    OBVIOUS
  <2>2. w[m] = {m} \cup UNION {w[y] : y \in ElemKids(m)} /\ ElemKids(m) \subseteq Nodes
    BY <1>1, ElemKidsAre
  <2>3. ElemKids(m) \subseteq Tame("orderly")
    <3>1. SUFFICES ASSUME NEW y \in ElemKids(m) PROVE y \in Tame("orderly")
      OBVIOUS
    <3>2. y \in S BY <1>3, SameGrounded
    <3>3. w[y] \subseteq w[n] /\ m \in w[n] BY <2>1, <2>2
    <3>4. y.s = "LI" => ~LatePart(y) BY <1>2, <3>3
    <3>. QED BY <3>2, <3>3, <3>4
  <2>4. m.s = "LI" => Fits("orderly", m.k) BY <2>1, OrderlyIsNotLate DEF Fits
  <2>. QED BY <2>3, <2>4, TameAre
<1>4. Nodes \subseteq S
  <2>. HIDE DEF S
  <2>. QED BY <1>3, SameGrounded, GroundedInduction
<1>. QED BY <1>4

-----------------------------------------------------------------------------
(* Headers and spans: elements that differ in neither content nor shape.   *)

LEMMA LikeSameKids ==
  ASSUME Heights = Nat, NEW R, IsReading(R), NEW n \in Nodes, NEW m \in Nodes, m.k = n.k,
         m.s = "LI" => n.s = "LI"
  PROVE  Like(R, m, n)
<1>1. R[m] = R[n] BY SaidType
<1>2. ElemKids(m) = ElemKids(n) BY DEF ElemKids
<1>3. ASSUME NEW d \in Nat, n \in Low(d) PROVE m \in Low(d)
  <2>1. \A i \in DOMAIN n.k : IsElem(n.k[i]) => d # 0 /\ n.k[i] \in Low(d - 1)
    BY <1>3, ElemKidsAre, LowAre
  <2>2. \A i \in DOMAIN m.k : IsElem(m.k[i]) => d # 0 /\ m.k[i] \in Low(d - 1)
    BY <2>1
  <2>. QED BY <2>2, LowAre
<1>4. ASSUME NEW how, n \in Tame(how) PROVE m \in Tame(how)
  BY <1>2, <1>4, TameAre
<1>. QED BY <1>1, <1>3, <1>4 DEF Like

LEMMA LikeKids ==
  ASSUME Heights = Nat, NEW R, IsReading(R), NEW n \in Nodes, n.s # "LI",
         NEW k, k \in [DOMAIN n.k -> Trees],
         \A i \in DOMAIN n.k : \/ k[i] = n.k[i]
                               \/ IsElem(n.k[i]) /\ Like(R, k[i], n.k[i])
  PROVE  Like(R, [n EXCEPT !.k = k], n) /\ [n EXCEPT !.k = k].s = n.s
<1>. DEFINE m == [n EXCEPT !.k = k]
<1>1. m \in Nodes /\ m.k = k /\ m.s = n.s /\ DOMAIN k = DOMAIN n.k BY NewKids
<1>2. \A i \in DOMAIN n.k : Said(R, k[i]) = Said(R, n.k[i])
  <2>1. SUFFICES ASSUME NEW i \in DOMAIN n.k, IsElem(n.k[i]), Like(R, k[i], n.k[i])
                 PROVE  Said(R, k[i]) = Said(R, n.k[i])
    OBVIOUS
  <2>2. n.k[i] \in Nodes /\ k[i] \in Nodes /\ R[k[i]] = R[n.k[i]]
    BY <2>1, ElemKidsAre DEF Like
  <2>. QED BY <2>2, SaidType
<1>3. R[m] = R[n] BY <1>2, KidByKid
<1>. HIDE DEF m
<1>4. ASSUME NEW d \in Nat, n \in Low(d) PROVE m \in Low(d)
  <2>1. ASSUME NEW i \in DOMAIN n.k, IsElem(k[i]) PROVE d # 0 /\ k[i] \in Low(d - 1)
    <3>1. IsElem(n.k[i]) BY <2>1
    <3>2. n.k[i] \in ElemKids(n) BY <3>1, ElemKidsAre
    <3>3. d # 0 /\ n.k[i] \in Low(d - 1) BY <1>4, <3>2, LowAre
    <3>4. d - 1 \in Nat BY <3>3
    <3>. QED BY <3>3, <3>4 DEF Like
  <2>. QED BY <1>1, <2>1, LowAre
<1>5. ASSUME NEW how, n \in Tame(how) PROVE m \in Tame(how)
  <2>1. ASSUME NEW y \in ElemKids(m) PROVE y \in Tame(how)
    <3>1. PICK i \in DOMAIN n.k : k[i] = y BY <1>1, ElemKidsAre
    <3>2. IsElem(n.k[i]) /\ (k[i] = n.k[i] \/ Like(R, k[i], n.k[i]))
      <4>1. IsElem(y) BY DEF ElemKids
      <4>. QED BY <3>1, <4>1
    <3>3. n.k[i] \in Tame(how) BY <1>5, <3>2, ElemKidsAre, TameAre
    <3>. QED BY <3>1, <3>2, <3>3 DEF Like
  <2>. QED BY <1>1, <2>1, TameAre
<1>. QED BY <1>1, <1>3, <1>4, <1>5 DEF Like, m

-----------------------------------------------------------------------------
(* Headers.                                                                *)

LEMMA HeadedFromIs ==
  ASSUME Heights = Nat, NEW R, IsReading(R), NEW n \in Nodes, NEW row
  PROVE  /\ \A r : (\A y \in ElemKids(n) : r[y] \in Nodes) => HeadedFrom(n, row, r) \in Nodes
         /\ \A r, q : (\A y \in ElemKids(n) : r[y] = q[y])
                       => HeadedFrom(n, row, r) = HeadedFrom(n, row, q)
         /\ n.s \in Grids =>
              \A r : (\A y \in ElemKids(n) : y.s \in Grids => Like(R, r[y], y))
                        => /\ Like(R, HeadedFrom(n, row, r), n)
                           /\ HeadedFrom(n, row, r).s = n.s
<1>. DEFINE I == {j \in 1..Len(n.k) : Type(n.k[j]) \in {"TR"} \cup Sections /\ row[n.k[j]]}
            i == SelectInSeq(n.k, LAMBDA y : Type(y) \in {"TR"} \cup Sections /\ row[y])
            cells == [j \in DOMAIN n.k |->
                        IF Type(n.k[j]) = "TD" THEN [n.k[j] EXCEPT !.s = "TH"] ELSE n.k[j]]
            kids(r) == [n.k EXCEPT ![i] = r[n.k[i]]]
<1>1. \A j \in DOMAIN n.k : n.k[j] \in Trees /\ (IsElem(n.k[j]) => n.k[j] \in ElemKids(n) /\ n.k[j] \in Nodes)
  BY KidsAre, ElemKidsAre
<1>2. Len(n.k) \in Nat /\ DOMAIN n.k = 1..Len(n.k) BY TreeKinds
<1>3. i = 0 \/ (i \in DOMAIN n.k /\ Type(n.k[i]) \in {"TR"} \cup Sections)
  <2>1. i = IF I # {} THEN Min(I) ELSE 0 BY DEF SelectInSeq
  <2>2. I \in SUBSET (1..Len(n.k)) /\ \A j \in I : Type(n.k[j]) \in {"TR"} \cup Sections
    OBVIOUS
  <2>. HIDE DEF I, i
  <2>3. i = 0 \/ i \in I BY <1>2, <2>1, <2>2, FirstOfSome
  <2>. QED BY <1>2, <2>2, <2>3
<1>4. i # 0 => IsElem(n.k[i])
  <2>1. i # 0 => Type(n.k[i]) # "" BY <1>3 DEF Sections
  <2>. QED BY <2>1 DEF Type
<1>. HIDE DEF i
<1>5. \A r : HeadedFrom(n, row, r) = IF n.s = "TR" THEN [n EXCEPT !.k = cells]
                                     ELSE IF i = 0 THEN n ELSE [n EXCEPT !.k = kids(r)]
  BY DEF HeadedFrom, i
<1>6. ASSUME NEW j \in DOMAIN n.k
      PROVE  /\ cells[j] \in Trees
             /\ cells[j] = n.k[j] \/ (IsElem(n.k[j]) /\ Like(R, cells[j], n.k[j]))
  <2>1. CASE Type(n.k[j]) = "TD"
    <3>. DEFINE x == n.k[j]
                y == [x EXCEPT !.s = "TH"]
    <3>1. IsElem(x) BY <2>1 DEF Type
    <3>2. x \in Nodes BY <1>1, <3>1
    <3>3. cells[j] = y BY <2>1
    <3>. HIDE DEF x, cells
    <3>4. y \in Nodes /\ y.k = x.k /\ y.s = "TH"
      BY <3>2 DEF Nodes, Elements, Kinds
    <3>. HIDE DEF y
    <3>5. Like(R, y, x) /\ y \in Trees BY <3>2, <3>4, LikeSameKids, TreeKinds
    <3>. QED BY <3>1, <3>3, <3>5 DEF x
  <2>2. CASE Type(n.k[j]) # "TD" BY <1>1, <2>2
  <2>. QED BY <2>1, <2>2
<1>7. cells \in [DOMAIN n.k -> Trees] BY <1>6
<1>8. ASSUME NEW r, i # 0, r[n.k[i]] \in Nodes
      PROVE  /\ kids(r) \in [DOMAIN n.k -> Trees]
             /\ \A j \in DOMAIN n.k : kids(r)[j] = IF j = i THEN r[n.k[i]] ELSE n.k[j]
  <2>1. \A x \in Nodes : x \in Trees BY TreeKinds
  <2>2. n.k = [j \in DOMAIN n.k |-> n.k[j]]
    <3>. DEFINE k == n.k
    <3>1. k \in Seq(Trees) BY TreeKinds
    <3>. HIDE DEF k
    <3>2. k = [j \in DOMAIN k |-> k[j]] BY <3>1
    <3>. QED BY <3>2 DEF k
  <2>. QED BY <1>1, <1>8, <2>1, <2>2
<1>. HIDE DEF cells
<1>9. ASSUME NEW r, \A y \in ElemKids(n) : r[y] \in Nodes PROVE HeadedFrom(n, row, r) \in Nodes
  <2>1. [n EXCEPT !.k = cells] \in Nodes BY <1>7, NewKids
  <2>2. ASSUME i # 0 PROVE [n EXCEPT !.k = kids(r)] \in Nodes
    <3>. DEFINE k == kids(r)
    <3>1. k \in [DOMAIN n.k -> Trees] BY <1>1, <1>3, <1>4, <1>8, <1>9, <2>2
    <3>. HIDE DEF k
    <3>2. [n EXCEPT !.k = k] \in Nodes BY <3>1, NewKids
    <3>. QED BY <3>2 DEF k
  <2>. HIDE DEF kids
  <2>. QED BY <1>5, <2>1, <2>2
<1>10. ASSUME NEW r, NEW q, \A y \in ElemKids(n) : r[y] = q[y]
       PROVE  HeadedFrom(n, row, r) = HeadedFrom(n, row, q)
  BY <1>1, <1>3, <1>4, <1>5, <1>10
<1>11. ASSUME n.s \in Grids, NEW r, \A y \in ElemKids(n) : y.s \in Grids => Like(R, r[y], y)
       PROVE  Like(R, HeadedFrom(n, row, r), n) /\ HeadedFrom(n, row, r).s = n.s
  <2>0. n.s # "LI" BY <1>11 DEF Grids, Sections
  <2>1. Like(R, [n EXCEPT !.k = cells], n) /\ [n EXCEPT !.k = cells].s = n.s
    BY <1>6, <1>7, <2>0, LikeKids
  <2>2. ASSUME i # 0
        PROVE  Like(R, [n EXCEPT !.k = kids(r)], n) /\ [n EXCEPT !.k = kids(r)].s = n.s
    <3>. DEFINE k == kids(r)
    <3>1. n.k[i] \in ElemKids(n) /\ IsElem(n.k[i]) /\ n.k[i].s \in Grids
      BY <1>1, <1>3, <1>4, <2>2 DEF Grids, Type
    <3>2. Like(R, r[n.k[i]], n.k[i]) /\ r[n.k[i]] \in Nodes
      BY <1>11, <3>1 DEF Like
    <3>3. /\ k \in [DOMAIN n.k -> Trees]
          /\ \A j \in DOMAIN n.k : k[j] = IF j = i THEN r[n.k[i]] ELSE n.k[j]
      BY <1>8, <2>2, <3>2
    <3>. HIDE DEF k
    <3>4. Like(R, [n EXCEPT !.k = k], n) /\ [n EXCEPT !.k = k].s = n.s
      <4>1. \A j \in DOMAIN n.k : \/ k[j] = n.k[j]
                                  \/ IsElem(n.k[j]) /\ Like(R, k[j], n.k[j])
        BY <3>1, <3>2, <3>3
      <4>. QED BY <2>0, <3>3, <4>1, LikeKids
    <3>. QED BY <3>4 DEF k
  <2>3. Like(R, n, n) BY LikeSameKids
  <2>. HIDE DEF kids
  <2>. QED BY <1>5, <2>1, <2>2, <2>3
<1>. QED BY <1>9, <1>10, <1>11

\* What is made of the elements that lead to the first row of a table.
LEMMA HeadersAre ==
  ASSUME Heights = Nat, NEW m \in Nodes
  PROVE  \E row, w : /\ \A n \in Nodes : w[n] = HeadedFrom(n, row, w)
                     /\ FirstRowAsHeader(m) = w[m]
<1>. DEFINE row == CHOOSE g : g = [x \in Scope |->
                     x.s = "TR" \/ (x.s \in Sections /\ \E y \in ElemKids(x) : g[y])]
            B(n, r) == HeadedFrom(n, row, r)
            P(g) == g = [x \in Scope |->
                     LET i == SelectInSeq(x.k, LAMBDA y : Type(y) \in {"TR"} \cup Sections /\ row[y])
                     IN IF x.s = "TR"
                        THEN [x EXCEPT !.k = [j \in DOMAIN x.k |->
                                IF Type(x.k[j]) = "TD" THEN [x.k[j] EXCEPT !.s = "TH"] ELSE x.k[j]]]
                        ELSE IF i = 0 THEN x ELSE [x EXCEPT !.k[i] = g[x.k[i]]]]
            f == CHOOSE g : P(g)
            F == [p \in Nodes \X Partial(Nodes) |->
                    IF B(p[1], p[2]) \in Nodes THEN B(p[1], p[2]) ELSE p[1]]
<1>1. Scope = Nodes BY ScopeIsNodes
<1>2. FirstRowAsHeader(m) = f[m] BY DEF FirstRowAsHeader
<1>. HIDE DEF row
<1>3. ASSUME NEW n \in Nodes
      PROVE  /\ \A r : (\A y \in ElemKids(n) : r[y] \in Nodes) => B(n, r) \in Nodes
             /\ \A r, q : (\A y \in ElemKids(n) : r[y] = q[y]) => B(n, r) = B(n, q)
  <2>1. PICK R : IsReading(R) BY ReadingExists
  <2>. QED BY <2>1, HeadedFromIs
<1>. HIDE DEF B
<1>4. PICK w : w \in [Nodes -> Nodes] /\ Unfolding(w, Nodes, Same, F)
  <2>1. F \in [Nodes \X Partial(Nodes) -> Nodes] OBVIOUS
  <2>. HIDE DEF F
  <2>. QED BY <2>1, SameGrounded, GroundedRecursion
<1>5. ASSUME NEW n \in Nodes PROVE w[n] = B(n, w)
  <2>. DEFINE r == OnKids(w, n)
  <2>1. w[n] = F[<<n, r>>] BY <1>4, SameGrounded DEF Unfolding
  <2>2. \A y \in ElemKids(n) : r[y] = w[y] /\ w[y] \in Nodes
    BY <1>4, ElemKidsAre DEF OnKids
  <2>3. r \in [ElemKids(n) -> Nodes] BY <1>4, ElemKidsAre DEF OnKids
  <2>4. r \in Partial(Nodes) BY <2>3, ElemKidsAre DEF Partial
  <2>. HIDE DEF r
  <2>5. B(n, r) \in Nodes /\ B(n, r) = B(n, w) BY <1>3, <2>2
  <2>. QED BY <2>1, <2>4, <2>5
<1>6. P(w)
  <2>1. w = [x \in Nodes |-> B(x, w)] BY <1>4, <1>5
  <2>. QED BY <1>1, <2>1 DEF B, HeadedFrom
<1>7. P(f)
  <2>. HIDE DEF P
  <2>. QED BY <1>6
<1>. HIDE DEF f
<1>8. \A n \in Nodes : f[n] = B(n, f) BY <1>1, <1>7 DEF B, HeadedFrom
<1>9. /\ \A n \in Nodes : f[n] = HeadedFrom(n, row, f)
      /\ FirstRowAsHeader(m) = f[m]
  BY <1>2, <1>8 DEF B
<1>. QED BY <1>9

LEMMA FirstRowAsHeaderIs ==
  ASSUME Heights = Nat, NEW R, IsReading(R), NEW m \in Nodes, m.s \in Grids
  PROVE  Like(R, FirstRowAsHeader(m), m) /\ FirstRowAsHeader(m).s = m.s
<1>1. PICK row, f : /\ \A n \in Nodes : f[n] = HeadedFrom(n, row, f)
                    /\ FirstRowAsHeader(m) = f[m]
  BY HeadersAre
<1>. DEFINE S == {n \in Nodes : n.s \in Grids => Like(R, f[n], n) /\ f[n].s = n.s}
<1>2. ASSUME NEW n \in Nodes, \A y \in ElemKids(Same[n]) : y \in S PROVE n \in S
  <2>1. \A y \in ElemKids(n) : y.s \in Grids => Like(R, f[y], y)
    BY <1>2, SameGrounded
  <2>2. n.s \in Grids => Like(R, HeadedFrom(n, row, f), n) /\ HeadedFrom(n, row, f).s = n.s
    BY <2>1, HeadedFromIs
  <2>. QED BY <1>1, <2>2
<1>3. Nodes \subseteq S
  <2>. HIDE DEF S
  <2>. QED BY <1>2, SameGrounded, GroundedInduction
<1>. QED BY <1>1, <1>3

-----------------------------------------------------------------------------
(* Spans.                                                                  *)

LEMMA RowsAboveStep ==
  ASSUME NEW n \in Nodes, NEW a \in Nat, NEW of,
         \A y \in ElemKids(n) : Len(of[y]) \in Nat
  PROVE  /\ RowsAbove(n, a, of)[0] = a
         /\ \A i \in 1..Len(n.k) :
              RowsAbove(n, a, of)[i] = RowsAbove(n, a, of)[i - 1]
                                         + IF Type(n.k[i]) \in Grids THEN Len(of[n.k[i]]) ELSE 0
<1>. DEFINE m == Len(n.k)
            rows(i) == IF Type(n.k[i]) \in Grids THEN Len(of[n.k[i]]) ELSE 0
            P(g) == g = [i \in 0..m |-> IF i = 0 THEN a ELSE g[i - 1] + rows(i)]
            F == [p \in (1..m) \X Nat |-> p[2] + rows(p[1])]
<1>1. m \in Nat /\ DOMAIN n.k = 1..m BY TreeKinds
<1>2. \A i \in 1..m : rows(i) \in Nat
  <2>1. \A i \in 1..m : Type(n.k[i]) \in Grids => n.k[i] \in ElemKids(n)
    <3>1. \A i \in 1..m : Type(n.k[i]) # "" => IsElem(n.k[i]) BY DEF Type
    <3>. QED BY <1>1, <3>1, ElemKidsAre DEF Grids, Sections
  <2>. QED BY <2>1
<1>3. RowsAbove(n, a, of) = CHOOSE g : P(g) BY DEF RowsAbove
<1>. HIDE DEF m, rows
<1>4. StepsIn(Nat, m, F) BY <1>2 DEF StepsIn
<1>5. \A i \in 1..m, v \in Nat : F[<<i, v>>] = v + rows(i) OBVIOUS
<1>. HIDE DEF F
<1>6. PICK f : RunsFrom(Nat, m, F, a, f) BY <1>1, <1>4, Recursion
<1>7. /\ f \in [0..m -> Nat] /\ f[0] = a
      /\ \A i \in 1..m : f[i] = f[i - 1] + rows(i)
  <2>1. f \in [0..m -> Nat] /\ f[0] = a /\ \A i \in 1..m : f[i] = F[<<i, f[i - 1]>>]
    BY <1>6 DEF RunsFrom
  <2>2. \A i \in 1..m : i - 1 \in 0..m BY <1>1
  <2>. QED BY <1>5, <2>1, <2>2
<1>8. P(f)
  <2>1. \A i \in 0..m : f[i] = IF i = 0 THEN a ELSE f[i - 1] + rows(i)
    <3>1. \A i \in 0..m : i = 0 \/ i \in 1..m BY <1>1
    <3>. QED BY <1>7, <3>1
  <2>2. f = [i \in 0..m |-> f[i]] BY <1>7
  <2>. QED BY <2>1, <2>2
<1>9. P(RowsAbove(n, a, of))
  <2>. HIDE DEF P
  <2>. QED BY <1>3, <1>8
<1>. DEFINE g == RowsAbove(n, a, of)
<1>10. g[0] = a /\ \A i \in 1..m : g[i] = g[i - 1] + rows(i)
  <2>. HIDE DEF g
  <2>1. g = [i \in 0..m |-> IF i = 0 THEN a ELSE g[i - 1] + rows(i)]
    BY <1>9 DEF g
  <2>2. 0 \in 0..m /\ \A i \in 1..m : i \in 0..m /\ i # 0 BY <1>1
  <2>. QED BY <2>1, <2>2
<1>. QED BY <1>10 DEF g, m, rows

LEMMA RowsAboveAre ==
  ASSUME NEW n \in Nodes, NEW a \in Nat, NEW of,
         \A y \in ElemKids(n) : Len(of[y]) \in Nat
  PROVE  \A i \in 0..Len(n.k) : RowsAbove(n, a, of)[i] \in Nat
<1>. DEFINE m == Len(n.k)
            rows(i) == IF Type(n.k[i]) \in Grids THEN Len(of[n.k[i]]) ELSE 0
            g == RowsAbove(n, a, of)
            T == {i \in Nat : i <= m => g[i] \in Nat}
<1>1. m \in Nat /\ DOMAIN n.k = 1..m BY TreeKinds
<1>2. \A i \in 1..m : rows(i) \in Nat
  <2>1. \A i \in 1..m : Type(n.k[i]) \in Grids => n.k[i] \in ElemKids(n)
    <3>1. \A i \in 1..m : Type(n.k[i]) # "" => IsElem(n.k[i]) BY DEF Type
    <3>. QED BY <1>1, <3>1, ElemKidsAre DEF Grids, Sections
  <2>. QED BY <2>1
<1>3. g[0] = a /\ \A i \in 1..m : g[i] = g[i - 1] + rows(i) BY RowsAboveStep
<1>. HIDE DEF m, rows, g
<1>4. 0 \in T BY <1>3
<1>5. ASSUME NEW i \in Nat, i \in T PROVE i + 1 \in T
  <2>1. SUFFICES ASSUME i + 1 <= m PROVE g[i + 1] \in Nat OBVIOUS
  <2>2. i + 1 \in 1..m /\ (i + 1) - 1 = i /\ i <= m BY <1>1, <2>1
  <2>3. g[i + 1] = g[i] + rows(i + 1) /\ g[i] \in Nat /\ rows(i + 1) \in Nat
    BY <1>2, <1>3, <1>5, <2>2
  <2>. QED BY <2>3
<1>6. T = Nat
  <2>1. T \in SUBSET Nat OBVIOUS
  <2>. HIDE DEF T
  <2>. QED BY <1>4, <1>5, <2>1, FromZeroOn
<1>. QED BY <1>1, <1>6 DEF g, m

LEMMA SpansFromIs ==
  ASSUME Heights = Nat, NEW R, IsReading(R), NEW n \in Nodes, NEW a \in Nat, NEW of, NEW rows,
         \A y \in ElemKids(n) : Len(of[y]) \in Nat
  PROVE  /\ \A r : (\A y \in ElemKids(n) : \A b \in Nat : r[y][b] \in Nodes)
                     => SpansFrom(n, a, of, rows, r) \in Nodes
         /\ \A r, q : (\A y \in ElemKids(n) : \A b \in Nat : r[y][b] = q[y][b])
                       => SpansFrom(n, a, of, rows, r) = SpansFrom(n, a, of, rows, q)
         /\ n.s \in Grids =>
              \A r : (\A y \in ElemKids(n) : y.s \in Grids => \A b \in Nat : Like(R, r[y][b], y))
                        => /\ Like(R, SpansFrom(n, a, of, rows, r), n)
                           /\ SpansFrom(n, a, of, rows, r).s = n.s
<1>. DEFINE above == RowsAbove(n, a, of)
            v(i) == Span(rows[a + 1][Len(CellsAmong(SubSeq(n.k, 1, i)))].c)
            kid(r, i) == IF n.s = "TR"
                         THEN IF IsCell(n.k[i]) THEN [n.k[i] EXCEPT !.c = v(i)] ELSE n.k[i]
                         ELSE IF Type(n.k[i]) \in Grids THEN r[n.k[i]][above[i - 1]] ELSE n.k[i]
            kids(r) == [i \in DOMAIN n.k |-> kid(r, i)]
<1>1. \A j \in DOMAIN n.k : n.k[j] \in Trees /\ (IsElem(n.k[j]) => n.k[j] \in ElemKids(n) /\ n.k[j] \in Nodes)
  BY KidsAre, ElemKidsAre
<1>2. Len(n.k) \in Nat /\ DOMAIN n.k = 1..Len(n.k) BY TreeKinds
<1>3. \A i \in DOMAIN n.k : above[i - 1] \in Nat
  <2>1. \A i \in DOMAIN n.k : i - 1 \in 0..Len(n.k) BY <1>2
  <2>. QED BY <2>1, RowsAboveAre
<1>4. \A i \in DOMAIN n.k : /\ IsCell(n.k[i]) => IsElem(n.k[i]) /\ n.k[i].s # "LI"
                            /\ Type(n.k[i]) \in Grids => IsElem(n.k[i]) /\ n.k[i].s \in Grids
  <2>1. \A x : Type(x) # "" => IsElem(x) /\ Type(x) = x.s BY DEF Type
  <2>. QED BY <2>1 DEF IsCell, Cells, Grids, Sections
<1>5. \A i : v(i) \in Int
  <2>1. \A c : Span(c) \in Int BY SpanAssumption DEF Span
  <2>. QED BY <2>1
<1>6. \A r : SpansFrom(n, a, of, rows, r) = [n EXCEPT !.k = kids(r)]
  BY DEF SpansFrom
<1>. HIDE DEF above, v
<1>7. ASSUME NEW i \in DOMAIN n.k, IsCell(n.k[i])
      PROVE  /\ [n.k[i] EXCEPT !.c = v(i)] \in Trees
             /\ Like(R, [n.k[i] EXCEPT !.c = v(i)], n.k[i])
  <2>. DEFINE x == n.k[i]
              y == [x EXCEPT !.c = v(i)]
  <2>1. x \in Nodes BY <1>1, <1>4, <1>7
  <2>2. y \in Nodes /\ y.k = x.k /\ y.s = x.s
    <3>. HIDE DEF x
    <3>. QED BY <1>5, <2>1 DEF Nodes, Elements
  <2>. HIDE DEF x, y
  <2>3. Like(R, y, x) /\ y \in Trees BY <2>1, <2>2, LikeSameKids, TreeKinds
  <2>. QED BY <2>3 DEF x, y
<1>8. ASSUME NEW r, \A y \in ElemKids(n) : \A b \in Nat : r[y][b] \in Nodes
      PROVE  SpansFrom(n, a, of, rows, r) \in Nodes
  <2>. DEFINE k == kids(r)
  <2>1. ASSUME NEW i \in DOMAIN n.k PROVE kid(r, i) \in Trees
    <3>1. Type(n.k[i]) \in Grids => r[n.k[i]][above[i - 1]] \in Trees
      BY <1>1, <1>3, <1>4, <1>8, TreeKinds
    <3>. QED BY <1>1, <1>7, <3>1
  <2>2. k \in [DOMAIN n.k -> Trees]
    <3>. HIDE DEF kid
    <3>. QED BY <2>1
  <2>3. SpansFrom(n, a, of, rows, r) = [n EXCEPT !.k = k] BY <1>6
  <2>. HIDE DEF k
  <2>. QED BY <2>2, <2>3, NewKids
<1>9. ASSUME NEW r, NEW q, \A y \in ElemKids(n) : \A b \in Nat : r[y][b] = q[y][b]
      PROVE  SpansFrom(n, a, of, rows, r) = SpansFrom(n, a, of, rows, q)
  <2>1. ASSUME NEW i \in DOMAIN n.k PROVE kid(r, i) = kid(q, i)
    <3>1. Type(n.k[i]) \in Grids => r[n.k[i]][above[i - 1]] = q[n.k[i]][above[i - 1]]
      BY <1>1, <1>3, <1>4, <1>9
    <3>. QED BY <3>1
  <2>2. kids(r) = kids(q)
    <3>. HIDE DEF kid
    <3>. QED BY <2>1
  <2>. HIDE DEF kids
  <2>. QED BY <1>6, <2>2
<1>10. ASSUME n.s \in Grids, NEW r,
              \A y \in ElemKids(n) : y.s \in Grids => \A b \in Nat : Like(R, r[y][b], y)
       PROVE  /\ Like(R, SpansFrom(n, a, of, rows, r), n)
              /\ SpansFrom(n, a, of, rows, r).s = n.s
  <2>. DEFINE k == kids(r)
  <2>0. n.s # "LI" BY <1>10 DEF Grids, Sections
  <2>1. ASSUME NEW i \in DOMAIN n.k
        PROVE  /\ kid(r, i) \in Trees
               /\ \/ kid(r, i) = n.k[i]
                  \/ IsElem(n.k[i]) /\ Like(R, kid(r, i), n.k[i])
    <3>1. ASSUME Type(n.k[i]) \in Grids
          PROVE  /\ r[n.k[i]][above[i - 1]] \in Trees /\ IsElem(n.k[i])
                 /\ Like(R, r[n.k[i]][above[i - 1]], n.k[i])
      <4>1. Like(R, r[n.k[i]][above[i - 1]], n.k[i]) /\ IsElem(n.k[i])
        BY <1>1, <1>3, <1>4, <1>10, <3>1
      <4>2. r[n.k[i]][above[i - 1]] \in Nodes BY <4>1 DEF Like
      <4>. QED BY <4>1, <4>2, TreeKinds
    <3>. QED BY <1>1, <1>4, <1>7, <3>1
  <2>2. k \in [DOMAIN n.k -> Trees] /\ \A i \in DOMAIN n.k : k[i] = kid(r, i)
    <3>. HIDE DEF kid
    <3>. QED BY <2>1
  <2>3. SpansFrom(n, a, of, rows, r) = [n EXCEPT !.k = k] BY <1>6
  <2>. HIDE DEF k, kid
  <2>4. \A i \in DOMAIN n.k : k[i] = n.k[i] \/ (IsElem(n.k[i]) /\ Like(R, k[i], n.k[i]))
    BY <2>1, <2>2
  <2>. QED BY <2>0, <2>2, <2>3, <2>4, LikeKids
<1>. QED BY <1>8, <1>9, <1>10

\* Every element has a number of rows.
LEMMA RowsAreMany ==
  ASSUME Heights = Nat, NEW m
  PROVE  \A n \in Nodes : \A y \in ElemKids(n) : Len(RowsOf(m)[y]) \in Nat
<1>. DEFINE of == RowsOf(m)
<1>1. PICK W : W \in [Nodes -> Seq(Seq(Trees))] /\ \A n \in Nodes : \A l : RowsOf(l)[n] = W[n]
  BY RowsOfIs
<1>2. \A n \in Nodes : of[n] \in Seq(Seq(Trees)) BY <1>1
<1>3. \A s \in Seq(Seq(Trees)) : Len(s) \in Nat OBVIOUS
<1>. QED BY <1>2, <1>3, ElemKidsAre

\* What is made of the elements of a table from a row of it on.
LEMMA SpannedAre ==
  ASSUME Heights = Nat, NEW m \in Nodes, NEW rows
  PROVE  \E w : /\ \A n \in Nodes, a \in Nat : w[n][a] = SpansFrom(n, a, RowsOf(m), rows, w)
                /\ WithSpans(m, rows) = w[m][0]
<1>0. PICK R : IsReading(R) BY ReadingExists
<1>. DEFINE of == RowsOf(m)
            V == [Nat -> Nodes]
            B(n, r) == [a \in Nat |-> SpansFrom(n, a, of, rows, r)]
            P(g) == g = [p \in Scope \X Nat |->
                     LET x == p[1]
                         below[i \in 0..Len(x.k)] ==
                           IF i = 0 THEN p[2]
                           ELSE below[i - 1] + IF Type(x.k[i]) \in Grids THEN Len(of[x.k[i]]) ELSE 0
                         cell(i) == rows[p[2] + 1][Len(CellsAmong(SubSeq(x.k, 1, i)))]
                         new(i) ==
                           IF x.s = "TR" THEN IF IsCell(x.k[i]) THEN [x.k[i] EXCEPT !.c = Span(cell(i).c)]
                                              ELSE x.k[i]
                           ELSE IF Type(x.k[i]) \in Grids THEN g[<<x.k[i], below[i - 1]>>] ELSE x.k[i]
                     IN [x EXCEPT !.k = [i \in DOMAIN x.k |-> new(i)]]]
            f == CHOOSE g : P(g)
            none == [a \in Nat |-> m]
            F == [p \in Nodes \X Partial(V) |->
                    IF B(p[1], p[2]) \in V THEN B(p[1], p[2]) ELSE none]
            Curry(g) == [y \in Nodes |-> [b \in Nat |-> g[<<y, b>>]]]
<1>1. Scope = Nodes BY ScopeIsNodes
<1>2. WithSpans(m, rows) = f[<<m, 0>>] BY DEF WithSpans
<1>3. \A n \in Nodes : \A y \in ElemKids(n) : Len(of[y]) \in Nat BY RowsAreMany
<1>. HIDE DEF of
\* The body of the recursion.
<1>4. ASSUME NEW g
      PROVE  P(g) <=> g = [p \in Nodes \X Nat |-> SpansFrom(p[1], p[2], of, rows, Curry(g))]
  <2>. DEFINE body(x, a) == [x EXCEPT !.k = [i \in DOMAIN x.k |->
                 IF x.s = "TR"
                 THEN IF IsCell(x.k[i])
                      THEN [x.k[i] EXCEPT !.c = Span(rows[a + 1][Len(CellsAmong(SubSeq(x.k, 1, i)))].c)]
                      ELSE x.k[i]
                 ELSE IF Type(x.k[i]) \in Grids THEN g[<<x.k[i], RowsAbove(x, a, of)[i - 1]>>] ELSE x.k[i]]]
  <2>1. P(g) <=> g = [p \in Nodes \X Nat |-> body(p[1], p[2])]
    BY <1>1 DEF RowsAbove
  <2>2. ASSUME NEW n \in Nodes, NEW a \in Nat
        PROVE  body(n, a) = SpansFrom(n, a, of, rows, Curry(g))
    <3>1. ASSUME NEW i \in DOMAIN n.k, Type(n.k[i]) \in Grids
          PROVE  g[<<n.k[i], RowsAbove(n, a, of)[i - 1]>>] = Curry(g)[n.k[i]][RowsAbove(n, a, of)[i - 1]]
      <4>1. n.k[i] \in Nodes
        <5>1. Type(n.k[i]) # "" BY <3>1 DEF Grids, Sections
        <5>2. IsElem(n.k[i]) BY <5>1 DEF Type
        <5>. QED BY <5>2, ElemKidsAre
      <4>2. RowsAbove(n, a, of)[i - 1] \in Nat
        <5>0. DOMAIN n.k = 1..Len(n.k) /\ Len(n.k) \in Nat BY TreeKinds
        <5>1. i - 1 \in 0..Len(n.k) BY <5>0
        <5>. QED BY <1>3, <5>1, RowsAboveAre
      <4>. QED BY <4>1, <4>2
    <3>. HIDE DEF Curry
    <3>. QED BY <3>1 DEF SpansFrom
  <2>. HIDE DEF body, Curry, P
  <2>. QED BY <2>1, <2>2
<1>5. ASSUME NEW n \in Nodes
      PROVE  /\ \A r : (\A y \in ElemKids(n) : r[y] \in V) => B(n, r) \in V
             /\ \A r, q : (\A y \in ElemKids(n) : \A b \in Nat : r[y][b] = q[y][b]) => B(n, r) = B(n, q)
  <2>1. ASSUME NEW r, \A y \in ElemKids(n) : r[y] \in V PROVE B(n, r) \in V
    <3>1. \A y \in ElemKids(n) : \A b \in Nat : r[y][b] \in Nodes BY <2>1
    <3>2. \A a \in Nat : SpansFrom(n, a, of, rows, r) \in Nodes
      BY <1>0, <1>3, <3>1, SpansFromIs
    <3>. QED BY <3>2
  <2>2. ASSUME NEW r, NEW q, \A y \in ElemKids(n) : \A b \in Nat : r[y][b] = q[y][b]
        PROVE  B(n, r) = B(n, q)
    <3>1. \A a \in Nat : SpansFrom(n, a, of, rows, r) = SpansFrom(n, a, of, rows, q)
      BY <1>0, <1>3, <2>2, SpansFromIs
    <3>. QED BY <3>1
  <2>. QED BY <2>1, <2>2
<1>6. none \in V OBVIOUS
<1>. HIDE DEF B, V, P, none
<1>7. PICK w : w \in [Nodes -> V] /\ Unfolding(w, Nodes, Same, F)
  <2>1. F \in [Nodes \X Partial(V) -> V] BY <1>6
  <2>. HIDE DEF F
  <2>. QED BY <2>1, SameGrounded, GroundedRecursion
<1>8. ASSUME NEW n \in Nodes PROVE w[n] = B(n, w)
  <2>. DEFINE r == OnKids(w, n)
  <2>1. w[n] = F[<<n, r>>] BY <1>7, SameGrounded DEF Unfolding
  <2>2. \A y \in ElemKids(n) : r[y] = w[y] /\ w[y] \in V
    BY <1>7, ElemKidsAre DEF OnKids
  <2>3. r \in [ElemKids(n) -> V] BY <1>7, ElemKidsAre DEF OnKids
  <2>4. r \in Partial(V) BY <2>3, ElemKidsAre DEF Partial
  <2>. HIDE DEF r
  <2>5. B(n, r) \in V /\ B(n, r) = B(n, w) BY <1>5, <2>2
  <2>. QED BY <2>1, <2>4, <2>5
<1>. DEFINE h == [p \in Nodes \X Nat |-> w[p[1]][p[2]]]
<1>9. P(h)
  <2>1. \A n \in Nodes, a \in Nat : h[<<n, a>>] = w[n][a] /\ <<n, a>>[1] = n /\ <<n, a>>[2] = a
    OBVIOUS
  <2>2. \A n \in Nodes, b \in Nat : Curry(h)[n][b] = w[n][b] BY <2>1
  <2>3. \A n \in Nodes : B(n, Curry(h)) = B(n, w)
    <3>. HIDE DEF Curry, h
    <3>. QED BY <1>5, <2>2, ElemKidsAre
  <2>4. \A n \in Nodes, a \in Nat : h[<<n, a>>] = SpansFrom(n, a, of, rows, Curry(h))
    <3>. HIDE DEF Curry, h
    <3>1. \A n \in Nodes : w[n] = B(n, Curry(h)) BY <1>8, <2>3
    <3>2. \A n : \A a \in Nat : B(n, Curry(h))[a] = SpansFrom(n, a, of, rows, Curry(h))
      BY DEF B
    <3>3. ASSUME NEW n \in Nodes, NEW a \in Nat
          PROVE  h[<<n, a>>] = SpansFrom(n, a, of, rows, Curry(h))
      <4>1. h[<<n, a>>] = w[n][a] BY <2>1
      <4>2. w[n] = B(n, Curry(h)) BY <3>1
      <4>3. B(n, Curry(h))[a] = SpansFrom(n, a, of, rows, Curry(h)) BY <3>2
      <4>. QED BY <4>1, <4>2, <4>3
    <3>. QED BY <3>3
  <2>5. h = [p \in Nodes \X Nat |-> h[p]] OBVIOUS
  <2>6. \A p \in Nodes \X Nat : h[p] = SpansFrom(p[1], p[2], of, rows, Curry(h))
    <3>. HIDE DEF Curry, h
    <3>. QED BY <2>4
  <2>7. h = [p \in Nodes \X Nat |-> SpansFrom(p[1], p[2], of, rows, Curry(h))]
    <3>. HIDE DEF Curry, h
    <3>. QED BY <2>5, <2>6
  <2>. HIDE DEF Curry, h
  <2>. QED BY <1>4, <2>7
<1>. HIDE DEF h
<1>10. P(f) BY <1>9
<1>. HIDE DEF f
<1>11. \A n \in Nodes, a \in Nat : f[<<n, a>>] = SpansFrom(n, a, of, rows, Curry(f))
  <2>1. f = [p \in Nodes \X Nat |-> SpansFrom(p[1], p[2], of, rows, Curry(f))]
    BY <1>4, <1>10
  <2>2. \A n \in Nodes, a \in Nat : <<n, a>> \in Nodes \X Nat /\ <<n, a>>[1] = n /\ <<n, a>>[2] = a
    OBVIOUS
  <2>. HIDE DEF Curry
  <2>. QED BY <2>1, <2>2
<1>. DEFINE c == Curry(f)
<1>12. \A n \in Nodes, a \in Nat : c[n][a] = f[<<n, a>>] OBVIOUS
<1>. HIDE DEF c
<1>13. \A n \in Nodes, a \in Nat : c[n][a] = SpansFrom(n, a, RowsOf(m), rows, c)
  <2>1. ASSUME NEW n \in Nodes, NEW a \in Nat PROVE c[n][a] = SpansFrom(n, a, of, rows, c)
    <3>1. f[<<n, a>>] = SpansFrom(n, a, of, rows, Curry(f)) BY <1>11
    <3>. QED BY <1>12, <3>1, Zenon DEF c
  <2>. QED BY <2>1 DEF of
<1>14. WithSpans(m, rows) = c[m][0] BY <1>2, <1>12
<1>. QED BY <1>13, <1>14

LEMMA WithSpansIs ==
  ASSUME Heights = Nat, NEW R, IsReading(R), NEW m \in Nodes, m.s \in Grids, NEW rows
  PROVE  Like(R, WithSpans(m, rows), m) /\ WithSpans(m, rows).s = m.s
<1>. DEFINE of == RowsOf(m)
<1>1. PICK w : /\ \A n \in Nodes, a \in Nat : w[n][a] = SpansFrom(n, a, of, rows, w)
               /\ WithSpans(m, rows) = w[m][0]
  BY SpannedAre
<1>2. \A n \in Nodes : \A y \in ElemKids(n) : Len(of[y]) \in Nat BY RowsAreMany
<1>. HIDE DEF of
<1>. DEFINE S == {n \in Nodes : n.s \in Grids => \A a \in Nat : Like(R, w[n][a], n) /\ w[n][a].s = n.s}
<1>3. ASSUME NEW n \in Nodes, \A y \in ElemKids(Same[n]) : y \in S PROVE n \in S
  <2>1. SUFFICES ASSUME n.s \in Grids, NEW a \in Nat PROVE Like(R, w[n][a], n) /\ w[n][a].s = n.s
    OBVIOUS
  <2>2. \A y \in ElemKids(n) : y.s \in Grids => \A b \in Nat : Like(R, w[y][b], y)
    BY <1>3, SameGrounded
  <2>3. Like(R, SpansFrom(n, a, of, rows, w), n) /\ SpansFrom(n, a, of, rows, w).s = n.s
    BY <1>2, <2>1, <2>2, SpansFromIs
  <2>. QED BY <1>1, <2>3
<1>4. Nodes \subseteq S
  <2>. HIDE DEF S
  <2>. QED BY <1>3, SameGrounded, GroundedInduction
<1>. QED BY <1>1, <1>4

-----------------------------------------------------------------------------
(* What the passes do at one element, when its kids are trees of a kind.   *)

\* The elements made of such kids.
LEMMA NewAmong ==
  ASSUME NEW K \in SUBSET Trees
  PROVE  /\ \A k \in Seq(K) :
              /\ k \in Seq(Trees)
              /\ \A n \in Nodes : /\ Becomes(K, SetKids(n, k), n) /\ SetKids(n, k).k = k
                                  /\ Becomes(K, [n EXCEPT !.k = k], n)
              /\ \A s \in Kinds : Elem(s, k) \in Nodes /\ Elem(s, k).s = s /\ Elem(s, k).k = k
         /\ \A x \in K : \A s \in Kinds :
              Only(s, x) \in Nodes /\ Only(s, x).s = s /\ Only(s, x).k = <<x>> /\ <<x>> \in Seq(K)
<1>1. Seq(K) \subseteq Seq(Trees) BY SeqMonotonic
<1>2. ASSUME NEW k \in Seq(Trees), NEW n \in Nodes
      PROVE  /\ SetKids(n, k) \in Nodes /\ SetKids(n, k).k = k /\ SetKids(n, k).s = n.s
             /\ [n EXCEPT !.k = k] \in Nodes /\ [n EXCEPT !.k = k].k = k
             /\ [n EXCEPT !.k = k].s = n.s
  BY ReadingExists, NewElements
<1>3. ASSUME NEW k \in Seq(Trees), NEW s \in Kinds
      PROVE  Elem(s, k) \in Nodes /\ Elem(s, k).s = s /\ Elem(s, k).k = k
  BY ReadingExists, NewElements
<1>4. ASSUME NEW x \in K, NEW s \in Kinds
      PROVE  Only(s, x) \in Nodes /\ Only(s, x).s = s /\ Only(s, x).k = <<x>> /\ <<x>> \in Seq(K)
  <2>. DEFINE one == <<x>>
              o == Elem(s, <<>>)
  <2>1. one \in Seq(K) OBVIOUS
  <2>2. one \in Seq(Trees) BY <1>1, <2>1
  <2>3. o \in Nodes /\ o.s = s
    <3>. DEFINE none == <<>>
    <3>1. none \in Seq(Trees) OBVIOUS
    <3>. HIDE DEF none
    <3>2. Elem(s, none) \in Nodes /\ Elem(s, none).s = s BY <1>3, <3>1
    <3>. QED BY <3>2 DEF none
  <2>4. Only(s, x) = SetKids(o, one) BY DEF Only
  <2>. HIDE DEF one, o
  <2>5. Only(s, x) \in Nodes /\ Only(s, x).s = s /\ Only(s, x).k = one
    <3>1. SetKids(o, one) \in Nodes /\ SetKids(o, one).k = one /\ SetKids(o, one).s = o.s
      BY <1>2, <2>2, <2>3, ZenonT(30)
    <3>. QED BY <2>3, <2>4, <3>1
  <2>. QED BY <2>1, <2>5 DEF one
<1>. QED BY <1>1, <1>2, <1>3, <1>4 DEF Becomes

LEMMA SetAmong ==
  ASSUME NEW K \in SUBSET Trees, NEW k \in Seq(K), NEW n \in Nodes
  PROVE  Becomes(K, SetKids(n, k), n) /\ SetKids(n, k).k = k
BY NewAmong

LEMMA MadeAmong ==
  ASSUME NEW K \in SUBSET Trees, NEW s \in Kinds, Makes(K, s), NEW x \in K
  PROVE  Only(s, x) \in K
<1>. DEFINE o == Only(s, x)
<1>1. o \in Nodes /\ o.s = s /\ o.k = <<x>> /\ <<x>> \in Seq(K) BY NewAmong
<1>. HIDE DEF o
<1>2. o \in K BY <1>1 DEF Makes
<1>. QED BY <1>2 DEF o

LEMMA SeqAmong ==
  ASSUME NEW K
  PROVE  /\ \A k : k \in Seq(K) <=> k \in Seq(Trees \cup K) /\ \A i \in DOMAIN k : k[i] \in K
         /\ \A k \in Seq(K), x \in K : Append(k, x) \in Seq(K)
         /\ \A k \in Seq(K), j \in Seq(K) : k \o j \in Seq(K)
         /\ \A k \in Seq(K) : \A i \in Int, j \in Int :
              1 <= i /\ j <= Len(k) => SubSeq(k, i, j) \in Seq(K)
         /\ <<>> \in Seq(K)
  OBVIOUS

\* Cells of a row, entries of a table of contents, items of a list.
LEMMA KidsAmong ==
  ASSUME NEW K, Heritage(K), NEW n \in Nodes, n.k \in Seq(K)
  PROVE  /\ Makes(K, "TD") => Becomes(K, RowKids(n), n)
         /\ Makes(K, "TOCI") => Becomes(K, ContentsKids(n), n)
         /\ (\A x \in K : Only("LI", Only("LBody", x)) \in K) => Becomes(K, ListKids(n), n)
<1>1. K \subseteq Trees /\ {"TD", "TOCI", "LI", "LBody"} \subseteq Kinds
  BY DEF Heritage, Kinds
<1>2. \A x \in K : \A s \in {"TD", "TOCI"} : Makes(K, s) => Only(s, x) \in K
  BY <1>1, MadeAmong
<1>. DEFINE l == Len(n.k)
<1>3. DOMAIN n.k = 1..l /\ l \in Nat /\ \A i \in 1..l : n.k[i] \in K
  <2>. DEFINE k == n.k
  <2>1. k \in Seq(K) OBVIOUS
  <2>. HIDE DEF k
  <2>2. DOMAIN k = 1..Len(k) /\ Len(k) \in Nat /\ \A i \in 1..Len(k) : k[i] \in K
    BY <2>1
  <2>. QED BY <2>2 DEF k
<1>. HIDE DEF l
<1>4. ASSUME NEW k \in [DOMAIN n.k -> K] PROVE Becomes(K, SetKids(n, k), n)
  <2>1. k \in Seq(K) BY <1>3, SeqOfFunction
  <2>. QED BY <1>1, <2>1, NewAmong
<1>5. Becomes(K, n, n) BY DEF Becomes
<1>6. ASSUME Makes(K, "TD") PROVE Becomes(K, RowKids(n), n)
  <2>. DEFINE k == [i \in DOMAIN n.k |-> IF IsCell(n.k[i]) THEN n.k[i] ELSE Only("TD", n.k[i])]
  <2>1. k \in [DOMAIN n.k -> K] BY <1>2, <1>3, <1>6
  <2>2. RowKids(n) = n \/ RowKids(n) = SetKids(n, k) BY DEF RowKids
  <2>. HIDE DEF k
  <2>. QED BY <1>4, <1>5, <2>1, <2>2
<1>7. ASSUME Makes(K, "TOCI") PROVE Becomes(K, ContentsKids(n), n)
  <2>. DEFINE k == [i \in DOMAIN n.k |->
                     IF Type(n.k[i]) \in Contents THEN n.k[i] ELSE Only("TOCI", n.k[i])]
  <2>1. k \in [DOMAIN n.k -> K] BY <1>2, <1>3, <1>7
  <2>2. ContentsKids(n) = n \/ ContentsKids(n) = SetKids(n, k)
    BY DEF ContentsKids
  <2>. HIDE DEF k
  <2>. QED BY <1>4, <1>5, <2>1, <2>2
<1>8. ASSUME \A x \in K : Only("LI", Only("LBody", x)) \in K PROVE Becomes(K, ListKids(n), n)
  <2>. DEFINE k == [i \in DOMAIN n.k |-> Only("LI", Only("LBody", n.k[i]))]
  <2>1. k \in [DOMAIN n.k -> K] BY <1>3, <1>8
  <2>2. ListKids(n) = n \/ ListKids(n) = SetKids(n, k) BY DEF ListKids
  <2>. HIDE DEF k
  <2>. QED BY <1>4, <1>5, <2>1, <2>2
<1>. QED BY <1>6, <1>7, <1>8

\* What goes to the body of a table.
LEMMA WithRowAmong ==
  ASSUME NEW K, Heritage(K), Makes(K, "TD"), Makes(K, "TR"), Makes(K, "TBody"),
         NEW kids \in Seq(K), NEW x \in K
  PROVE  WithRow(kids, x) \in Seq(K)
<1>. DEFINE row == Only("TR", IF IsCell(x) THEN x ELSE Only("TD", x))
            tail == Last(kids)
            grown == SetKids(tail, Append(tail.k, row))
<1>1. K \subseteq Trees /\ {"TD", "TR", "TBody"} \subseteq Kinds
  BY DEF Heritage, Kinds
<1>2. \A y \in K : \A s \in {"TD", "TR", "TBody"} : Only(s, y) \in K
  BY <1>1, MadeAmong
<1>3. row \in K /\ Only("TBody", row) \in K BY <1>2
<1>. HIDE DEF row
<1>4. ASSUME kids # <<>>, Type(tail) = "TBody"
      PROVE  Append(Front(kids), grown) \in Seq(K)
  <2>. DEFINE l == Len(kids)
  <2>1. tail \in K /\ Front(kids) \in Seq(K) BY <1>4 DEF Last, Front
  <2>. HIDE DEF tail
  <2>2. tail \in Nodes /\ tail.s = "TBody" /\ tail.k \in Seq(K)
    <3>1. tail \in Nodes BY <1>1, <1>4, <2>1, TreeKinds
    <3>. QED BY <1>4, <2>1, <3>1, TreeKinds DEF Heritage
  <2>. DEFINE k == tail.k
              w == Append(k, row)
  <2>3. w \in Seq(K)
    <3>1. k \in Seq(K) BY <2>2
    <3>. HIDE DEF k
    <3>. QED BY <1>3, <3>1
  <2>. HIDE DEF w
  <2>4. Becomes(K, SetKids(tail, w), tail) BY <1>1, <2>2, <2>3, NewAmong
  <2>5. grown \in K BY <2>2, <2>4 DEF Makes, Becomes, w
  <2>. HIDE DEF grown
  <2>. QED BY <2>1, <2>5
<1>. HIDE DEF grown, tail
<1>5. \/ WithRow(kids, x) = Append(kids, x)
      \/ /\ kids # <<>> /\ Type(tail) = "TBody"
         /\ WithRow(kids, x) = Append(Front(kids), grown)
      \/ WithRow(kids, x) = Append(kids, Only("TBody", row))
  BY DEF WithRow, row, tail, grown
<1>6. Append(kids, x) \in Seq(K) /\ Append(kids, Only("TBody", row)) \in Seq(K)
  BY <1>3, SeqAmong
<1>. QED BY <1>4, <1>5, <1>6

LEMMA TableKidsAmong ==
  ASSUME NEW K, Heritage(K), Makes(K, "TD"), Makes(K, "TR"), Makes(K, "TBody"),
         NEW n \in Nodes, n.k \in Seq(K)
  PROVE  Becomes(K, TableKids(n), n)
<1>. DEFINE k == n.k
            l == Len(k)
            rows == InRows(k)
<1>1. K \subseteq Trees /\ k \in Seq(K) /\ k \in Seq(Trees)
  BY TreeKinds DEF Heritage
<1>2. TableKids(n) = n \/ TableKids(n) = SetKids(n, rows) BY DEF TableKids
<1>. HIDE DEF k
<1>3. l \in Nat /\ \A i \in 1..l : k[i] \in K BY <1>1
<1>4. PICK c : /\ rows = c[l] /\ c[0] = <<>>
               /\ \A i \in 1..l : c[i] = WithRow(c[i - 1], k[i])
  BY <1>1, InRowsStep
<1>. HIDE DEF rows, l
<1>. DEFINE T == {m \in Nat : m <= l => c[m] \in Seq(K)}
<1>5. 0 \in T BY <1>4, SeqAmong
<1>6. ASSUME NEW m \in Nat, m \in T PROVE m + 1 \in T
  <2>1. SUFFICES ASSUME m + 1 <= l PROVE c[m + 1] \in Seq(K) OBVIOUS
  <2>2. m + 1 \in 1..l /\ (m + 1) - 1 = m /\ m <= l BY <1>3, <2>1
  <2>3. c[m + 1] = WithRow(c[m], k[m + 1]) /\ c[m] \in Seq(K) /\ k[m + 1] \in K
    BY <1>3, <1>4, <1>6, <2>2
  <2>4. WithRow(c[m], k[m + 1]) \in Seq(K) BY <2>3, WithRowAmong
  <2>. QED BY <2>3, <2>4
<1>7. T = Nat
  <2>1. T \in SUBSET Nat OBVIOUS
  <2>. HIDE DEF T
  <2>. QED BY <1>5, <1>6, <2>1, FromZeroOn
<1>8. rows \in Seq(K) BY <1>3, <1>4, <1>7
<1>9. Becomes(K, n, n) BY <1>1 DEF Becomes, k
<1>. QED BY <1>1, <1>2, <1>8, <1>9, SetAmong

LEMMA PromotedHeadAmong ==
  ASSUME NEW K, Heritage(K), Makes(K, "THead"), Makes(K, "TBody"), NEW n \in Nodes, n.k \in Seq(K)
  PROVE  Becomes(K, PromotedHead(n), n)
<1>. DEFINE k == n.k
            m == Len(k)
            I == {l \in 1..m : HeaderFirst(k[l])}
            i == SelectInSeq(k, HeaderFirst)
            x == k[i]
            h == Head(x.k)
            head == Elem("THead", <<h>>)
            rest == Tail(x.k)
            body == IF rest = <<>> THEN <<>> ELSE <<SetKids(x, rest)>>
            before == SubSeq(k, 1, i - 1)
            after == SubSeq(k, i + 1, m)
            new == before \o <<head>> \o body \o after
<1>1. k \in Seq(K) /\ m \in Nat /\ K \subseteq Trees BY TreeKinds DEF Heritage
<1>2. i = 0 \/ (i \in 1..m /\ HeaderFirst(x))
  <2>1. i = IF I # {} THEN Min(I) ELSE 0 BY DEF SelectInSeq
  <2>2. I \in SUBSET (1..m) /\ \A l \in I : l \in 1..m /\ HeaderFirst(k[l])
    OBVIOUS
  <2>. HIDE DEF I, i, m
  <2>3. i = 0 \/ i \in I BY <1>1, <2>1, <2>2, FirstOfSome
  <2>. QED BY <2>2, <2>3
<1>3. PromotedHead(n) = n \/ (i # 0 /\ PromotedHead(n) = SetKids(n, new))
  BY DEF PromotedHead
<1>4. Becomes(K, n, n) BY DEF Becomes
<1>5. SUFFICES ASSUME i \in 1..m, HeaderFirst(x) PROVE new \in Seq(K)
  <2>. HIDE DEF new, i, x
  <2>. QED BY <1>1, <1>2, <1>3, <1>4, <1>5, SetAmong
<1>. HIDE DEF i, I, k
<1>6. x \in K BY <1>1, <1>5
<1>7. before \in Seq(K) /\ after \in Seq(K) BY <1>1, <1>5
<1>. HIDE DEF x, before, after, m
<1>8. x \in Nodes /\ x.s = "TBody" /\ x.k \in Seq(K) /\ x.k # <<>>
  <2>1. Type(x) = "TBody" /\ x.k # <<>> BY <1>5 DEF HeaderFirst
  <2>2. x \in Nodes BY <1>1, <1>6, <2>1, TreeKinds
  <2>. QED BY <1>6, <2>1, <2>2, TreeKinds DEF Heritage
<1>9. h \in K /\ rest \in Seq(K)
  <2>. DEFINE s == x.k
  <2>1. s \in Seq(K) /\ s # <<>> BY <1>8
  <2>. HIDE DEF s
  <2>2. Head(s) \in K /\ Tail(s) \in Seq(K) BY <2>1
  <2>. QED BY <2>2 DEF s
<1>. HIDE DEF h, rest
<1>10. head \in K
  <2>. DEFINE one == <<h>>
  <2>1. one \in Seq(K) /\ "THead" \in Kinds BY <1>9 DEF Kinds
  <2>. HIDE DEF one
  <2>2. Elem("THead", one) \in Nodes /\ Elem("THead", one).s = "THead" /\ Elem("THead", one).k = one
    BY <1>1, <2>1, NewAmong
  <2>3. Elem("THead", one) \in K BY <2>1, <2>2 DEF Makes
  <2>. QED BY <2>3 DEF one
<1>11. body \in Seq(K)
  <2>1. SetKids(x, rest) \in K
    <3>1. Becomes(K, SetKids(x, rest), x) BY <1>1, <1>8, <1>9, NewAmong
    <3>. QED BY <1>8, <3>1 DEF Becomes, Makes
  <2>. DEFINE y == SetKids(x, rest)
  <2>. HIDE DEF y
  <2>2. <<>> \in Seq(K) /\ <<y>> \in Seq(K) BY <2>1 DEF y
  <2>. QED BY <2>2 DEF y
<1>. HIDE DEF head, body
<1>12. <<head>> \in Seq(K) BY <1>10
<1>. QED BY <1>7, <1>11, <1>12, SeqAmong

\* The sections between others become one table.
LEMMA GroupedPieces ==
  ASSUME NEW K \in SUBSET Trees, NEW n \in Nodes, n.k \in Seq(K),
         \A t \in Nodes : t.s = "Table" /\ t.k \in Seq(K) /\ (\A i \in DOMAIN t.k : Type(t.k[i]) \in Sections)
                          => t \in K
  PROVE  \E ss \in Seq(Seq(K)) :
           /\ GroupedSections(n) = n \/ GroupedSections(n) = SetKids(n, FlattenSeq(ss))
           /\ Len(ss) = Len(n.k)
           /\ \A i \in DOMAIN n.k : Type(n.k[i]) \notin Sections => ss[i] = <<n.k[i]>>
<1>. DEFINE k == n.k
            m == Len(k)
            section(i) == i \in DOMAIN k /\ Type(k[i]) \in Sections
            S == {l \in 1..m : section(l)}
            end(i) == CHOOSE j \in i..m : ~section(j + 1) /\ \A l \in i..j : section(l)
            table(i) == SetKids(Elem("Table", <<>>), SubSeq(k, i, end(i)))
            at(i) == IF ~section(i) THEN <<k[i]>>
                     ELSE IF section(i - 1) THEN <<>>
                     ELSE <<table(i)>>
            ss == [i \in DOMAIN k |-> at(i)]
            new == FlattenSeq(ss)
<1>1. k \in Seq(K) /\ m \in Nat /\ DOMAIN k = 1..m BY TreeKinds
<1>2. GroupedSections(n) = n \/ GroupedSections(n) = SetKids(n, new)
  BY DEF GroupedSections
<1>3. S \in SUBSET (1..m) /\ \A l : l \in S <=> section(l) BY <1>1
<1>5. m = Len(k) OBVIOUS
<1>6. \A i \in 1..m : k[i] \in K
  <2>. HIDE DEF k
  <2>. QED BY <1>1
<1>7. ASSUME NEW i \in 1..m, section(i) PROVE table(i) \in K
  <2>. DEFINE j == end(i)
  <2>1. j \in i..m /\ \A l \in i..j : section(l)
    <3>. HIDE DEF S, section, m
    <3>1. i \in S BY <1>3, <1>7
    <3>2. \E e \in i..m : e + 1 \notin S /\ \A l \in i..e : l \in S
      BY <1>1, <1>3, <3>1, RunEnds
    <3>3. \E e \in i..m : ~section(e + 1) /\ \A l \in i..e : section(l)
      BY <1>3, <3>2
    <3>. QED BY <3>3
  <2>. HIDE DEF end
  <2>. DEFINE w == SubSeq(k, i, j)
              none == <<>>
              o == Elem("Table", none)
  <2>2. w \in Seq(K) /\ \A l \in DOMAIN w : Type(w[l]) \in Sections
    <3>. HIDE DEF k, j, m
    <3>1. \A l \in i..j : Type(k[l]) \in Sections BY <2>1
    <3>2. i \in 1..m /\ j \in i..m BY <2>1
    <3>. HIDE DEF section
    <3>3. w \in Seq(K) /\ DOMAIN w = 1..((j - i) + 1) /\ \A l \in DOMAIN w : w[l] = k[i + l - 1]
      BY <1>1, <1>5, <3>2
    <3>4. \A l \in 1..((j - i) + 1) : i + l - 1 \in i..j BY <3>2
    <3>. QED BY <3>1, <3>3, <3>4
  <2>. HIDE DEF w
  <2>3. none \in Seq(K) /\ "Table" \in Kinds BY DEF Kinds
  <2>. HIDE DEF none
  <2>4. o \in Nodes /\ o.s = "Table" BY <2>3, NewAmong
  <2>. HIDE DEF o
  <2>5. SetKids(o, w) \in Nodes /\ SetKids(o, w).s = "Table" /\ SetKids(o, w).k = w
    BY <2>2, <2>4, SetAmong DEF Becomes
  <2>6. SetKids(o, w) \in K BY <2>2, <2>5
  <2>. QED BY <2>6 DEF o, w, none
<1>. HIDE DEF table
<1>8. \A i \in 1..m : at(i) \in Seq(K)
  <2>. HIDE DEF section, k, m
  <2>. QED BY <1>6, <1>7
<1>9. ss \in [1..m -> Seq(K)]
  <2>. HIDE DEF at, m
  <2>. QED BY <1>1, <1>8
<1>10. ss \in Seq(Seq(K)) /\ Len(ss) = m
  <2>. DEFINE C == Seq(K)
  <2>1. ss \in [1..m -> C] BY <1>9
  <2>. HIDE DEF C, ss, m
  <2>2. ss \in Seq(C) /\ Len(ss) = m BY <1>1, <2>1, SeqOfFunction
  <2>. QED BY <2>2 DEF C
<1>11. \A i \in DOMAIN k : Type(k[i]) \notin Sections => ss[i] = <<k[i]>>
  OBVIOUS
<1>. HIDE DEF ss
<1>. QED BY <1>2, <1>10, <1>11

LEMMA GroupedAmong ==
  ASSUME NEW K \in SUBSET Trees, NEW n \in Nodes, n.k \in Seq(K),
         \A t \in Nodes : t.s = "Table" /\ t.k \in Seq(K) /\ (\A i \in DOMAIN t.k : Type(t.k[i]) \in Sections)
                          => t \in K
  PROVE  Becomes(K, GroupedSections(n), n)
<1>1. PICK ss \in Seq(Seq(K)) :
        GroupedSections(n) = n \/ GroupedSections(n) = SetKids(n, FlattenSeq(ss))
  BY GroupedPieces
<1>. DEFINE new == FlattenSeq(ss)
<1>2. new \in Seq(K) BY FlattenType
<1>. HIDE DEF new
<1>3. Becomes(K, SetKids(n, new), n) BY <1>2, SetAmong
<1>4. Becomes(K, n, n) BY DEF Becomes
<1>. QED BY <1>1, <1>3, <1>4 DEF new

\* The sequences in front of those put together.
LEMMA FlattenFirst ==
  ASSUME NEW S, NEW ss \in Seq(Seq(S)), ss # <<>>
  PROVE  FlattenSeq(ss) = ss[1] \o FlattenSeq(Tail(ss)) /\ ss[1] \in Seq(S)
         /\ Tail(ss) \in Seq(Seq(S)) /\ FlattenSeq(Tail(ss)) \in Seq(S)
<1>. DEFINE C == Seq(S)
<1>1. ss \in Seq(C) OBVIOUS
<1>. HIDE DEF C
<1>2. ss = <<ss[1]>> \o Tail(ss) /\ Tail(ss) \in Seq(C) /\ ss[1] \in C
  <2>1. Len(ss) \in Nat /\ Len(ss) # 0 BY <1>1, EmptySeq
  <2>2. 1 \in 1..Len(ss) /\ Len(ss) \in 1..Len(ss) BY <2>1
  <2>3. SubSeq(ss, 1, Len(ss)) = <<ss[1]>> \o SubSeq(ss, 1 + 1, Len(ss))
    BY <1>1, <2>2, SubSeqRecursiveFirst
  <2>4. SubSeq(ss, 1, Len(ss)) = ss BY <1>1, SubSeqFull
  <2>5. Tail(ss) = SubSeq(ss, 2, Len(ss)) /\ Tail(ss) \in Seq(C)
    BY <1>1, TailIsSubSeq, HeadTailProperties
  <2>6. ss[1] \in C /\ 1 + 1 = 2 BY <1>1, <2>2
  <2>. QED BY <2>3, <2>4, <2>5, <2>6
<1>. DEFINE a == ss[1]
            t == Tail(ss)
<1>3. ss = <<a>> \o t /\ t \in Seq(Seq(S)) /\ a \in Seq(S) BY <1>2 DEF C
<1>. HIDE DEF a, t
<1>4. FlattenSeq(<<a>>) = a /\ <<a>> \in Seq(Seq(S)) BY <1>3, FlattenOne
<1>5. FlattenSeq(<<a>> \o t) = FlattenSeq(<<a>>) \o FlattenSeq(t)
  BY <1>3, <1>4, FlattenConcat
<1>6. FlattenSeq(t) \in Seq(S) BY <1>3, FlattenType
<1>. QED BY <1>3, <1>4, <1>5, <1>6 DEF a, t

LEMMA OneAndOne ==
  ASSUME NEW S, NEW x \in S, NEW y \in S
  PROVE  LET k == <<x>> \o <<y>> IN DOMAIN k = {1, 2} /\ k[1] = x /\ k[2] = y
<1>. DEFINE a == <<x>>
            b == <<y>>
            k == a \o b
<1>1. a \in Seq(S) /\ Len(a) = 1 /\ a[1] = x /\ b \in Seq(S) /\ Len(b) = 1 /\ b[1] = y
  OBVIOUS
<1>. HIDE DEF a, b
<1>2. /\ k \in Seq(S) /\ Len(k) = Len(a) + Len(b)
      /\ \A i \in 1..(Len(a) + Len(b)) : k[i] = IF i <= Len(a) THEN a[i] ELSE b[i - Len(a)]
  BY <1>1, ConcatProperties
<1>. HIDE DEF k
<1>3. DOMAIN k = 1..2 /\ 1..2 = {1, 2} BY <1>1, <1>2
<1>4. 1 \in 1..2 /\ 2 \in 1..2 /\ 2 - 1 = 1 /\ ~(2 <= 1) /\ 1 <= 1 /\ 1 + 1 = 2
  OBVIOUS
<1>5. k[1] = a[1] /\ k[2] = b[1] BY <1>1, <1>2, <1>4
<1>. QED BY <1>1, <1>3, <1>5 DEF a, b, k

LEMMA NothingInSum ==
  ASSUME NEW a \in Nat, NEW b \in Nat, a + b = 0
  PROVE  a = 0 /\ b = 0
OBVIOUS

\* What is put together is empty if every sequence is.
LEMMA SomeAreFlat ==
  ASSUME NEW S, NEW ss \in Seq(Seq(S)), NEW j \in 1..Len(ss), FlattenSeq(ss) = <<>>
  PROVE  Len(ss[j]) = 0
<1>1. PICK f : DOMAIN f = 0..Len(ss) /\ Adds(f, ss) BY SomethingAdds
<1>. DEFINE n == Len(ss)
<1>2. n \in Nat /\ f[0] = <<>> /\ \A i \in 1..n : f[i] = f[i - 1] \o ss[i] /\ ss[i] \in Seq(S)
  <2>1. f[0] = <<>> /\ \A i \in 1..n : f[i] = f[i - 1] \o ss[i] BY <1>1 DEF Adds
  <2>. DEFINE C == Seq(S)
  <2>2. ss \in Seq(C) OBVIOUS
  <2>. HIDE DEF C
  <2>3. n \in Nat /\ \A i \in 1..n : ss[i] \in C BY <2>2
  <2>. QED BY <2>1, <2>3 DEF C
<1>3. \A i \in 0..n : f[i] \in Seq(S) BY <1>1, JoinedSoFar
<1>4. f[n] = <<>> BY <1>1, FlattenAdds
<1>. HIDE DEF n
<1>5. ASSUME NEW i \in 1..n PROVE Len(f[i]) = Len(f[i - 1]) + Len(ss[i]) /\ Len(ss[i]) \in Nat
                                /\ Len(f[i - 1]) \in Nat
  <2>. DEFINE a == f[i - 1]
              b == ss[i]
  <2>1. a \in Seq(S) /\ b \in Seq(S) /\ f[i] = a \o b
    <3>1. i - 1 \in 0..n BY <1>2
    <3>. QED BY <1>2, <1>3, <3>1
  <2>. HIDE DEF a, b
  <2>2. Len(a \o b) = Len(a) + Len(b) /\ Len(a) \in Nat /\ Len(b) \in Nat
    BY <2>1
  <2>. QED BY <2>1, <2>2 DEF a, b
<1>. DEFINE T == {m \in Nat : m <= n => Len(f[n - m]) = 0}
<1>6. 0 \in T BY <1>2, <1>4
<1>7. ASSUME NEW m \in Nat, m \in T PROVE m + 1 \in T
  <2>1. SUFFICES ASSUME m + 1 <= n PROVE Len(f[n - (m + 1)]) = 0 OBVIOUS
  <2>2. n - m \in 1..n /\ (n - m) - 1 = n - (m + 1) /\ m <= n BY <1>2, <2>1
  <2>. DEFINE i == n - m
  <2>3. i \in 1..n /\ i - 1 = n - (m + 1) /\ Len(f[i]) = 0 BY <1>7, <2>2
  <2>. HIDE DEF i
  <2>4. Len(f[i]) = Len(f[i - 1]) + Len(ss[i]) /\ Len(ss[i]) \in Nat /\ Len(f[i - 1]) \in Nat
    BY <1>5, <2>3
  <2>5. Len(f[i - 1]) = 0
    <3>1. Len(f[i - 1]) + Len(ss[i]) = 0 BY <2>3, <2>4, Zenon
    <3>. QED BY <2>4, <3>1, NothingInSum, Zenon
  <2>. QED BY <2>3, <2>5
<1>8. T = Nat
  <2>1. T \in SUBSET Nat OBVIOUS
  <2>. HIDE DEF T
  <2>. QED BY <1>6, <1>7, <2>1, FromZeroOn
<1>9. Len(f[j]) = 0
  <2>1. n - j \in Nat /\ n - j <= n /\ n - (n - j) = j BY <1>2 DEF n
  <2>. QED BY <1>8, <2>1
<1>10. j \in 1..n BY DEF n
<1>11. Len(f[j]) = Len(f[j - 1]) + Len(ss[j]) /\ Len(ss[j]) \in Nat /\ Len(f[j - 1]) \in Nat
  BY <1>5, <1>10
<1>12. Len(f[j - 1]) + Len(ss[j]) = 0 BY <1>9, <1>11, Zenon
<1>. QED BY <1>11, <1>12, NothingInSum, Zenon

\* An item gets a label, if it has one, and a body.
LEMMA ItemKidsAmong ==
  ASSUME NEW K, Heritage(K), Makes(K, "LBody"), NEW n \in Nodes, n.k \in Seq(K)
  PROVE  /\ Becomes(K, ItemKids(n), n)
         /\ Orderly(n.k) => Neat(ItemKids(n).k)
<1>. DEFINE k == n.k
            m == Len(k)
            lbl == FirstOf(k, "Lbl")
            body == FirstOf(k, "LBody")
            at(i) == IF i = 0 THEN <<>> ELSE <<k[i]>>
            ss == [i \in DOMAIN k |-> IF i \in {lbl, body} THEN <<>> ELSE at(i)]
            extras == FlattenSeq(ss)
            old == IF body = 0 THEN Elem("LBody", <<>>) ELSE k[body]
            all == old.k \o extras
            item == SetKids(old, all)
            new == at(lbl) \o <<item>>
<1>1. k \in Seq(K) /\ m \in Nat /\ DOMAIN k = 1..m /\ K \subseteq Trees /\ k \in Seq(Trees)
  BY TreeKinds DEF Heritage
<1>2. ItemKids(n) = IF extras = <<>> THEN n ELSE SetKids(n, new)
  BY DEF ItemKids, FirstOf
<1>3. Becomes(K, n, n) BY DEF Becomes
<1>4. m = Len(k) OBVIOUS
<1>. HIDE DEF k
<1>5. /\ lbl \in 0..m /\ (lbl # 0 => Type(k[lbl]) = "Lbl")
      /\ body \in 0..m /\ (body # 0 => Type(k[body]) = "LBody")
      /\ \A j \in 1..m : /\ Type(k[j]) = "Lbl" => lbl # 0 /\ lbl <= j
                        /\ Type(k[j]) = "LBody" => body # 0 /\ body <= j
  BY <1>1, <1>4, FirstOfType
<1>. HIDE DEF lbl, body, m
<1>6. \A i \in 0..m : at(i) \in Seq(K)
  <2>1. \A i \in 1..m : <<k[i]>> \in Seq(K) BY <1>1, <1>4
  <2>. QED BY <1>1, <2>1, SeqAmong
<1>7. ss \in Seq(Seq(K)) /\ Len(ss) = m
  <2>. DEFINE C == Seq(K)
  <2>1. \A i \in 1..m : i \in 0..m BY <1>1
  <2>2. <<>> \in C OBVIOUS
  <2>3. \A i \in 1..m : at(i) \in C BY <1>6, <2>1
  <2>. HIDE DEF at, C
  <2>4. ss \in [1..m -> C] BY <1>1, <2>2, <2>3
  <2>. HIDE DEF ss
  <2>5. ss \in Seq(C) /\ Len(ss) = m BY <1>1, <2>4, SeqOfFunction
  <2>. QED BY <2>5 DEF C
<1>8. extras \in Seq(K)
  <2>. HIDE DEF ss
  <2>. QED BY <1>7, FlattenType
<1>9. old \in Nodes /\ old.s = "LBody" /\ old.k \in Seq(K)
  <2>1. CASE body = 0
    <3>. DEFINE none == <<>>
    <3>1. none \in Seq(K) /\ "LBody" \in Kinds /\ old = Elem("LBody", none)
      BY <2>1 DEF Kinds
    <3>. HIDE DEF none, old
    <3>. QED BY <1>1, <3>1, NewAmong
  <2>2. CASE body # 0
    <3>1. old = k[body] /\ body \in 1..m BY <1>1, <1>5, <2>2
    <3>. HIDE DEF old
    <3>2. old \in K /\ Type(old) = "LBody" BY <1>1, <1>4, <1>5, <2>2, <3>1
    <3>3. old \in Nodes BY <1>1, <3>2, TreeKinds
    <3>. QED BY <3>2, <3>3, TreeKinds DEF Heritage
  <2>. QED BY <2>1, <2>2
<1>. HIDE DEF old, at
<1>10. item \in K /\ Type(item) = "LBody"
  <2>1. all \in Seq(K)
    <3>. HIDE DEF extras
    <3>. QED BY <1>8, <1>9, SeqAmong
  <2>. HIDE DEF all
  <2>2. Becomes(K, item, old) BY <1>1, <1>9, <2>1, SetAmong
  <2>3. item \in Nodes /\ item.s = "LBody" /\ item.k \in Seq(K)
    BY <1>9, <2>2 DEF Becomes
  <2>. HIDE DEF item
  <2>4. item \in K BY <2>3 DEF Makes
  <2>. QED BY <2>3, <2>4, TreeKinds
<1>. HIDE DEF item
<1>11. new \in Seq(K)
  <2>1. <<item>> \in Seq(K) /\ at(lbl) \in Seq(K) BY <1>5, <1>6, <1>10
  <2>. QED BY <2>1, SeqAmong
<1>. DEFINE e == extras
<1>12. Becomes(K, ItemKids(n), n)
  <2>. HIDE DEF extras, new
  <2>. QED BY <1>1, <1>2, <1>3, <1>11, SetAmong
<1>13. Neat(new)
  <2>1. CASE lbl = 0
    <3>1. at(lbl) = <<>> BY <2>1 DEF at
    <3>2. new = <<item>> BY <3>1
    <3>. HIDE DEF new
    <3>3. DOMAIN new = {1} /\ new[1] = item BY <3>2
    <3>. QED BY <1>10, <3>3 DEF Neat, Orderly
  <2>2. CASE lbl # 0
    <3>1. at(lbl) = <<k[lbl]>> /\ Type(k[lbl]) = "Lbl" BY <1>5, <2>2 DEF at
    <3>. DEFINE x == k[lbl]
    <3>. HIDE DEF x
    <3>2. new = <<x>> \o <<item>> /\ Type(x) = "Lbl" BY <3>1 DEF x
    <3>3. DOMAIN new = {1, 2} /\ new[1] = x /\ new[2] = item
      <4>1. x \in K /\ item \in K BY <1>1, <1>4, <1>5, <1>10, <2>2 DEF x
      <4>. HIDE DEF new
      <4>. QED BY <3>2, <4>1, OneAndOne
    <3>. HIDE DEF new
    <3>. QED BY <1>10, <3>2, <3>3 DEF Neat, Orderly
  <2>. QED BY <2>1, <2>2
<1>14. ASSUME extras = <<>>, Orderly(k) PROVE Neat(k)
  <2>1. ASSUME NEW j \in 1..m PROVE j \in {lbl, body}
    <3>. DEFINE f == FlattenSeq(ss)
    <3>1. SUFFICES ASSUME j \notin {lbl, body} PROVE FALSE OBVIOUS
    <3>2. ss[j] = <<k[j]>> BY <1>1, <3>1 DEF at
    <3>. HIDE DEF ss
    <3>3. Len(ss[j]) = 0 BY <1>7, <1>14, SomeAreFlat
    <3>. QED BY <3>2, <3>3
  <2>4. \A j \in 1..m : j # 0 BY <1>1
  <2>5. \A j \in 1..m : (Type(k[j]) = "Lbl" /\ j = lbl) \/ (Type(k[j]) = "LBody" /\ j = body)
    BY <1>5, <2>1, <2>4
  <2>2. \A i \in DOMAIN k : Type(k[i]) \in {"Lbl", "LBody"} BY <1>1, <2>5
  <2>3. \A i, j \in DOMAIN k : Type(k[i]) = Type(k[j]) => i = j BY <1>1, <2>5
  <2>. QED BY <1>14, <2>2, <2>3 DEF Neat
<1>15. ASSUME Orderly(k) PROVE Neat(ItemKids(n).k)
  <2>1. CASE extras = <<>> BY <1>2, <1>14, <1>15, <2>1 DEF k
  <2>2. CASE extras # <<>>
    <3>1. ItemKids(n) = SetKids(n, new) BY <1>2, <2>2
    <3>. HIDE DEF new, extras
    <3>2. SetKids(n, new).k = new BY <1>1, <1>11, SetAmong
    <3>. QED BY <1>13, <3>1, <3>2
  <2>. QED BY <2>1, <2>2
<1>. QED BY <1>12, <1>15 DEF k

-----------------------------------------------------------------------------
(* The steps.                                                              *)

LEMMA RekiddedAmong ==
  ASSUME NEW K, Heritage(K), AllMade(K), NEW n \in Nodes, n.k \in Seq(K), NEW step
  PROVE  /\ Becomes(K, Rekidded(n, step), n)
         /\ step = "items" /\ n.s = "LI" /\ Orderly(n.k) => Neat(Rekidded(n, step).k)
<1>1. /\ Makes(K, "TD") /\ Makes(K, "TR") /\ Makes(K, "TBody") /\ Makes(K, "THead")
      /\ Makes(K, "Table") /\ Makes(K, "LBody") /\ Makes(K, "TOCI")
      /\ \A x \in K : Only("LI", Only("LBody", x)) \in K
  BY DEF AllMade
<1>2. K \in SUBSET Trees BY DEF Heritage
<1>3. Becomes(K, TableKids(n), n) BY <1>1, TableKidsAmong
<1>4. Becomes(K, RowKids(n), n) /\ Becomes(K, ListKids(n), n) /\ Becomes(K, ContentsKids(n), n)
  BY <1>1, KidsAmong
<1>5. Becomes(K, GroupedSections(n), n)
  <2>1. \A t \in Nodes : t.s = "Table" /\ t.k \in Seq(K) => t \in K
    BY <1>1 DEF Makes
  <2>. QED BY <1>2, <2>1, GroupedAmong
<1>6. Becomes(K, PromotedHead(n), n) BY <1>1, PromotedHeadAmong
<1>7. Becomes(K, ItemKids(n), n) /\ (Orderly(n.k) => Neat(ItemKids(n).k))
  BY <1>1, ItemKidsAmong
<1>8. Becomes(K, n, n) BY DEF Becomes
<1>. QED BY <1>3, <1>4, <1>5, <1>6, <1>7, <1>8 DEF Rekidded

LEMMA TreesAreMade == Heritage(Trees) /\ AllMade(Trees)
<1>1. Heritage(Trees) BY TreeKinds DEF Heritage
<1>2. \A s : Makes(Trees, s) BY TreeKinds DEF Makes
<1>3. ASSUME NEW x \in Trees PROVE Only("LI", Only("LBody", x)) \in Trees
  <2>1. Only("LBody", x) \in Trees BY <1>2, MadeAmong DEF Kinds
  <2>. QED BY <1>2, <2>1, MadeAmong DEF Kinds
<1>. QED BY <1>1, <1>2, <1>3 DEF AllMade

\* The steps that only look at cells.
LEMMA SaneIsLike ==
  ASSUME Heights = Nat, NEW R, IsReading(R), NEW n \in Nodes
  PROVE  Like(R, Sane(n), n) /\ Sane(n).s = n.s
<1>1. n.c \in Int /\ n.r \in Int BY DEF Nodes, Elements
<1>2. Span(n.c) \in Int /\ Span(n.r) \in Int BY <1>1, SpanAssumption DEF Span
<1>3. Sane(n) \in Nodes /\ Sane(n).k = n.k /\ Sane(n).s = n.s
  BY <1>2 DEF Nodes, Elements, Sane
<1>. QED BY <1>3, LikeSameKids

LEMMA LikeItself ==
  ASSUME NEW R, NEW n \in Nodes
  PROVE  Like(R, n, n)
BY DEF Like

LEMMA LikeSteps ==
  ASSUME Heights = Nat, NEW R, IsReading(R), NEW n \in Nodes, NEW step \in {"headers", "regularity"}
  PROVE  Like(R, Rewritten(n, step), n) /\ Rewritten(n, step).s = n.s
<1>1. n.s = "Table" => n.s \in Grids BY DEF Grids
<1>2. CASE step = "headers"
  <2>1. CASE n.s = "Table"
    <3>1. Rewritten(n, step) = n \/ Rewritten(n, step) = FirstRowAsHeader(n)
      BY <1>2, <2>1 DEF Rewritten, Headed
    <3>2. Like(R, FirstRowAsHeader(n), n) /\ FirstRowAsHeader(n).s = n.s
      BY <1>1, <2>1, FirstRowAsHeaderIs
    <3>. QED BY <3>1, <3>2, LikeItself
  <2>2. CASE n.s # "Table"
    <3>1. Rewritten(n, step) = n BY <1>2, <2>2 DEF Rewritten, Rekidded
    <3>. QED BY <3>1, LikeItself
  <2>. QED BY <2>1, <2>2
<1>3. CASE step = "regularity"
  <2>. DEFINE m == Sane(n)
  <2>1. Like(R, m, n) /\ m.s = n.s BY SaneIsLike
  <2>. HIDE DEF m
  <2>2. CASE n.s = "Table"
    <3>. DEFINE rows == WidenedRows(Rows(n))
    <3>1. Rewritten(n, step) = WithSpans(m, rows) BY <1>3, <2>2 DEF Rewritten, m
    <3>. HIDE DEF rows
    <3>2. m \in Nodes BY <2>1 DEF Like
    <3>3. Like(R, WithSpans(m, rows), m) /\ WithSpans(m, rows).s = m.s
      BY <1>1, <2>1, <2>2, <3>2, WithSpansIs
    <3>. QED BY <2>1, <3>1, <3>3 DEF Like
  <2>3. CASE n.s # "Table"
    <3>1. Rewritten(n, step) = m BY <1>3, <2>3 DEF Rewritten, m
    <3>. QED BY <2>1, <3>1
  <2>. QED BY <2>2, <2>3
<1>. QED BY <1>2, <1>3

LEMMA RewrittenIs ==
  ASSUME Heights = Nat, NEW step
  PROVE  /\ \A n \in Nodes : Rewritten(n, step) \in Nodes /\ Rewritten(n, step).s = n.s
         /\ step \notin {"headers", "regularity"} =>
              \A n : Rewritten(n, step) = Rekidded(n, step)
<1>1. step \notin {"headers", "regularity"} => \A n : Rewritten(n, step) = Rekidded(n, step)
  BY DEF Rewritten
<1>2. ASSUME NEW n \in Nodes PROVE Rewritten(n, step) \in Nodes /\ Rewritten(n, step).s = n.s
  <2>1. CASE step \in {"headers", "regularity"}
    BY <2>1, ReadingExists, LikeSteps DEF Like
  <2>2. CASE step \notin {"headers", "regularity"}
    <3>1. n.k \in Seq(Trees) BY TreeKinds
    <3>2. Becomes(Trees, Rekidded(n, step), n)
      BY <3>1, TreesAreMade, RekiddedAmong
    <3>. QED BY <1>1, <2>2, <3>2 DEF Becomes
  <2>. QED BY <2>1, <2>2
<1>. QED BY <1>1, <1>2

\* Every step comes to its end: what it makes of an element has kids that it is
\* through with, once it is with those of the element.
LEMMA StepsEnd ==
  ASSUME Heights = Nat, NEW step, NEW S \in SUBSET Nodes,
         \A x \in Nodes : ElemKids(Rewritten(x, step)) \subseteq S => x \in S
  PROVE  S = Nodes
<1>1. PICK w : /\ w \in [Nodes -> SUBSET Nodes]
               /\ \A n \in Nodes : w[n] = {n} \cup UNION {w[y] : y \in ElemKids(n)}
               /\ \A n \in Nodes : Below(n) = w[n]
  BY BelowIs
\* The trees all of whose elements it is through with.
<1>. DEFINE H == {x \in Trees : IsElem(x) => w[x] \subseteq S}
            Done(n) == n.k \in Seq(H) => n \in H
<1>2. Heritage(H)
  <2>1. ASSUME NEW n \in Nodes, n \in H PROVE n.k \in Seq(H)
    <3>. DEFINE k == n.k
    <3>1. w[n] \subseteq S /\ k \in Seq(Trees) BY <2>1, TreeKinds
    <3>2. ASSUME NEW i \in DOMAIN k PROVE k[i] \in H
      <4>1. k[i] \in Trees BY KidsAre
      <4>2. IsElem(k[i]) => w[k[i]] \subseteq w[n] BY <1>1, ElemKidsAre
      <4>. QED BY <3>1, <4>1, <4>2
    <3>. HIDE DEF k, H
    <3>3. k \in Seq(H) BY <3>1, <3>2
    <3>. QED BY <3>3 DEF k
  <2>. QED BY <2>1 DEF Heritage
<1>3. ASSUME NEW n \in Nodes, NEW m \in Nodes, m.k \in Seq(H) PROVE ElemKids(m) \subseteq S
  <2>1. ASSUME NEW y \in ElemKids(m) PROVE y \in S
    <3>. DEFINE k == m.k
    <3>1. PICK i \in DOMAIN k : k[i] = y BY ElemKidsAre
    <3>2. y \in Nodes /\ IsElem(y) BY ElemKidsAre DEF ElemKids
    <3>3. k \in Seq(H) BY <1>3
    <3>. HIDE DEF k, H
    <3>4. y \in H BY <3>1, <3>3
    <3>5. w[y] \subseteq S /\ y \in w[y] BY <1>1, <3>2, <3>4 DEF H
    <3>. QED BY <3>5
  <2>. QED BY <2>1
\* It is enough that the kids it gives an element are such trees.
<1>4. ASSUME NEW n \in Nodes, n.k \in Seq(H), NEW m \in Nodes, Becomes(H, m, n),
             m = Rewritten(n, step)
      PROVE  n \in H
  <2>1. ElemKids(m) \subseteq S
    <3>. HIDE DEF H
    <3>. QED BY <1>3, <1>4 DEF Becomes
  <2>2. n \in S BY <1>4, <2>1
  <2>3. \A y \in ElemKids(n) : w[y] \subseteq S
    <3>. DEFINE k == n.k
    <3>1. ASSUME NEW y \in ElemKids(n) PROVE w[y] \subseteq S
      <4>1. PICK i \in DOMAIN k : k[i] = y BY ElemKidsAre
      <4>2. k \in Seq(H) /\ IsElem(y) BY <1>4 DEF ElemKids
      <4>. HIDE DEF k, H
      <4>3. y \in H BY <4>1, <4>2
      <4>. QED BY <4>2, <4>3 DEF H
    <3>. QED BY <3>1
  <2>4. w[n] \subseteq S BY <1>1, <2>2, <2>3
  <2>. QED BY <2>4, TreeKinds
<1>. HIDE DEF H
<1>5. ASSUME NEW n \in Nodes, Rewritten(n, step) = n PROVE Done(n)
  BY <1>4, <1>5 DEF Becomes
<1>6. ASSUME \A n \in Nodes : Done(n) PROVE S = Nodes
  <2>1. Leaves \subseteq H BY TreesAre DEF H, Leaves, IsElem
  <2>2. ASSUME NEW n \in Elements(Trees), \A i \in DOMAIN n.k : n.k[i] \in H PROVE n \in H
    <3>1. n \in Nodes BY DEF Nodes
    <3>. DEFINE k == n.k
    <3>2. k \in Seq(Trees) /\ \A i \in DOMAIN k : k[i] \in H
      BY <2>2, <3>1, TreeKinds
    <3>. HIDE DEF k
    <3>3. k \in Seq(H) BY <3>2
    <3>. QED BY <1>6, <3>1, <3>3 DEF k
  <2>3. Trees \subseteq H BY <2>1, <2>2, TreeInduction
  <2>4. ASSUME NEW n \in Nodes PROVE n \in S
    <3>1. n \in H /\ IsElem(n) BY <2>3, TreeKinds
    <3>. QED BY <1>1, <3>1 DEF H
  <2>. QED BY <2>4
<1>7. H \in SUBSET Trees BY DEF H
<1>8. \A s : (\A n \in Nodes : n.s = s => Done(n)) => Makes(H, s) BY DEF Makes
<1>9. ASSUME step \notin {"headers", "regularity"}, NEW n \in Nodes, n.k \in Seq(H),
             Becomes(H, Rekidded(n, step), n)
      PROVE  n \in H
  BY <1>4, <1>9, RewrittenIs DEF Becomes
<1>10. CASE step = "kids"
  \* A table of sections stays as it is.
  <2>1. ASSUME NEW t \in Nodes, t.s = "Table", t.k \in Seq(H),
               \A i \in DOMAIN t.k : Type(t.k[i]) \in Sections
        PROVE  t \in H
    <3>1. TableKids(t) = t BY <2>1 DEF TableKids
    <3>2. Rekidded(t, step) = t BY <1>10, <2>1, <3>1 DEF Rekidded
    <3>. QED BY <1>9, <1>10, <2>1, <3>2 DEF Becomes
  <2>2. ASSUME NEW n \in Nodes, n.s \notin {"Table", "TR"} PROVE Done(n)
    <3>1. SUFFICES ASSUME n.k \in Seq(H) PROVE n \in H OBVIOUS
    <3>2. Becomes(H, GroupedSections(n), n) BY <1>7, <2>1, <3>1, GroupedAmong
    <3>3. Rekidded(n, step) = GroupedSections(n) BY <1>10, <2>2 DEF Rekidded
    <3>. QED BY <1>9, <1>10, <3>1, <3>2, <3>3
  <2>3. Makes(H, "TD") /\ Makes(H, "TBody") BY <1>8, <2>2
  <2>4. ASSUME NEW n \in Nodes, n.s = "TR" PROVE Done(n)
    <3>1. SUFFICES ASSUME n.k \in Seq(H) PROVE n \in H OBVIOUS
    <3>2. Becomes(H, RowKids(n), n) BY <1>2, <2>3, <3>1, KidsAmong
    <3>3. Rekidded(n, step) = RowKids(n) BY <1>10, <2>4 DEF Rekidded
    <3>. QED BY <1>9, <1>10, <3>1, <3>2, <3>3
  <2>5. Makes(H, "TR") BY <1>8, <2>4
  <2>6. ASSUME NEW n \in Nodes, n.s = "Table" PROVE Done(n)
    <3>1. SUFFICES ASSUME n.k \in Seq(H) PROVE n \in H OBVIOUS
    <3>2. Becomes(H, TableKids(n), n) BY <1>2, <2>3, <2>5, <3>1, TableKidsAmong
    <3>3. Rekidded(n, step) = TableKids(n) BY <1>10, <2>6 DEF Rekidded
    <3>. QED BY <1>9, <1>10, <3>1, <3>2, <3>3
  <2>. QED BY <1>6, <2>2, <2>4, <2>6
<1>11. CASE step = "heads"
  <2>1. ASSUME NEW n \in Nodes, n.s # "Table" PROVE Done(n)
    BY <1>5, <1>11, <2>1 DEF Rewritten, Rekidded
  <2>2. Makes(H, "THead") /\ Makes(H, "TBody") BY <1>8, <2>1
  <2>3. ASSUME NEW n \in Nodes, n.s = "Table" PROVE Done(n)
    <3>1. SUFFICES ASSUME n.k \in Seq(H) PROVE n \in H OBVIOUS
    <3>2. Becomes(H, PromotedHead(n), n) BY <1>2, <2>2, <3>1, PromotedHeadAmong
    <3>3. Rekidded(n, step) = PromotedHead(n) BY <1>11, <2>3 DEF Rekidded
    <3>. QED BY <1>9, <1>11, <3>1, <3>2, <3>3
  <2>. QED BY <1>6, <2>1, <2>3
<1>12. CASE step = "items"
  <2>1. ASSUME NEW n \in Nodes, n.s # "LI" PROVE Done(n)
    BY <1>5, <1>12, <2>1 DEF Rewritten, Rekidded
  <2>2. Makes(H, "LBody") BY <1>8, <2>1
  <2>3. ASSUME NEW n \in Nodes, n.s = "LI" PROVE Done(n)
    <3>1. SUFFICES ASSUME n.k \in Seq(H) PROVE n \in H OBVIOUS
    <3>2. Becomes(H, ItemKids(n), n) BY <1>2, <2>2, <3>1, ItemKidsAmong
    <3>3. Rekidded(n, step) = ItemKids(n) BY <1>12, <2>3 DEF Rekidded
    <3>. QED BY <1>9, <1>12, <3>1, <3>2, <3>3
  <2>. QED BY <1>6, <2>1, <2>3
<1>13. CASE step = "lists"
  <2>1. ASSUME NEW n \in Nodes, n.s # "L" PROVE Done(n)
    BY <1>5, <1>13, <2>1 DEF Rewritten, Rekidded
  <2>2. Makes(H, "LI") /\ Makes(H, "LBody") BY <1>8, <2>1
  <2>3. ASSUME NEW x \in H PROVE Only("LI", Only("LBody", x)) \in H
    <3>1. {"LI", "LBody"} \subseteq Kinds BY DEF Kinds
    <3>. DEFINE b == Only("LBody", x)
    <3>2. b \in H BY <1>7, <2>2, <3>1, MadeAmong
    <3>. HIDE DEF b
    <3>3. Only("LI", b) \in H BY <1>7, <2>2, <3>1, <3>2, MadeAmong
    <3>. QED BY <3>3 DEF b
  <2>4. ASSUME NEW n \in Nodes, n.s = "L" PROVE Done(n)
    <3>1. SUFFICES ASSUME n.k \in Seq(H) PROVE n \in H OBVIOUS
    <3>2. Becomes(H, ListKids(n), n) BY <1>2, <2>3, <3>1, KidsAmong
    <3>3. Rekidded(n, step) = ListKids(n) BY <1>13, <2>4 DEF Rekidded
    <3>. QED BY <1>9, <1>13, <3>1, <3>2, <3>3
  <2>. QED BY <1>6, <2>1, <2>4
<1>14. CASE step = "contents"
  <2>1. ASSUME NEW n \in Nodes, n.s # "TOC" PROVE Done(n)
    BY <1>5, <1>14, <2>1 DEF Rewritten, Rekidded
  <2>2. Makes(H, "TOCI") BY <1>8, <2>1
  <2>3. ASSUME NEW n \in Nodes, n.s = "TOC" PROVE Done(n)
    <3>1. SUFFICES ASSUME n.k \in Seq(H) PROVE n \in H OBVIOUS
    <3>2. Becomes(H, ContentsKids(n), n) BY <1>2, <2>2, <3>1, KidsAmong
    <3>3. Rekidded(n, step) = ContentsKids(n) BY <1>14, <2>3 DEF Rekidded
    <3>. QED BY <1>9, <1>14, <3>1, <3>2, <3>3
  <2>. QED BY <1>6, <2>1, <2>3
\* Headers and spans make no tree higher.
<1>15. CASE step \in {"headers", "regularity"}
  <2>1. PICK R : IsReading(R) BY ReadingExists
  <2>. DEFINE T == {d \in Nat : Low(d) \subseteq S}
  <2>2. ASSUME NEW d \in Nat, NEW n \in Low(d), d # 0 => Low(d - 1) \subseteq S PROVE n \in S
    <3>. DEFINE m == Rewritten(n, step)
    <3>1. n \in Nodes BY LowAre
    <3>2. Like(R, m, n) BY <1>15, <2>1, <3>1, LikeSteps
    <3>3. m \in Low(d) BY <3>2 DEF Like
    <3>. HIDE DEF m
    <3>4. ElemKids(m) \subseteq S BY <2>2, <3>3, LowAre
    <3>. QED BY <3>1, <3>4 DEF m
  <2>3. 0 \in T BY <2>2
  <2>4. ASSUME NEW d \in Nat, d \in T PROVE d + 1 \in T
    <3>1. d + 1 \in Nat /\ (d + 1) - 1 = d /\ d + 1 # 0 OBVIOUS
    <3>. QED BY <2>2, <2>4, <3>1
  <2>5. T = Nat
    <3>1. T \in SUBSET Nat OBVIOUS
    <3>. HIDE DEF T
    <3>. QED BY <2>3, <2>4, <3>1, FromZeroOn
  <2>. QED BY <2>5, LowAre
<1>16. CASE step \notin {"kids", "heads", "items", "lists", "contents", "headers", "regularity"}
  <2>1. \A n \in Nodes : Rewritten(n, step) = n BY <1>16 DEF Rewritten, Rekidded
  <2>. QED BY <1>5, <1>6, <2>1
<1>. QED BY <1>10, <1>11, <1>12, <1>13, <1>14, <1>15, <1>16

LEMMA StepsGrounded ==
  ASSUME Heights = Nat, NEW step
  PROVE  LET G == [n \in Nodes |-> Rewritten(n, step)]
         IN Grounded(G) /\ \A n \in Nodes : G[n] = Rewritten(n, step)
<1>. DEFINE G == [n \in Nodes |-> Rewritten(n, step)]
<1>1. G \in [Nodes -> Nodes] /\ \A n \in Nodes : G[n] = Rewritten(n, step)
  BY RewrittenIs
<1>. HIDE DEF G
<1>2. ASSUME NEW S \in SUBSET Nodes, \A x \in Nodes : ElemKids(G[x]) \subseteq S => x \in S
      PROVE  S = Nodes
  BY <1>1, <1>2, StepsEnd
<1>3. Grounded(G) BY <1>1, <1>2 DEF Grounded
<1>. QED BY <1>1, <1>3 DEF G

-----------------------------------------------------------------------------
(* Readings with the same content, in whatever order.                      *)

LEMMA AlikeIs ==
  /\ \A a : Alike(a, a)
  /\ \A a, b : Alike(a, b) => Alike(b, a)
  /\ \A a, b, c : Alike(a, b) /\ Alike(b, c) => Alike(a, c)
BY DEF Alike

LEMMA ToSetAdds ==
  ASSUME NEW S, NEW a \in Seq(S), NEW b \in Seq(S)
  PROVE  Len(a \o b) = Len(a) + Len(b) /\ ToSet(a \o b) = ToSet(a) \cup ToSet(b)
<1>. DEFINE c == a \o b
<1>1. /\ c \in Seq(S) /\ Len(c) = Len(a) + Len(b)
      /\ \A i \in 1..(Len(a) + Len(b)) : c[i] = IF i <= Len(a) THEN a[i] ELSE b[i - Len(a)]
  BY ConcatProperties
<1>. HIDE DEF c
<1>. DEFINE l == Len(a)
            m == Len(b)
<1>2. /\ l \in Nat /\ m \in Nat /\ DOMAIN a = 1..l /\ DOMAIN b = 1..m /\ DOMAIN c = 1..(l + m)
      /\ \A i \in 1..(l + m) : c[i] = IF i <= l THEN a[i] ELSE b[i - l]
  BY <1>1
<1>. HIDE DEF l, m
<1>3. ASSUME NEW x \in ToSet(c) PROVE x \in ToSet(a) \cup ToSet(b)
  <2>1. PICK i \in 1..(l + m) : c[i] = x BY <1>2, <1>3 DEF ToSet
  <2>2. CASE i <= l
    <3>1. i \in 1..l /\ x = a[i] BY <1>2, <2>1, <2>2
    <3>. QED BY <1>2, <3>1 DEF ToSet
  <2>3. CASE ~(i <= l)
    <3>1. i - l \in 1..m /\ x = b[i - l] BY <1>2, <2>1, <2>3
    <3>. QED BY <1>2, <3>1 DEF ToSet
  <2>. QED BY <2>2, <2>3
<1>4. ASSUME NEW x \in ToSet(a) PROVE x \in ToSet(c)
  <2>1. PICK i \in 1..l : a[i] = x BY <1>2, <1>4 DEF ToSet
  <2>2. i \in 1..(l + m) /\ i <= l BY <1>2
  <2>3. c[i] = x BY <1>2, <2>1, <2>2
  <2>. QED BY <1>2, <2>2, <2>3 DEF ToSet
<1>5. ASSUME NEW x \in ToSet(b) PROVE x \in ToSet(c)
  <2>1. PICK i \in 1..m : b[i] = x BY <1>2, <1>5 DEF ToSet
  <2>2. l + i \in 1..(l + m) /\ ~(l + i <= l) /\ (l + i) - l = i BY <1>2
  <2>3. c[l + i] = x BY <1>2, <2>1, <2>2
  <2>. QED BY <1>2, <2>2, <2>3 DEF ToSet
<1>. QED BY <1>1, <1>3, <1>4, <1>5 DEF c

LEMMA AlikeAdds ==
  ASSUME NEW a \in Seq(Nat), NEW b \in Seq(Nat), NEW c \in Seq(Nat), NEW d \in Seq(Nat),
         Alike(a, b), Alike(c, d)
  PROVE  Alike(a \o c, b \o d) /\ Alike(a \o c, d \o b)
<1>1. /\ Len(a \o c) = Len(a) + Len(c) /\ ToSet(a \o c) = ToSet(a) \cup ToSet(c)
      /\ Len(b \o d) = Len(b) + Len(d) /\ ToSet(b \o d) = ToSet(b) \cup ToSet(d)
      /\ Len(d \o b) = Len(d) + Len(b) /\ ToSet(d \o b) = ToSet(d) \cup ToSet(b)
  BY ToSetAdds
<1>2. Len(b) + Len(d) = Len(d) + Len(b) OBVIOUS
<1>. QED BY <1>1, <1>2, Zenon DEF Alike

\* Sequences that are alike, one by one, are alike together.
LEMMA AlikeFlat ==
  ASSUME NEW f \in Seq(Seq(Nat)), NEW g \in Seq(Seq(Nat)), Len(f) = Len(g),
         \A i \in 1..Len(f) : Alike(f[i], g[i])
  PROVE  Alike(FlattenSeq(f), FlattenSeq(g))
<1>. DEFINE n == Len(f)
<1>1. PICK a : DOMAIN a = 0..n /\ Adds(a, f) BY SomethingAdds
<1>2. PICK b : DOMAIN b = 0..n /\ Adds(b, g) BY SomethingAdds
<1>3. FlattenSeq(f) = a[n] /\ FlattenSeq(g) = b[n] BY <1>1, <1>2, FlattenAdds
<1>4. \A i \in 0..n : a[i] \in Seq(Nat) /\ b[i] \in Seq(Nat)
  BY <1>1, <1>2, JoinedSoFar
<1>5. /\ n \in Nat /\ a[0] = <<>> /\ b[0] = <<>>
      /\ \A i \in 1..n : a[i] = a[i - 1] \o f[i] /\ b[i] = b[i - 1] \o g[i]
  <2>1. a[0] = <<>> /\ \A i \in 1..n : a[i] = a[i - 1] \o f[i] BY <1>1 DEF Adds
  <2>2. b[0] = <<>> /\ \A i \in 1..n : b[i] = b[i - 1] \o g[i] BY <1>2 DEF Adds
  <2>3. n \in Nat OBVIOUS
  <2>. HIDE DEF n
  <2>. QED BY <2>1, <2>2, <2>3
<1>6. \A i \in 1..n : f[i] \in Seq(Nat) /\ g[i] \in Seq(Nat)
  <2>. DEFINE C == Seq(Nat)
  <2>1. f \in Seq(C) /\ g \in Seq(C) OBVIOUS
  <2>. HIDE DEF C
  <2>2. \A i \in 1..n : f[i] \in C /\ g[i] \in C BY <2>1
  <2>. QED BY <2>2 DEF C
<1>7. \A i \in 1..n : Alike(f[i], g[i]) OBVIOUS
<1>. HIDE DEF n
<1>. DEFINE T == {m \in Nat : m <= n => Alike(a[m], b[m])}
<1>8. 0 \in T BY <1>5, AlikeIs
<1>9. ASSUME NEW m \in Nat, m \in T PROVE m + 1 \in T
  <2>1. SUFFICES ASSUME m + 1 <= n PROVE Alike(a[m + 1], b[m + 1]) OBVIOUS
  <2>. DEFINE i == m + 1
  <2>2. i \in 1..n /\ i - 1 = m /\ m \in 0..n /\ m <= n BY <1>5, <2>1
  <2>. HIDE DEF i
  <2>3. a[i] = a[m] \o f[i] /\ b[i] = b[m] \o g[i] BY <1>5, <2>2
  <2>4. /\ a[m] \in Seq(Nat) /\ b[m] \in Seq(Nat) /\ f[i] \in Seq(Nat) /\ g[i] \in Seq(Nat)
        /\ Alike(f[i], g[i])
    BY <1>4, <1>6, <1>7, <2>2
  <2>5. Alike(a[m], b[m]) BY <1>9, <2>2
  <2>. QED BY <2>3, <2>4, <2>5, AlikeAdds DEF i
<1>10. T = Nat
  <2>1. T \in SUBSET Nat OBVIOUS
  <2>. HIDE DEF T
  <2>. QED BY <1>8, <1>9, <2>1, FromZeroOn
<1>11. Alike(a[n], b[n]) BY <1>5, <1>10
<1>. QED BY <1>3, <1>11

LEMMA TakingOut ==
  ASSUME NEW f \in Seq(Seq(Nat)), NEW j \in 0..Len(f)
  PROVE  /\ At(f, j) \in Seq(Nat)
         /\ TakenOut(f, j) \in Seq(Seq(Nat)) /\ Len(TakenOut(f, j)) = Len(f)
         /\ FlattenSeq(TakenOut(f, j)) \in Seq(Nat)
         /\ Alike(At(f, j) \o FlattenSeq(TakenOut(f, j)), FlattenSeq(f))
<1>. DEFINE C == Seq(Nat)
            n == Len(f)
            g == TakenOut(f, j)
            x == At(f, j)
<1>1. n \in Nat /\ DOMAIN f = 1..n /\ (\A i \in 1..n : f[i] \in C) /\ <<>> \in C
  <2>1. f \in Seq(C) OBVIOUS
  <2>2. <<>> \in C OBVIOUS
  <2>. HIDE DEF C
  <2>. QED BY <2>1, <2>2
<1>2. x \in C /\ (j # 0 => x = f[j]) /\ (j = 0 => x = <<>>) BY <1>1 DEF At
<1>3. \A i \in 1..n : g[i] = IF i = j THEN <<>> ELSE f[i] BY <1>1 DEF TakenOut
<1>4. g \in Seq(C) /\ Len(g) = n
  <2>. HIDE DEF C, n
  <2>1. g \in [1..n -> C] BY <1>1 DEF TakenOut
  <2>. QED BY <1>1, <2>1, SeqOfFunction
<1>5. FlattenSeq(g) \in C
  <2>1. g \in Seq(Seq(Nat)) BY <1>4
  <2>. HIDE DEF g
  <2>. QED BY <2>1, FlattenType
<1>. HIDE DEF g, x
<1>6. PICK a : DOMAIN a = 0..n /\ Adds(a, f) BY SomethingAdds
<1>7. PICK b : DOMAIN b = 0..n /\ Adds(b, g) BY <1>4, SomethingAdds
<1>8. FlattenSeq(f) = a[n] /\ FlattenSeq(g) = b[n]
  BY <1>4, <1>6, <1>7, FlattenAdds
<1>9. \A i \in 0..n : a[i] \in C /\ b[i] \in C BY <1>4, <1>6, <1>7, JoinedSoFar
<1>10. /\ a[0] = <<>> /\ b[0] = <<>>
       /\ \A i \in 1..n : a[i] = a[i - 1] \o f[i] /\ b[i] = b[i - 1] \o g[i]
  BY <1>4, <1>6, <1>7 DEF Adds
<1>11. n = Len(f) /\ j \in 0..n OBVIOUS
<1>. HIDE DEF n
<1>12. ASSUME NEW s \in C PROVE s \o <<>> = s /\ <<>> \o s = s BY ConcatEmptySeq
<1>. DEFINE Q(m) == /\ m < j => a[m] = b[m]
                    /\ m >= j => Alike(x \o b[m], a[m])
            T == {m \in Nat : m <= n => Q(m)}
<1>13. 0 \in T
  <2>1. ASSUME j = 0 PROVE Alike(x \o b[0], a[0])
    BY <1>1, <1>2, <1>10, <1>12, <2>1, AlikeIs
  <2>2. 0 >= j => j = 0 BY <1>11
  <2>. QED BY <1>10, <2>1, <2>2
<1>14. ASSUME NEW m \in Nat, m \in T PROVE m + 1 \in T
  <2>1. SUFFICES ASSUME m + 1 <= n
                 PROVE  /\ m + 1 < j => a[m + 1] = b[m + 1]
                        /\ m + 1 >= j => Alike(x \o b[m + 1], a[m + 1])
    OBVIOUS
  <2>. DEFINE i == m + 1
  <2>2. i \in 1..n /\ i - 1 = m /\ m \in 0..n /\ m <= n /\ i \in Nat
    BY <1>1, <2>1
  <2>3. i = m + 1 OBVIOUS
  <2>. HIDE DEF i
  <2>4. /\ a[i] = a[m] \o f[i] /\ b[i] = b[m] \o g[i] /\ a[m] \in C /\ b[m] \in C /\ f[i] \in C
        /\ a[i] \in C
        /\ g[i] = IF i = j THEN <<>> ELSE f[i]
    <3>1. i \in 0..n BY <2>2
    <3>. HIDE DEF C
    <3>. QED BY <1>1, <1>3, <1>9, <1>10, <2>2, <3>1
  <2>5. /\ m < j => a[m] = b[m]
        /\ m >= j => Alike(x \o b[m], a[m])
    <3>1. Q(m)
      <4>. HIDE DEF Q
      <4>. QED BY <1>14, <2>2
    <3>. QED BY <3>1
  <2>6. CASE i < j
    <3>1. m < j /\ i # j /\ ~(i >= j) BY <1>11, <2>2, <2>3, <2>6
    <3>. QED BY <2>3, <2>4, <2>5, <3>1
  <2>7. CASE i = j
    <3>1. m < j /\ ~(i < j) /\ j # 0 BY <1>11, <2>2, <2>3, <2>7
    <3>2. b[i] = a[m] /\ x = f[i]
      <4>1. b[m] \o <<>> = b[m] BY <1>12, <2>4
      <4>. QED BY <1>2, <2>4, <2>5, <2>7, <3>1, <4>1
    <3>. DEFINE u == a[m]
    <3>3. u \in Seq(Nat) /\ x \in Seq(Nat) BY <1>2, <2>4
    <3>. HIDE DEF u
    <3>4. Alike(u, u) /\ Alike(x, x) BY AlikeIs
    <3>5. Alike(x \o u, u \o x) BY <3>3, <3>4, AlikeAdds
    <3>. QED BY <2>3, <2>4, <3>1, <3>2, <3>5 DEF u
  <2>8. CASE i > j
    <3>1. m >= j /\ i # j /\ ~(i < j) BY <1>11, <2>2, <2>3, <2>8
    <3>. DEFINE u == a[m]
                v == b[m]
                w == f[i]
    <3>2. u \in Seq(Nat) /\ v \in Seq(Nat) /\ w \in Seq(Nat) /\ x \in Seq(Nat)
      BY <1>2, <2>4
    <3>3. Alike(x \o v, u) /\ b[i] = v \o w /\ a[i] = u \o w BY <2>4, <2>5, <3>1
    <3>. HIDE DEF u, v, w
    <3>4. x \o v \in Seq(Nat) BY <3>2
    <3>. DEFINE p == x \o v
    <3>5. Alike(p \o w, u \o w)
      <4>1. p \in Seq(Nat) /\ Alike(p, u) /\ Alike(w, w) BY <3>3, <3>4, AlikeIs
      <4>. HIDE DEF p
      <4>. QED BY <3>2, <4>1, AlikeAdds
    <3>6. (x \o v) \o w = x \o (v \o w) BY <3>2, OneAfterTheOther
    <3>. QED BY <2>3, <3>1, <3>3, <3>5, <3>6
  <2>9. i < j \/ i = j \/ i > j BY <1>11, <2>2
  <2>. QED BY <2>6, <2>7, <2>8, <2>9
<1>15. T = Nat
  <2>1. T \in SUBSET Nat OBVIOUS
  <2>. HIDE DEF T
  <2>. QED BY <1>13, <1>14, <2>1, FromZeroOn
<1>16. Alike(x \o b[n], a[n])
  <2>1. n <= n /\ n >= j BY <1>1, <1>11
  <2>. QED BY <1>1, <1>15, <2>1
<1>. QED BY <1>2, <1>4, <1>5, <1>8, <1>11, <1>16 DEF g, x

\* What kids put together say, piece by piece.
LEMMA SaidByPieces ==
  ASSUME NEW R, IsReading(R), NEW ss \in Seq(Seq(Trees))
  PROVE  LET said == [i \in DOMAIN ss |-> Aloud(R, ss[i])]
         IN said \in Seq(Seq(Nat)) /\ Len(said) = Len(ss) /\ Aloud(R, FlattenSeq(ss)) = FlattenSeq(said)
<1>. DEFINE n == Len(ss)
            D == Seq(Trees)
            C == Seq(Nat)
            said == [i \in DOMAIN ss |-> Aloud(R, ss[i])]
<1>1. n \in Nat /\ DOMAIN ss = 1..n /\ \A i \in 1..n : ss[i] \in D
  <2>1. ss \in Seq(D) OBVIOUS
  <2>. HIDE DEF D
  <2>. QED BY <2>1
<1>2. \A k \in D : Aloud(R, k) \in C BY SaidType
<1>3. said \in Seq(C) /\ Len(said) = n /\ \A i \in 1..n : said[i] = Aloud(R, ss[i])
  <2>. HIDE DEF D, C, n
  <2>1. said \in [1..n -> C] /\ \A i \in 1..n : said[i] = Aloud(R, ss[i])
    BY <1>1, <1>2
  <2>. HIDE DEF said
  <2>. QED BY <1>1, <2>1, SeqOfFunction
<1>. HIDE DEF said
<1>4. PICK a : DOMAIN a = 0..n /\ Adds(a, ss) BY SomethingAdds
<1>5. FlattenSeq(ss) = a[n] BY <1>4, FlattenAdds
<1>6. \A i \in 0..n : a[i] \in D BY <1>4, JoinedSoFar
<1>7. a[0] = <<>> /\ \A i \in 1..n : a[i] = a[i - 1] \o ss[i] BY <1>4 DEF Adds
<1>. DEFINE b == [i \in 0..n |-> Aloud(R, a[i])]
<1>. HIDE DEF n
<1>8. b[0] = <<>> /\ b[n] = Aloud(R, a[n]) BY <1>1, <1>7, SaidByNone
<1>9. ASSUME NEW i \in 1..n PROVE b[i] = b[i - 1] \o said[i]
  <2>1. i \in 0..n /\ i - 1 \in 0..n BY <1>1
  <2>. DEFINE u == a[i - 1]
              v == ss[i]
  <2>2. u \in Seq(Trees) /\ v \in Seq(Trees) /\ a[i] = u \o v
    BY <1>1, <1>6, <1>7, <2>1
  <2>3. b[i] = Aloud(R, a[i]) /\ b[i - 1] = Aloud(R, u) /\ said[i] = Aloud(R, v)
    BY <1>3, <2>1
  <2>. HIDE DEF u, v, b
  <2>4. Aloud(R, u \o v) = Aloud(R, u) \o Aloud(R, v) BY <2>2, SaidOnAndOn
  <2>. QED BY <2>2, <2>3, <2>4
<1>. HIDE DEF b
<1>10. Adds(b, said) BY <1>3, <1>8, <1>9 DEF Adds
<1>11. FlattenSeq(said) = b[n] BY <1>3, <1>10, FlattenAdds
<1>. QED BY <1>3, <1>5, <1>8, <1>11 DEF said, n

\* Of any item the content stays.
LEMMA ItemKidsAlike ==
  ASSUME NEW R, IsReading(R), NEW n \in Nodes
  PROVE  Alike(R[ItemKids(n)], R[n])
<1>. DEFINE k == n.k
            m == Len(k)
            lbl == FirstOf(k, "Lbl")
            body == FirstOf(k, "LBody")
            at(i) == IF i = 0 THEN <<>> ELSE <<k[i]>>
            ss == [i \in DOMAIN k |-> IF i \in {lbl, body} THEN <<>> ELSE at(i)]
            extras == FlattenSeq(ss)
            old == IF body = 0 THEN Elem("LBody", <<>>) ELSE k[body]
            all == old.k \o extras
            item == SetKids(old, all)
            new == at(lbl) \o <<item>>
            f == AllSaid(R, k)
            g == TakenOut(f, lbl)
            h == TakenOut(g, body)
<1>1. k \in Seq(Trees) /\ m \in Nat /\ DOMAIN k = 1..m /\ R[n] = FlattenSeq(f)
  BY TreeKinds, SaidType DEF Aloud
<1>2. ItemKids(n) = IF extras = <<>> THEN n ELSE SetKids(n, new)
  BY DEF ItemKids, FirstOf
<1>3. m = Len(k) OBVIOUS
<1>. HIDE DEF k
<1>4. /\ lbl \in 0..m /\ (lbl # 0 => Type(k[lbl]) = "Lbl")
      /\ body \in 0..m /\ (body # 0 => Type(k[body]) = "LBody")
  BY <1>1, <1>3, FirstOfType
<1>5. /\ f \in Seq(Seq(Nat)) /\ Len(f) = m /\ DOMAIN f = 1..m
      /\ \A i \in 1..m : f[i] = Said(R, k[i]) /\ f[i] \in Seq(Nat)
  BY <1>1, <1>3, SaidType DEF AllSaid
<1>. HIDE DEF lbl, body, m, f
<1>6. /\ At(f, lbl) \in Seq(Nat) /\ g \in Seq(Seq(Nat)) /\ Len(g) = m /\ DOMAIN g = 1..m
      /\ FlattenSeq(g) \in Seq(Nat)
      /\ Alike(At(f, lbl) \o FlattenSeq(g), FlattenSeq(f))
  BY <1>4, <1>5, TakingOut DEF TakenOut
<1>7. \A i \in 1..m : g[i] = IF i = lbl THEN <<>> ELSE f[i] BY <1>5 DEF TakenOut
<1>. HIDE DEF g
<1>8. /\ At(g, body) \in Seq(Nat) /\ h \in Seq(Seq(Nat)) /\ Len(h) = m /\ DOMAIN h = 1..m
      /\ FlattenSeq(h) \in Seq(Nat)
      /\ Alike(At(g, body) \o FlattenSeq(h), FlattenSeq(g))
  BY <1>4, <1>6, TakingOut DEF TakenOut
<1>9. \A i \in 1..m : h[i] = IF i = body THEN <<>> ELSE g[i]
  BY <1>6 DEF TakenOut
<1>. HIDE DEF h
<1>10. \A i \in 0..m : at(i) \in Seq(Trees) /\ Aloud(R, at(i)) = At(f, i)
  <2>1. ASSUME NEW i \in 1..m PROVE <<k[i]>> \in Seq(Trees) /\ Aloud(R, <<k[i]>>) = f[i]
    <3>1. k[i] \in Trees BY <1>1, <1>3
    <3>. QED BY <1>5, <3>1, SaidAlone
  <2>2. <<>> \in Seq(Trees) /\ Aloud(R, <<>>) = <<>> BY SaidByNone
  <2>3. \A i \in 0..m : i # 0 => i \in 1..m BY <1>1
  <2>. QED BY <2>1, <2>2, <2>3 DEF At
<1>11. /\ ss \in Seq(Seq(Trees)) /\ Len(ss) = m /\ DOMAIN ss = 1..m
       /\ \A i \in 1..m : Aloud(R, ss[i]) = h[i]
  <2>. DEFINE C == Seq(Trees)
  <2>1. \A i \in 1..m : i \in 0..m /\ i # 0 BY <1>1
  <2>2. <<>> \in C /\ Aloud(R, <<>>) = <<>> BY SaidByNone
  <2>3. \A i \in 1..m : at(i) \in C /\ Aloud(R, at(i)) = f[i]
    BY <1>10, <2>1 DEF At
  <2>. HIDE DEF at, C
  <2>4. ss \in [1..m -> C] BY <1>1, <2>2, <2>3
  <2>5. \A i \in 1..m : Aloud(R, ss[i]) = h[i] BY <1>1, <1>7, <1>9, <2>2, <2>3
  <2>. HIDE DEF ss
  <2>6. ss \in Seq(C) /\ Len(ss) = m BY <1>1, <2>4, SeqOfFunction
  <2>. QED BY <2>4, <2>5, <2>6 DEF C
<1>. HIDE DEF ss
<1>12. extras \in Seq(Trees) /\ Aloud(R, extras) = FlattenSeq(h)
  <2>. DEFINE said == [i \in DOMAIN ss |-> Aloud(R, ss[i])]
  <2>1. said \in Seq(Seq(Nat)) /\ Len(said) = m /\ Aloud(R, extras) = FlattenSeq(said)
    BY <1>11, SaidByPieces
  <2>2. said = h
    <3>1. said = [i \in 1..m |-> h[i]] BY <1>11
    <3>2. h = [i \in 1..m |-> h[i]] BY <1>8
    <3>. QED BY <3>1, <3>2
  <2>. QED BY <1>11, <2>1, <2>2, FlattenType
<1>. HIDE DEF extras
<1>13. old \in Nodes /\ old.k \in Seq(Trees) /\ Aloud(R, old.k) = At(g, body)
  <2>1. CASE body = 0
    <3>. DEFINE none == <<>>
    <3>1. none \in Seq(Trees) /\ "LBody" \in Kinds /\ old = Elem("LBody", none) /\ Aloud(R, none) = <<>>
      BY <2>1, SaidByNone DEF Kinds
    <3>2. At(g, body) = <<>> BY <2>1 DEF At
    <3>. HIDE DEF none, old
    <3>3. Elem("LBody", none) \in Nodes /\ Elem("LBody", none).k = none
      BY <3>1, ReadingExists, NewElements
    <3>. QED BY <3>1, <3>2, <3>3
  <2>2. CASE body # 0
    <3>1. old = k[body] /\ body \in 1..m /\ Type(k[body]) = "LBody" /\ body # lbl
      BY <1>1, <1>4, <2>2
    <3>2. At(g, body) = f[body] BY <1>7, <2>2, <3>1 DEF At
    <3>. HIDE DEF old
    <3>3. old \in Trees /\ Type(old) = "LBody" BY <1>1, <1>3, <3>1
    <3>4. old \in Nodes BY <3>3, TreeKinds
    <3>5. old.k \in Seq(Trees) /\ Said(R, old) = Aloud(R, old.k)
      BY <3>4, TreeKinds, SaidType
    <3>. QED BY <1>5, <3>1, <3>2, <3>4, <3>5
  <2>. QED BY <2>1, <2>2
<1>. HIDE DEF old
<1>. DEFINE a == At(f, lbl)
            b == At(g, body)
            c == FlattenSeq(h)
            last == <<item>>
            first == at(lbl)
<1>14. all \in Seq(Trees) /\ Aloud(R, all) = b \o c
  <2>. DEFINE ok == old.k
  <2>1. ok \in Seq(Trees) /\ Aloud(R, ok) = b BY <1>13
  <2>. HIDE DEF ok, b, c
  <2>2. ok \o extras \in Seq(Trees) /\ Aloud(R, ok \o extras) = Aloud(R, ok) \o Aloud(R, extras)
    BY <1>12, <2>1, SaidOnAndOn
  <2>. QED BY <1>12, <2>1, <2>2 DEF ok, c
<1>. HIDE DEF all
<1>15. last \in Seq(Trees) /\ Aloud(R, last) = b \o c
  <2>1. item \in Nodes /\ R[item] = Aloud(R, all)
    <3>1. old \in Nodes /\ all \in Seq(Trees) BY <1>13, <1>14
    <3>. SUFFICES SetKids(old, all) \in Nodes /\ R[SetKids(old, all)] = Aloud(R, all)
      OBVIOUS
    <3>. QED BY <3>1, NewElements, ZenonT(30)
  <2>. HIDE DEF item
  <2>2. item \in Trees /\ Said(R, item) = Aloud(R, all)
    BY <2>1, TreeKinds, SaidType
  <2>. QED BY <1>14, <2>2, SaidAlone
<1>16. first \in Seq(Trees) /\ Aloud(R, first) = a BY <1>4, <1>10
<1>. HIDE DEF last, first, a, b, c
<1>17. first \o last \in Seq(Trees) /\ Aloud(R, first \o last) = a \o (b \o c)
  <2>1. first \in Seq(Trees) /\ last \in Seq(Trees) BY <1>15, <1>16
  <2>2. /\ first \o last \in Seq(Trees)
        /\ Aloud(R, first \o last) = Aloud(R, first) \o Aloud(R, last)
    BY <2>1, SaidOnAndOn
  <2>. QED BY <1>15, <1>16, <2>2
<1>18. /\ a \in Seq(Nat) /\ b \o c \in Seq(Nat)
       /\ Alike(b \o c, FlattenSeq(g)) /\ Alike(a \o FlattenSeq(g), R[n]) /\ Alike(a, a)
  <2>1. b \in Seq(Nat) /\ c \in Seq(Nat) BY <1>8 DEF b, c
  <2>2. b \o c \in Seq(Nat)
    <3>. HIDE DEF b, c
    <3>. QED BY <2>1
  <2>. QED BY <1>1, <1>6, <1>8, <2>2, AlikeIs DEF a, b, c
<1>19. Alike(a \o (b \o c), R[n])
  <2>. DEFINE p == b \o c
              q == FlattenSeq(g)
  <2>1. a \in Seq(Nat) /\ p \in Seq(Nat) /\ q \in Seq(Nat) /\ Alike(p, q) /\ Alike(a, a)
    BY <1>6, <1>18
  <2>2. Alike(a \o q, R[n]) BY <1>18
  <2>. HIDE DEF p, q
  <2>3. Alike(a \o p, a \o q) BY <2>1, AlikeAdds
  <2>4. Alike(a \o p, R[n]) BY <2>2, <2>3, AlikeIs
  <2>. QED BY <2>4 DEF p
<1>20. new = first \o last BY DEF first, last
<1>. HIDE DEF new
<1>21. R[SetKids(n, new)] = a \o (b \o c)
  <2>1. new \in Seq(Trees) BY <1>17, <1>20
  <2>2. R[SetKids(n, new)] = Aloud(R, new) BY <2>1, NewElements, ZenonT(30)
  <2>. QED BY <1>17, <1>20, <2>2
<1>22. Alike(R[n], R[n]) BY AlikeIs
<1>. QED BY <1>2, <1>19, <1>21, <1>22

\* What the steps make of an element reads like the element.
LEMMA StepSaid ==
  ASSUME Heights = Nat, NEW R, IsReading(R), NEW n \in Nodes, NEW step
  PROVE  /\ Alike(R[Rewritten(n, step)], R[n])
         /\ step = "items" /\ n.s = "LI" /\ Orderly(n.k) => R[Rewritten(n, step)] = R[n]
         /\ ~(step = "items" /\ n.s = "LI") => R[Rewritten(n, step)] = R[n]
<1>1. CASE step \in {"headers", "regularity"}
  BY <1>1, LikeSteps, AlikeIs DEF Like
<1>2. CASE step \notin {"headers", "regularity"}
  <2>1. Rewritten(n, step) = Rekidded(n, step) BY <1>2, RewrittenIs
  <2>2. /\ R[TableKids(n)] = R[n] /\ R[RowKids(n)] = R[n] /\ R[GroupedSections(n)] = R[n]
        /\ R[PromotedHead(n)] = R[n] /\ R[ListKids(n)] = R[n] /\ R[ContentsKids(n)] = R[n]
    BY TableKidsSaid, RowKidsSaid, GroupedSectionsSaid, PromotedHeadSaid, ListKidsSaid,
       ContentsKidsSaid
  <2>3. CASE step = "items" /\ n.s = "LI"
    <3>1. Rekidded(n, step) = ItemKids(n) BY <2>3 DEF Rekidded
    <3>2. Orderly(n.k) => R[ItemKids(n)] = R[n]
      BY OrderlyIsNotLate, ItemKidsSaid
    <3>. QED BY <2>1, <2>3, <3>1, <3>2, ItemKidsAlike
  <2>4. CASE ~(step = "items" /\ n.s = "LI")
    <3>1. R[Rekidded(n, step)] = R[n] BY <2>2, <2>4 DEF Rekidded
    <3>. QED BY <2>1, <2>4, <3>1, AlikeIs
  <2>. QED BY <2>3, <2>4
<1>. QED BY <1>1, <1>2

-----------------------------------------------------------------------------
(* The steps keep items in order.                                          *)

LEMMA TamedIs ==
  ASSUME Heights = Nat, NEW how
  PROVE  /\ Tamed(how) \subseteq Trees
         /\ \A n \in Nodes : n \in Tamed(how) <=> n \in Tame(how)
         /\ \A n \in Nodes : n.k \in Seq(Tamed(how)) <=> ElemKids(n) \subseteq Tame(how)
         /\ \A n \in Nodes : n \in Tamed(how) <=> /\ n.s = "LI" => Fits(how, n.k)
                                                  /\ n.k \in Seq(Tamed(how))
<1>1. /\ Leaves \subseteq Trees /\ (\A n \in Nodes : n \notin Leaves)
      /\ Tame(how) \subseteq Nodes /\ Nodes \subseteq Trees
      /\ \A x \in Tamed(how) : IsElem(x) => x \in Tame(how)
  <2>1. Leaves \subseteq Trees BY TreesAre
  <2>2. \A x \in Leaves : ~IsElem(x) BY DEF Leaves, IsElem
  <2>. QED BY <2>1, <2>2, TameAre, TreeKinds DEF Tamed
<1>2. Tamed(how) \subseteq Trees /\ \A n \in Nodes : n \in Tamed(how) <=> n \in Tame(how)
  BY <1>1 DEF Tamed
<1>3. ASSUME NEW n \in Nodes
      PROVE  n.k \in Seq(Tamed(how)) <=> ElemKids(n) \subseteq Tame(how)
  <2>. DEFINE k == n.k
  <2>1. k \in Seq(Trees) /\ DOMAIN k = 1..Len(k) BY TreeKinds
  <2>2. ASSUME k \in Seq(Tamed(how)) PROVE ElemKids(n) \subseteq Tame(how)
    <3>1. \A i \in DOMAIN k : k[i] \in Tamed(how)
      <4>. HIDE DEF k
      <4>. QED BY <2>2
    <3>. QED BY <1>1, <3>1, ElemKidsAre DEF ElemKids
  <2>3. ASSUME ElemKids(n) \subseteq Tame(how) PROVE k \in Seq(Tamed(how))
    <3>1. ASSUME NEW i \in DOMAIN k PROVE k[i] \in Tamed(how)
      <4>1. k[i] \in Trees BY KidsAre
      <4>2. IsElem(k[i]) => k[i] \in Tame(how) BY <2>3, ElemKidsAre
      <4>. QED BY <4>1, <4>2, TreeKinds DEF Tamed
    <3>. HIDE DEF k
    <3>. QED BY <2>1, <3>1
  <2>. QED BY <2>2, <2>3
<1>. QED BY <1>2, <1>3, TameAre

LEMMA TamedIsMade ==
  ASSUME Heights = Nat, NEW how
  PROVE  /\ Heritage(Tamed(how)) /\ AllMade(Tamed(how))
         /\ \A s : s # "LI" => Makes(Tamed(how), s)
<1>. DEFINE K == Tamed(how)
<1>1. /\ K \subseteq Trees
      /\ \A n \in Nodes : n \in K <=> /\ n.s = "LI" => Fits(how, n.k)
                                      /\ n.k \in Seq(K)
  BY TamedIs
<1>. HIDE DEF K
<1>2. Heritage(K) /\ \A s : s # "LI" => Makes(K, s) BY <1>1 DEF Heritage, Makes
<1>3. ASSUME NEW x \in K PROVE Only("LI", Only("LBody", x)) \in K
  <2>. DEFINE b == Only("LBody", x)
              o == Only("LI", b)
              k == <<b>>
  <2>1. {"LI", "LBody"} \subseteq Kinds BY DEF Kinds
  <2>2. b \in K /\ b \in Nodes /\ b.s = "LBody"
    BY <1>1, <1>2, <2>1, MadeAmong, NewAmong
  <2>. HIDE DEF b
  <2>3. o \in Nodes /\ o.s = "LI" /\ o.k = k /\ k \in Seq(K)
    BY <1>1, <2>1, <2>2, NewAmong
  <2>4. Type(b) = "LBody" /\ DOMAIN k = {1} /\ k[1] = b
    <3>1. DOMAIN k = {1} /\ k[1] = b OBVIOUS
    <3>. QED BY <2>2, <3>1, TreeKinds
  <2>. HIDE DEF k, o
  <2>5. Fits(how, k) BY <2>4 DEF Fits, Neat, Orderly
  <2>. QED BY <1>1, <2>3, <2>5 DEF o, b
<1>4. AllMade(K) BY <1>2, <1>3 DEF AllMade
<1>. QED BY <1>2, <1>4 DEF K

LEMMA NeatIsOrderly ==
  ASSUME Heights = Nat
  PROVE  Tame("neat") \subseteq Tame("orderly")
BY DEF Tame, Fits, Neat

\* The first of what is put together, and the second.
LEMMA FlattenTwo ==
  ASSUME NEW S, NEW ss \in Seq(Seq(S)), NEW x \in S, ss # <<>>, ss[1] = <<x>>
  PROVE  /\ FlattenSeq(ss) \in Seq(S)
         /\ 1 \in DOMAIN FlattenSeq(ss) /\ FlattenSeq(ss)[1] = x
         /\ \A y \in S : Len(ss) >= 2 /\ ss[2] = <<y>>
                           => 2 \in DOMAIN FlattenSeq(ss) /\ FlattenSeq(ss)[2] = y
<1>. DEFINE C == Seq(S)
            t == Tail(ss)
            f == FlattenSeq(t)
<1>1. FlattenSeq(ss) = <<x>> \o f /\ t \in Seq(Seq(S)) /\ f \in Seq(S)
  BY FlattenFirst
<1>2. FlattenSeq(ss) \in Seq(S) BY FlattenType
<1>3. ASSUME NEW r \in Seq(S)
      PROVE  LET g == <<x>> \o r
             IN 1 \in DOMAIN g /\ g[1] = x /\ \A y : r # <<>> /\ r[1] = y => 2 \in DOMAIN g /\ g[2] = y
  <2>. DEFINE a == <<x>>
              g == a \o r
  <2>1. a \in Seq(S) /\ Len(a) = 1 /\ a[1] = x OBVIOUS
  <2>. HIDE DEF a
  <2>2. /\ g \in Seq(S) /\ Len(g) = Len(a) + Len(r)
        /\ \A i \in 1..(Len(a) + Len(r)) : g[i] = IF i <= Len(a) THEN a[i] ELSE r[i - Len(a)]
    BY <2>1, ConcatProperties
  <2>. HIDE DEF g
  <2>3. Len(r) \in Nat /\ (r # <<>> => Len(r) # 0) BY EmptySeq
  <2>4. 1 \in DOMAIN g /\ g[1] = x BY <2>1, <2>2, <2>3
  <2>5. r # <<>> => 2 \in DOMAIN g /\ g[2] = r[1] BY <2>1, <2>2, <2>3
  <2>. QED BY <2>4, <2>5 DEF g, a
<1>4. ASSUME NEW y \in S, Len(ss) >= 2, ss[2] = <<y>> PROVE f # <<>> /\ f[1] = y
  <2>1. t # <<>> /\ t[1] = <<y>>
    <3>1. ss \in Seq(C) OBVIOUS
    <3>. HIDE DEF C
    <3>2. Len(t) = Len(ss) - 1 /\ t[1] = ss[2] /\ Len(ss) \in Nat BY <1>4, <3>1
    <3>3. Len(t) # 0 BY <1>4, <3>2
    <3>. HIDE DEF t
    <3>4. t # <<>> BY <3>3
    <3>. QED BY <1>4, <3>2, <3>4
  <2>. DEFINE u == Tail(t)
              g == FlattenSeq(u)
              b == <<y>>
  <2>. HIDE DEF t
  <2>2. f = b \o g /\ g \in Seq(S) BY <1>1, <2>1, FlattenFirst
  <2>3. b \in Seq(S) /\ Len(b) = 1 /\ b[1] = y OBVIOUS
  <2>. HIDE DEF b, g, f
  <2>4. /\ b \o g \in Seq(S) /\ Len(b \o g) = Len(b) + Len(g)
        /\ \A i \in 1..(Len(b) + Len(g)) :
             (b \o g)[i] = IF i <= Len(b) THEN b[i] ELSE g[i - Len(b)]
    BY <2>2, <2>3, ConcatProperties
  <2>5. f \in Seq(S) /\ Len(f) = 1 + Len(g) /\ Len(g) \in Nat
    BY <2>2, <2>3, <2>4
  <2>6. 1 \in 1..(1 + Len(g)) /\ 1 <= 1 BY <2>5
  <2>7. f[1] = y BY <2>2, <2>3, <2>4, <2>6
  <2>8. f # <<>> BY <2>5
  <2>. QED BY <2>7, <2>8
<1>. HIDE DEF f
<1>5. LET g == <<x>> \o f
      IN 1 \in DOMAIN g /\ g[1] = x /\ \A y : f # <<>> /\ f[1] = y => 2 \in DOMAIN g /\ g[2] = y
  BY <1>1, <1>3
<1>. QED BY <1>1, <1>2, <1>4, <1>5

\* Only the types tell whether kids are in order, and only of labels and bodies.
LEMMA FitsAlike ==
  ASSUME NEW how, NEW j \in Seq(Trees), NEW k \in Seq(Trees), DOMAIN j = DOMAIN k,
         \A i \in DOMAIN k : \/ Type(j[i]) = Type(k[i])
                             \/ /\ Type(j[i]) \notin {"Lbl", "LBody"}
                                /\ Type(k[i]) \notin {"Lbl", "LBody"}
  PROVE  Fits(how, k) => Fits(how, j)
<1>1. ASSUME NEW i \in DOMAIN k PROVE 1 \in DOMAIN k /\ (2 \notin DOMAIN k => DOMAIN k = {1})
  <2>1. DOMAIN k = 1..Len(k) /\ Len(k) \in Nat OBVIOUS
  <2>. QED BY <2>1
<1>2. \A i \in DOMAIN k : \A s \in {"Lbl", "LBody"} : Type(j[i]) = s <=> Type(k[i]) = s
  OBVIOUS
<1>3. Orderly(k) => Orderly(j)
  <2>1. SUFFICES ASSUME Orderly(k), NEW i \in DOMAIN j
                 PROVE  /\ Type(j[i]) = "Lbl" => Type(j[1]) = "Lbl"
                        /\ Type(j[i]) = "LBody" => Type(j[1]) = "LBody" \/ (Type(j[1]) = "Lbl" /\ Type(j[2]) = "LBody")
    BY DEF Orderly
  <2>2. /\ Type(k[i]) = "Lbl" => Type(k[1]) = "Lbl"
        /\ Type(k[i]) = "LBody" => Type(k[1]) = "LBody" \/ (Type(k[1]) = "Lbl" /\ Type(k[2]) = "LBody")
    BY <2>1 DEF Orderly
  <2>3. /\ 1 \in DOMAIN k
        /\ \A s \in {"Lbl", "LBody"} : /\ Type(j[1]) = s <=> Type(k[1]) = s
                                       /\ Type(j[i]) = s <=> Type(k[i]) = s
    BY <1>1, <1>2, <2>1
  <2>4. 2 \in DOMAIN k => (Type(j[2]) = "LBody" <=> Type(k[2]) = "LBody")
    BY <1>2
  <2>5. 2 \notin DOMAIN k => i = 1 BY <1>1, <2>1
  <2>. QED BY <2>2, <2>3, <2>4, <2>5
<1>4. Neat(k) => Neat(j)
  <2>1. SUFFICES ASSUME Neat(k) PROVE Neat(j) OBVIOUS
  <2>2. \A i \in DOMAIN k : Type(k[i]) \in {"Lbl", "LBody"} BY <2>1 DEF Neat
  <2>3. \A i \in DOMAIN k : Type(j[i]) = Type(k[i]) BY <2>2
  <2>. QED BY <1>3, <2>1, <2>3 DEF Neat
<1>. QED BY <1>3, <1>4 DEF Fits

\* Grouping sections leaves the label and the body where they are.
LEMMA GroupedOrderly ==
  ASSUME NEW n \in Nodes, Orderly(n.k)
  PROVE  Orderly(GroupedSections(n).k)
<1>. DEFINE k == n.k
            g == GroupedSections(n)
            j == g.k
            Others(s) == {x \in Trees : Type(x) # s}
<1>1. k \in Seq(Trees) /\ DOMAIN k = 1..Len(k) /\ Len(k) \in Nat BY TreeKinds
<1>2. \A t \in Nodes : t.s = "Table" => t \in Trees /\ Type(t) = "Table"
  BY TreeKinds
<1>3. PICK ss \in Seq(Seq(Trees)) :
        /\ g = n \/ g = SetKids(n, FlattenSeq(ss))
        /\ Len(ss) = Len(k)
        /\ \A i \in DOMAIN k : Type(k[i]) \notin Sections => ss[i] = <<k[i]>>
  <2>1. \A t \in Nodes : t.s = "Table" /\ t.k \in Seq(Trees)
                           /\ (\A i \in DOMAIN t.k : Type(t.k[i]) \in Sections) => t \in Trees
    BY <1>2
  <2>. QED BY <1>1, <2>1, GroupedPieces, ZenonT(30)
\* What is not there does not come.
<1>4. ASSUME NEW s \in {"Lbl", "LBody"}, NEW i \in DOMAIN j, Type(j[i]) = s
      PROVE  \E l \in DOMAIN k : Type(k[l]) = s
  <2>1. SUFFICES ASSUME \A l \in DOMAIN k : Type(k[l]) # s PROVE FALSE OBVIOUS
  <2>. DEFINE K == Others(s)
  <2>2. K \in SUBSET Trees /\ \A t \in Nodes : t.s = "Table" => t \in K BY <1>2
  <2>3. \A l \in DOMAIN k : k[l] \in K
    <3>1. \A l \in DOMAIN k : k[l] \in Trees BY KidsAre
    <3>. QED BY <2>1, <3>1
  <2>4. \A x \in K : Type(x) # s OBVIOUS
  <2>. HIDE DEF K
  <2>5. k \in Seq(K)
    <3>. HIDE DEF k
    <3>. QED BY <1>1, <2>3
  <2>6. \A t \in Nodes : t.s = "Table" /\ t.k \in Seq(K)
                           /\ (\A l \in DOMAIN t.k : Type(t.k[l]) \in Sections) => t \in K
    BY <2>2
  <2>7. Becomes(K, g, n)
    <3>. HIDE DEF g
    <3>. SUFFICES Becomes(K, GroupedSections(n), n) BY DEF g
    <3>. QED BY <2>2, <2>5, <2>6, GroupedAmong, ZenonT(30)
  <2>8. j \in Seq(K) BY <2>7 DEF Becomes
  <2>. HIDE DEF j
  <2>9. j[i] \in K BY <1>4, <2>8
  <2>. QED BY <1>4, <2>4, <2>9
\* What comes first stays first.
<1>5. ASSUME 1 \in DOMAIN k, Type(k[1]) \in {"Lbl", "LBody"}, g # n
      PROVE  /\ Type(j[1]) = Type(k[1])
             /\ 2 \in DOMAIN k /\ Type(k[2]) \in {"Lbl", "LBody"} => Type(j[2]) = Type(k[2])
  <2>. DEFINE new == FlattenSeq(ss)
              x == k[1]
  <2>1. new \in Seq(Trees) BY FlattenType
  <2>2. g = SetKids(n, new) /\ SetKids(n, new).k = new
    <3>. HIDE DEF new
    <3>1. g = SetKids(n, new) BY <1>3, <1>5 DEF new
    <3>2. SetKids(n, new).k = new
      <4>1. Trees \in SUBSET Trees OBVIOUS
      <4>. QED BY <2>1, <4>1, SetAmong
    <3>. QED BY <3>1, <3>2
  <2>3. j = new BY <2>2
  <2>4. x \in Trees /\ ss[1] = <<x>> /\ ss # <<>>
    <3>1. x \in Trees BY <1>5, KidsAre
    <3>2. ss[1] = <<x>> BY <1>3, <1>5 DEF Sections
    <3>3. Len(ss) # 0 BY <1>1, <1>3, <1>5
    <3>. QED BY <3>1, <3>2, <3>3
  <2>. HIDE DEF x
  <2>5. /\ new[1] = x
        /\ \A y \in Trees : Len(ss) >= 2 /\ ss[2] = <<y>> => new[2] = y
    BY <2>4, FlattenTwo
  <2>6. ASSUME 2 \in DOMAIN k, Type(k[2]) \in {"Lbl", "LBody"} PROVE new[2] = k[2]
    <3>1. k[2] \in Trees BY <2>6, KidsAre
    <3>2. ss[2] = <<k[2]>> BY <1>3, <2>6 DEF Sections
    <3>3. Len(ss) >= 2
      <4>. HIDE DEF k
      <4>. QED BY <1>1, <1>3, <2>6
    <3>. QED BY <2>5, <3>1, <3>2, <3>3
  <2>. QED BY <2>3, <2>5, <2>6 DEF x
<1>6. Orderly(k) OBVIOUS
<1>7. CASE g = n BY <1>6, <1>7
<1>8. CASE g # n
  <2>1. ASSUME NEW i \in DOMAIN j
        PROVE  /\ Type(j[i]) = "Lbl" => Type(j[1]) = "Lbl"
               /\ Type(j[i]) = "LBody" => Type(j[1]) = "LBody" \/ (Type(j[1]) = "Lbl" /\ Type(j[2]) = "LBody")
    <3>. HIDE DEF j, k, g
    <3>1. ASSUME Type(j[i]) = "Lbl" PROVE Type(j[1]) = "Lbl"
      <4>1. PICK l \in DOMAIN k : Type(k[l]) = "Lbl" BY <1>4, <2>1, <3>1
      <4>2. Type(k[1]) = "Lbl" /\ 1 \in DOMAIN k BY <1>1, <1>6, <4>1 DEF Orderly
      <4>. QED BY <1>5, <1>8, <4>2
    <3>2. ASSUME Type(j[i]) = "LBody"
          PROVE Type(j[1]) = "LBody" \/ (Type(j[1]) = "Lbl" /\ Type(j[2]) = "LBody")
      <4>1. PICK l \in DOMAIN k : Type(k[l]) = "LBody" BY <1>4, <2>1, <3>2
      <4>2. /\ Type(k[1]) = "LBody" \/ (Type(k[1]) = "Lbl" /\ Type(k[2]) = "LBody")
            /\ 1 \in DOMAIN k
        BY <1>1, <1>6, <4>1 DEF Orderly
      <4>3. Type(k[1]) = "LBody" \/ (Type(k[1]) = "Lbl" /\ Type(k[2]) = "LBody" /\ 2 \in DOMAIN k)
        BY <1>1, <4>1, <4>2
      <4>. QED BY <1>5, <1>8, <4>2, <4>3
    <3>. QED BY <3>1, <3>2
  <2>. QED BY <2>1 DEF Orderly
<1>. QED BY <1>7, <1>8

LEMMA TameSteps ==
  ASSUME Heights = Nat, NEW how \in {"orderly", "neat"}, NEW step, step # "kids" \/ how = "orderly",
         NEW n \in Tame(how)
  PROVE  /\ Rewritten(n, step) \in Nodes /\ Rewritten(n, step).s = n.s
         /\ ElemKids(Rewritten(n, step)) \subseteq Tame(how)
         /\ n.s = "LI" => Fits(After(how, step), Rewritten(n, step).k)
<1>. DEFINE m == Rewritten(n, step)
<1>1. n \in Nodes /\ (n.s = "LI" => Fits(how, n.k)) /\ n.k \in Seq(Tamed(how))
  BY TameAre, TamedIs
<1>2. m \in Nodes /\ m.s = n.s BY <1>1, RewrittenIs
<1>3. CASE step \in {"headers", "regularity"}
  <2>1. PICK R : IsReading(R) BY ReadingExists
  <2>2. m \in Tame(how) BY <1>1, <1>3, <2>1, LikeSteps DEF Like
  <2>3. After(how, step) = how BY <1>3 DEF After
  <2>. QED BY <1>2, <2>2, <2>3, TameAre
<1>4. CASE step \notin {"headers", "regularity"}
  <2>1. m = Rekidded(n, step) BY <1>4, RewrittenIs
  <2>2. Becomes(Tamed(how), Rekidded(n, step), n)
        /\ (step = "items" /\ n.s = "LI" /\ Orderly(n.k) => Neat(Rekidded(n, step).k))
    BY <1>1, TamedIsMade, RekiddedAmong
  <2>3. ElemKids(m) \subseteq Tame(how)
    <3>. HIDE DEF m
    <3>1. m.k \in Seq(Tamed(how)) BY <2>1, <2>2 DEF Becomes
    <3>. QED BY <1>2, <3>1, TamedIs
  <2>4. ASSUME n.s = "LI" PROVE Fits(After(how, step), m.k)
    <3>1. Orderly(n.k) /\ Fits(how, n.k) BY <1>1, <2>4 DEF Fits, Neat
    <3>2. CASE step = "items" BY <2>1, <2>2, <2>4, <3>1, <3>2 DEF Fits, After
    <3>3. CASE step = "kids"
      <4>1. m = GroupedSections(n) BY <2>1, <2>4, <3>3 DEF Rekidded
      <4>2. Orderly(GroupedSections(n).k) BY <1>1, <3>1, GroupedOrderly
      <4>3. how = "orderly" BY <3>3
      <4>. QED BY <3>3, <4>1, <4>2, <4>3 DEF Fits, After
    <3>4. CASE step \notin {"items", "kids"}
      <4>1. m = n BY <2>1, <2>4, <3>4 DEF Rekidded
      <4>. QED BY <3>1, <3>4, <4>1 DEF After
    <3>. QED BY <3>2, <3>3, <3>4
  <2>. QED BY <1>2, <2>3, <2>4
<1>. QED BY <1>3, <1>4

-----------------------------------------------------------------------------
(* Walks: what they make of an element reads like the element, and keeps   *)
(* items in order.                                                         *)

LEMMA OnwardsSaid ==
  ASSUME NEW R, IsReading(R), NEW W, W \in [Nodes -> Nodes], NEW n \in Nodes
  PROVE  /\ (\A y \in ElemKids(n) : Alike(R[W[y]], R[y])) => Alike(R[Onwards(n, W)], R[n])
         /\ (\A y \in ElemKids(n) : R[W[y]] = R[y]) => R[Onwards(n, W)] = R[n]
<1>. DEFINE m == Onwards(n, W)
            k == n.k
            j == m.k
            f == AllSaid(R, k)
            g == AllSaid(R, j)
<1>1. \A y \in ElemKids(n) : y \in Nodes /\ W[y] \in Nodes BY ElemKidsAre
<1>2. /\ m \in Nodes /\ j \in Seq(Trees) /\ DOMAIN j = DOMAIN k
      /\ \A i \in DOMAIN k : j[i] = IF IsElem(k[i]) THEN W[k[i]] ELSE k[i]
  BY <1>1, OnwardsIs
<1>. HIDE DEF m
<1>3. k \in Seq(Trees) /\ DOMAIN k = 1..Len(k) /\ Len(k) \in Nat /\ R[n] = Aloud(R, k)
      /\ R[m] = Aloud(R, j)
  BY <1>2, TreeKinds, SaidType
<1>4. Len(j) = Len(k)
  <2>. HIDE DEF j, k
  <2>. QED BY <1>2, <1>3
<1>5. ASSUME NEW i \in DOMAIN k
      PROVE  /\ IsElem(k[i]) => /\ k[i] \in ElemKids(n)
                                /\ Said(R, k[i]) = R[k[i]]
                                /\ Said(R, j[i]) = R[W[k[i]]]
             /\ ~IsElem(k[i]) => Said(R, j[i]) = Said(R, k[i])
  <2>1. ASSUME IsElem(k[i])
        PROVE  k[i] \in ElemKids(n) /\ Said(R, k[i]) = R[k[i]] /\ Said(R, j[i]) = R[W[k[i]]]
    <3>1. k[i] \in ElemKids(n) BY <2>1, ElemKidsAre
    <3>2. j[i] = W[k[i]] /\ k[i] \in Nodes /\ W[k[i]] \in Nodes
      BY <1>1, <1>2, <2>1, <3>1
    <3>. QED BY <3>1, <3>2, SaidType
  <2>2. ASSUME ~IsElem(k[i]) PROVE Said(R, j[i]) = Said(R, k[i]) BY <1>2, <2>2
  <2>. QED BY <2>1, <2>2
<1>. HIDE DEF j, k
<1>6. ASSUME \A y \in ElemKids(n) : R[W[y]] = R[y] PROVE R[m] = R[n]
  <2>1. \A i \in 1..Len(j) : Said(R, j[i]) = Said(R, k[i])
    BY <1>3, <1>4, <1>5, <1>6
  <2>2. Aloud(R, j) = Aloud(R, k)
    BY <1>2, <1>3, <1>4, <2>1, SaidAlike, ZenonT(30)
  <2>. QED BY <1>3, <2>2
<1>7. ASSUME \A y \in ElemKids(n) : Alike(R[W[y]], R[y]) PROVE Alike(R[m], R[n])
  <2>1. \A i \in DOMAIN k : Alike(Said(R, j[i]), Said(R, k[i]))
    BY <1>5, <1>7, AlikeIs
  <2>2. f \in Seq(Seq(Nat)) /\ g \in Seq(Seq(Nat)) /\ Len(f) = Len(k) /\ Len(g) = Len(k)
    BY <1>2, <1>3, <1>4, SaidType
  <2>3. \A i \in 1..Len(g) : Alike(g[i], f[i])
    <3>1. \A i \in DOMAIN k : g[i] = Said(R, j[i]) /\ f[i] = Said(R, k[i])
      BY <1>2 DEF AllSaid
    <3>. HIDE DEF f, g
    <3>. QED BY <1>3, <2>1, <2>2, <3>1
  <2>4. R[m] = FlattenSeq(g) /\ R[n] = FlattenSeq(f) BY <1>3 DEF Aloud
  <2>. HIDE DEF f, g
  <2>. QED BY <2>2, <2>3, <2>4, AlikeFlat, ZenonT(30)
<1>. QED BY <1>6, <1>7 DEF m

LEMMA OnwardsTame ==
  ASSUME Heights = Nat, NEW W, W \in [Nodes -> Nodes], NEW n \in Nodes, NEW how,
         n.s = "LI" => Fits(how, n.k),
         \A y \in ElemKids(n) : W[y] \in Tame(how) /\ W[y].s = y.s
  PROVE  Onwards(n, W) \in Tame(how) /\ Onwards(n, W).s = n.s
<1>. DEFINE m == Onwards(n, W)
            k == n.k
            j == m.k
<1>1. \A y \in ElemKids(n) : y \in Nodes /\ W[y] \in Nodes BY ElemKidsAre
<1>2. /\ m \in Nodes /\ m.s = n.s /\ j \in Seq(Trees) /\ DOMAIN j = DOMAIN k
      /\ \A i \in DOMAIN k : j[i] = IF IsElem(k[i]) THEN W[k[i]] ELSE k[i]
  BY <1>1, OnwardsIs
<1>. HIDE DEF m
<1>3. k \in Seq(Trees) BY TreeKinds
<1>4. \A i \in DOMAIN k : IsElem(k[i]) => k[i] \in ElemKids(n) BY ElemKidsAre
<1>5. ElemKids(m) \subseteq Tame(how)
  <2>1. ASSUME NEW y \in ElemKids(m) PROVE y \in Tame(how)
    <3>1. PICK i \in DOMAIN j : j[i] = y BY <1>2, ElemKidsAre
    <3>2. IsElem(y) BY DEF ElemKids
    <3>3. IsElem(k[i]) BY <1>2, <3>1, <3>2
    <3>. QED BY <1>2, <1>4, <3>1, <3>3
  <2>. QED BY <2>1
<1>6. ASSUME NEW i \in DOMAIN k PROVE Type(j[i]) = Type(k[i])
  <2>1. CASE IsElem(k[i])
    <3>1. j[i] = W[k[i]] /\ W[k[i]].s = k[i].s /\ W[k[i]] \in Nodes /\ k[i] \in Nodes
      BY <1>1, <1>2, <1>4, <2>1
    <3>. QED BY <3>1, TreeKinds
  <2>2. CASE ~IsElem(k[i]) BY <1>2, <2>2
  <2>. QED BY <2>1, <2>2
<1>7. n.s = "LI" => Fits(how, j)
  <2>1. Fits(how, k) => Fits(how, j)
    <3>. HIDE DEF j, k
    <3>. QED BY <1>2, <1>3, <1>6, FitsAlike
  <2>. QED BY <2>1
<1>8. m \in Tame(how) BY <1>2, <1>5, <1>7, TameAre
<1>. QED BY <1>2, <1>8 DEF m

\* A walk goes on with the kids it gave an element, to the end.
LEMMA WalkIs ==
  ASSUME Heights = Nat, NEW step
  PROVE  \E G, W : /\ Grounded(G) /\ \A n \in Nodes : G[n] = Rewritten(n, step)
                   /\ W \in [Nodes -> Nodes]
                   /\ \A n \in Nodes : W[n] = Onwards(G[n], W)
                   /\ \A n \in Nodes : Walk(n, step) = W[n]
<1>0. PICK G : Grounded(G) /\ \A n \in Nodes : G[n] = Rewritten(n, step)
  BY StepsGrounded
<1>. DEFINE B(n, r) == Onwards(G[n], r)
            P(g) == g = [x \in Scope |-> Onward(Rewritten(x, step), LAMBDA y : g[y])]
            f == CHOOSE g : P(g)
            F == [p \in Nodes \X Partial(Nodes) |->
                    IF B(p[1], p[2]) \in Nodes THEN B(p[1], p[2]) ELSE p[1]]
<1>1. Scope = Nodes BY ScopeIsNodes
<1>2. ASSUME NEW n \in Nodes
      PROVE  /\ \A r : (\A y \in ElemKids(G[n]) : r[y] \in Nodes) => B(n, r) \in Nodes
             /\ \A r, q : (\A y \in ElemKids(G[n]) : r[y] = q[y]) => B(n, r) = B(n, q)
  BY <1>0, OnwardsIs DEF Grounded
<1>. HIDE DEF B
<1>3. PICK w : w \in [Nodes -> Nodes] /\ Unfolding(w, Nodes, G, F)
  <2>1. F \in [Nodes \X Partial(Nodes) -> Nodes] OBVIOUS
  <2>. HIDE DEF F
  <2>. QED BY <1>0, <2>1, GroundedRecursion
<1>4. ASSUME NEW n \in Nodes PROVE w[n] = B(n, w)
  <2>. DEFINE r == OnKids(w, G[n])
  <2>1. w[n] = F[<<n, r>>] BY <1>3 DEF Unfolding
  <2>0. ElemKids(G[n]) \subseteq Nodes BY <1>0, ElemKidsAre DEF Grounded
  <2>2. \A y \in ElemKids(G[n]) : r[y] = w[y] /\ w[y] \in Nodes
    BY <1>3, <2>0 DEF OnKids
  <2>3. r \in [ElemKids(G[n]) -> Nodes] BY <1>3, <2>0 DEF OnKids
  <2>4. r \in Partial(Nodes) BY <2>0, <2>3 DEF Partial
  <2>. HIDE DEF r
  <2>5. B(n, r) \in Nodes /\ B(n, r) = B(n, w) BY <1>2, <2>2
  <2>. QED BY <2>1, <2>4, <2>5
<1>5. P(w)
  <2>1. w = [x \in Nodes |-> B(x, w)] BY <1>3, <1>4
  <2>. QED BY <1>1, <1>0, <2>1 DEF B, Onwards, Onward
<1>6. P(f)
  <2>. HIDE DEF P
  <2>. QED BY <1>5
<1>7. \A n \in Nodes : Walk(n, step) = f[n] BY DEF Walk, Onward
<1>. HIDE DEF f
<1>8. \A n \in Nodes : f[n] = B(n, f) BY <1>1, <1>6, <1>0 DEF B, Onwards, Onward
<1>. DEFINE S == {n \in Nodes : f[n] = w[n]}
<1>9. ASSUME NEW n \in Nodes, \A y \in ElemKids(G[n]) : y \in S PROVE n \in S
  <2>1. \A y \in ElemKids(G[n]) : f[y] = w[y] BY <1>9
  <2>. QED BY <1>2, <1>4, <1>8, <2>1
<1>10. Nodes \subseteq S
  <2>. HIDE DEF S
  <2>. QED BY <1>9, <1>0, GroundedInduction
<1>. QED BY <1>3, <1>4, <1>7, <1>10, <1>0 DEF B

\* No walk loses, repeats or moves content of any tree; where the items are not in
\* order, the walk for items puts content in order.
LEMMA WalkKept ==
  ASSUME Heights = Nat, NEW R, IsReading(R), NEW step, NEW n \in Nodes
  PROVE  /\ Walk(n, step) \in Nodes /\ Walk(n, step).s = n.s
         /\ Alike(R[Walk(n, step)], R[n])
         /\ step # "items" \/ n \in Tame("orderly") => R[Walk(n, step)] = R[n]
<1>. DEFINE D == {x \in Nodes : step # "items" \/ x \in Tame("orderly")}
<1>1. PICK G, W : /\ Grounded(G) /\ \A x \in Nodes : G[x] = Rewritten(x, step)
                  /\ W \in [Nodes -> Nodes]
                  /\ \A x \in Nodes : W[x] = Onwards(G[x], W)
                  /\ \A x \in Nodes : Walk(x, step) = W[x]
  BY WalkIs
<1>. DEFINE S == {x \in Nodes : /\ W[x].s = x.s /\ Alike(R[W[x]], R[x])
                                /\ x \in D => R[W[x]] = R[x]}
<1>3. ASSUME NEW x \in Nodes, \A y \in ElemKids(G[x]) : y \in S PROVE x \in S
  <2>. DEFINE m == G[x]
  <2>1. m \in Nodes /\ m.s = x.s /\ m = Rewritten(x, step) BY <1>1, RewrittenIs
  <2>2. Alike(R[m], R[x]) /\ (x \in D => R[m] = R[x] /\ ElemKids(m) \subseteq D)
    <3>1. Alike(R[m], R[x]) BY <2>1, StepSaid
    <3>2. CASE step # "items"
      <4>1. R[m] = R[x] BY <2>1, <3>2, StepSaid
      <4>2. D = Nodes BY <3>2
      <4>. QED BY <2>1, <3>1, <4>1, <4>2, ElemKidsAre
    <3>3. CASE step = "items"
      <4>1. D = Tame("orderly") BY <3>3, TameAre
      <4>2. ASSUME x \in Tame("orderly") PROVE R[m] = R[x] /\ ElemKids(m) \subseteq Tame("orderly")
        <5>1. x.s = "LI" => Orderly(x.k) BY <4>2, TameAre DEF Fits
        <5>2. R[Rewritten(x, step)] = R[x] BY <3>3, <5>1, StepSaid
        <5>3. ElemKids(Rewritten(x, step)) \subseteq Tame("orderly")
          <6>1. "orderly" \in {"orderly", "neat"} /\ step # "kids" BY <3>3
          <6>. QED BY <4>2, <6>1, TameSteps
        <5>. QED BY <2>1, <5>2, <5>3
      <4>. QED BY <3>1, <4>1, <4>2
    <3>. QED BY <3>2, <3>3
  <2>. HIDE DEF m, D
  <2>3. W[x] = Onwards(m, W) BY <1>1 DEF m
  <2>4. \A y \in ElemKids(m) : Alike(R[W[y]], R[y]) /\ (y \in D => R[W[y]] = R[y])
    BY <1>3 DEF m
  <2>5. Alike(R[W[x]], R[m]) BY <1>1, <2>1, <2>3, <2>4, OnwardsSaid
  <2>6. x \in D => R[W[x]] = R[m] BY <1>1, <2>1, <2>2, <2>3, <2>4, OnwardsSaid
  <2>7. W[x].s = m.s
    <3>1. \A y \in ElemKids(m) : W[y] \in Nodes BY <1>1, <2>1, ElemKidsAre
    <3>. QED BY <2>1, <2>3, <3>1, OnwardsIs
  <2>8. Alike(R[W[x]], R[x]) BY <2>2, <2>5, AlikeIs
  <2>. QED BY <2>1, <2>2, <2>6, <2>7, <2>8
<1>. HIDE DEF S
<1>4. Nodes \subseteq S BY <1>1, <1>3, GroundedInduction
<1>. QED BY <1>1, <1>4 DEF S

LEMMA WalkTame ==
  ASSUME Heights = Nat, NEW how \in {"orderly", "neat"}, NEW step, step # "kids" \/ how = "orderly",
         NEW n \in Tame(how)
  PROVE  Walk(n, step) \in Tame(After(how, step))
<1>. DEFINE B == After(how, step)
<1>1. PICK G, W : /\ Grounded(G) /\ \A x \in Nodes : G[x] = Rewritten(x, step)
                  /\ W \in [Nodes -> Nodes]
                  /\ \A x \in Nodes : W[x] = Onwards(G[x], W)
                  /\ \A x \in Nodes : Walk(x, step) = W[x]
  BY WalkIs
<1>. DEFINE S == {x \in Nodes : x \in Tame(how) => W[x] \in Tame(B) /\ W[x].s = x.s}
<1>3. ASSUME NEW x \in Nodes, \A y \in ElemKids(G[x]) : y \in S PROVE x \in S
  <2>1. SUFFICES ASSUME x \in Tame(how) PROVE W[x] \in Tame(B) /\ W[x].s = x.s
    OBVIOUS
  <2>. DEFINE m == G[x]
  <2>2. /\ m \in Nodes /\ m.s = x.s /\ ElemKids(m) \subseteq Tame(how)
        /\ x.s = "LI" => Fits(B, m.k)
    <3>1. m = Rewritten(x, step) BY <1>1
    <3>2. x \in Nodes OBVIOUS
    <3>. HIDE DEF m
    <3>. QED BY <2>1, <3>1, TameSteps
  <2>3. \A y \in ElemKids(m) : W[y] \in Tame(B) /\ W[y].s = y.s BY <1>3, <2>2
  <2>4. W[x] = Onwards(m, W) BY <1>1
  <2>. HIDE DEF m, B
  <2>5. Onwards(m, W) \in Tame(B) /\ Onwards(m, W).s = m.s
    BY <1>1, <2>2, <2>3, OnwardsTame
  <2>. QED BY <2>2, <2>4, <2>5
<1>. HIDE DEF S
<1>4. Nodes \subseteq S BY <1>1, <1>3, GroundedInduction
<1>5. n \in Nodes BY TameAre
<1>. QED BY <1>1, <1>4, <1>5 DEF S

-----------------------------------------------------------------------------
(* Wrapping and the clean-up: no tree they make reads otherwise, and they  *)
(* keep items in order.                                                    *)

LEMMA WithinAll ==
  ASSUME NEW W, W \in [Nodes -> Nodes]
  PROVE  Within(W, Nodes)
BY ElemKidsAre DEF Within

LEMMA WrappedKept ==
  ASSUME Heights = Nat, NEW R, IsReading(R), NEW child, NEW wrapper, Suits(child, wrapper),
         NEW n \in Nodes
  PROVE  /\ Wrapped(n, child, wrapper) \in Nodes /\ Wrapped(n, child, wrapper).s = n.s
         /\ R[Wrapped(n, child, wrapper)] = R[n]
         /\ \A how : n \in Tame(how) => Wrapped(n, child, wrapper) \in Tame(how)
<1>1. wrapper \in Kinds BY DEF Suits
<1>2. PICK W : /\ W \in [Nodes -> Nodes]
               /\ \A x \in Nodes : W[x] = WrapFrom(x, child, wrapper, W)
               /\ \A x \in Nodes : Wrapped(x, child, wrapper) = W[x]
  BY <1>1, WrappedIs
<1>3. R[W[n]] = R[n]
  <2>1. Wraps(W, Nodes, child, wrapper) BY <1>2, WithinAll DEF Wraps, WrapFrom
  <2>. QED BY <1>1, <2>1, WrapsSaid
<1>. DEFINE S(how) == {x \in Nodes : W[x].s = x.s /\ (x \in Tame(how) => W[x] \in Tame(how))}
<1>4. ASSUME NEW how, NEW x \in Nodes, \A y \in ElemKids(x) : y \in S(how) PROVE x \in S(how)
  <2>. DEFINE k == x.k
              wrong(i) == Misplaced(k[i], x, {child})
              new(i) == Elem(wrapper, <<k[i]>>)
              j == [i \in DOMAIN k |-> IF wrong(i) THEN new(i) ELSE IF IsElem(k[i]) THEN W[k[i]] ELSE k[i]]
              m == W[x]
  <2>1. k \in Seq(Trees) /\ DOMAIN k = 1..Len(k) /\ Len(k) \in Nat
        /\ \A i \in DOMAIN k : k[i] \in Trees /\ (IsElem(k[i]) => k[i] \in ElemKids(x) /\ k[i] \in Nodes)
    BY TreeKinds, KidsAre, ElemKidsAre
  <2>2. m = SetKids(x, j) \/ m = [x EXCEPT !.k = j]
    BY <1>2 DEF WrapFrom, WrapNode
  <2>3. ASSUME NEW i \in DOMAIN k
        PROVE  new(i) \in Nodes /\ Type(new(i)) = wrapper /\ new(i).s = wrapper
               /\ new(i).k = <<k[i]>> /\ <<k[i]>> \in Seq(Trees)
    <3>. DEFINE one == <<k[i]>>
    <3>1. one \in Seq(Trees) BY <2>1
    <3>. HIDE DEF one
    <3>2. Elem(wrapper, one) \in Nodes /\ Elem(wrapper, one).s = wrapper /\ Elem(wrapper, one).k = one
      BY <1>1, <3>1, NewElements
    <3>. QED BY <3>1, <3>2, TreeKinds DEF one
  <2>. HIDE DEF new
  <2>4. \A i \in DOMAIN k : IsElem(k[i]) => W[k[i]] \in Nodes /\ W[k[i]].s = k[i].s
    BY <1>2, <1>4, <2>1
  <2>5. j \in [DOMAIN k -> Trees]
    <3>1. \A i \in DOMAIN k : new(i) \in Trees /\ (IsElem(k[i]) => W[k[i]] \in Trees)
      BY <2>3, <2>4, TreeKinds
    <3>. HIDE DEF k, wrong
    <3>. QED BY <2>1, <3>1
  <2>6. \A i \in DOMAIN k : j[i] = IF wrong(i) THEN new(i) ELSE IF IsElem(k[i]) THEN W[k[i]] ELSE k[i]
    OBVIOUS
  <2>. HIDE DEF j, m
  <2>7. m \in Nodes /\ m.s = x.s /\ m.k = j /\ j \in Seq(Trees) /\ DOMAIN j = DOMAIN k
    <3>1. /\ j \in Seq(Trees) /\ DOMAIN j = DOMAIN x.k
          /\ SetKids(x, j) \in Nodes /\ SetKids(x, j).k = j /\ SetKids(x, j).s = x.s
          /\ [x EXCEPT !.k = j] \in Nodes /\ [x EXCEPT !.k = j].k = j
          /\ [x EXCEPT !.k = j].s = x.s
      BY <2>5, NewKids, ZenonT(30)
    <3>2. CASE m = SetKids(x, j) BY <3>1, <3>2, Zenon
    <3>3. CASE m = [x EXCEPT !.k = j] BY <3>1, <3>3, Zenon
    <3>. QED BY <2>2, <3>2, <3>3
  <2>8. ASSUME x \in Tame(how) PROVE m \in Tame(how)
    <3>1. ASSUME NEW i \in DOMAIN k, IsElem(k[i])
          PROVE  k[i] \in Tame(how) /\ W[k[i]] \in Tame(how)
      <4>1. k[i] \in ElemKids(x) BY <2>1, <3>1
      <4>2. k[i] \in Tame(how) /\ k[i] \in S(how) BY <1>4, <2>8, <4>1, TameAre
      <4>. QED BY <4>2
    <3>2. ASSUME NEW i \in DOMAIN k, wrong(i)
          PROVE  /\ IsElem(k[i]) /\ Type(k[i]) = child /\ x.s \notin Parents(child)
                 /\ new(i) \in Tame(how)
      <4>1. Type(k[i]) = child /\ x.s \notin Parents(k[i].s)
        BY <3>2 DEF Misplaced
      <4>2. child # "" BY DEF Suits, Kinds
      <4>3. IsElem(k[i]) /\ k[i].s = child BY <4>1, <4>2 DEF Type
      <4>4. k[i] \in Tame(how) BY <3>1, <4>3
      <4>. DEFINE one == <<k[i]>>
                  o == new(i)
                  y == k[i]
      <4>5. o \in Nodes /\ o.s = wrapper /\ o.k = one BY <2>3
      <4>6. one = <<y>> OBVIOUS
      <4>. HIDE DEF o, y, one
      <4>7. DOMAIN one = {1} /\ one[1] = y BY <4>6
      <4>8. ElemKids(o) \subseteq Tame(how)
        <5>1. \A z \in ElemKids(o) : z = y BY <4>5, <4>7, ElemKidsAre
        <5>. QED BY <4>4, <5>1 DEF y
      <4>9. o.s = "LI" => Fits(how, o.k)
        <5>1. SUFFICES ASSUME wrapper = "LI" PROVE Fits(how, one) BY <4>5
        <5>2. Type(y) \in {"Lbl", "LBody"} BY <4>1, <5>1 DEF Suits, y
        <5>. QED BY <4>7, <5>2 DEF Fits, Neat, Orderly
      <4>10. o \in Tame(how) BY <4>5, <4>8, <4>9, TameAre
      <4>. QED BY <4>1, <4>3, <4>10 DEF o
    <3>. HIDE DEF wrong
    <3>3. ElemKids(m) \subseteq Tame(how)
      <4>1. ASSUME NEW y \in ElemKids(m) PROVE y \in Tame(how)
        <5>1. PICK i \in DOMAIN j : j[i] = y BY <2>7, ElemKidsAre
        <5>2. IsElem(y) BY DEF ElemKids
        <5>. QED BY <2>6, <2>7, <3>1, <3>2, <5>1, <5>2
      <4>. QED BY <4>1
    <3>4. ASSUME x.s = "LI" PROVE Fits(how, j)
      <4>1. Fits(how, k) BY <2>8, <3>4, TameAre
      <4>2. ASSUME NEW i \in DOMAIN k
            PROVE  \/ Type(j[i]) = Type(k[i])
                   \/ /\ Type(j[i]) \notin {"Lbl", "LBody"}
                      /\ Type(k[i]) \notin {"Lbl", "LBody"}
        <5>1. CASE wrong(i)
          <6>1. j[i] = new(i) /\ Type(j[i]) = wrapper /\ Type(k[i]) = child
            BY <2>3, <2>6, <3>2, <5>1
          <6>2. child \notin {"Lbl", "LBody"}
            BY <3>2, <3>4, <5>1 DEF Parents, Cells
          <6>3. wrapper \notin {"Lbl", "LBody"} BY DEF Suits
          <6>. QED BY <6>1, <6>2, <6>3
        <5>2. CASE ~wrong(i) /\ IsElem(k[i])
          <6>1. j[i] = W[k[i]] /\ W[k[i]] \in Nodes /\ W[k[i]].s = k[i].s /\ k[i] \in Nodes
            BY <2>1, <2>4, <2>6, <5>2
          <6>. QED BY <6>1, TreeKinds
        <5>3. CASE ~wrong(i) /\ ~IsElem(k[i]) BY <2>6, <5>3
        <5>. QED BY <5>1, <5>2, <5>3
      <4>. HIDE DEF k
      <4>. QED BY <2>1, <2>7, <4>1, <4>2, FitsAlike
    <3>. QED BY <2>7, <3>3, <3>4, TameAre
  <2>. QED BY <2>7, <2>8 DEF m
<1>5. \A how : Nodes \subseteq S(how)
  <2>. TAKE how
  <2>. DEFINE T == S(how)
  <2>1. \A x \in Nodes : (\A y \in ElemKids(x) : y \in T) => x \in T BY <1>4
  <2>. HIDE DEF T
  <2>2. Nodes \subseteq T BY <2>1, SameGrounded, GroundedInduction
  <2>. QED BY <2>2 DEF T
<1>. QED BY <1>2, <1>3, <1>5

LEMMA EntriesKept ==
  ASSUME Heights = Nat, NEW R, IsReading(R), NEW n \in Nodes
  PROVE  /\ WrappedEntries(n) \in Nodes /\ WrappedEntries(n).s = n.s
         /\ R[WrappedEntries(n)] = R[n]
         /\ \A how : n \in Tame(how) => WrappedEntries(n) \in Tame(how)
<1>2. PICK W : /\ W \in [Nodes -> Nodes]
               /\ \A x \in Nodes : W[x] = EntriesFrom(x, W)
               /\ \A x \in Nodes : WrappedEntries(x) = W[x]
  BY WrappedEntriesIs
<1>3. R[W[n]] = R[n]
  <2>1. WrapsEntries(W, Nodes) BY <1>2, WithinAll DEF WrapsEntries, EntriesFrom
  <2>. QED BY <2>1, WrapsEntriesSaid
<1>. DEFINE S(how) == {x \in Nodes : W[x].s = x.s /\ (x \in Tame(how) => W[x] \in Tame(how))}
<1>4. ASSUME NEW how, NEW x \in Nodes, \A y \in ElemKids(x) : y \in S(how) PROVE x \in S(how)
  <2>. DEFINE k == x.k
              kid(i) == IF IsElem(k[i]) THEN W[k[i]] ELSE k[i]
              stray(i) == Type(kid(i)) = "TOCI" /\ x.s # "TOC"
              new(i) == Only("TOC", kid(i))
              j == [i \in DOMAIN k |-> IF stray(i) THEN new(i) ELSE kid(i)]
              m == W[x]
  <2>1. k \in Seq(Trees) /\ DOMAIN k = 1..Len(k) /\ Len(k) \in Nat
        /\ \A i \in DOMAIN k : k[i] \in Trees /\ (IsElem(k[i]) => k[i] \in ElemKids(x) /\ k[i] \in Nodes)
    BY TreeKinds, KidsAre, ElemKidsAre
  <2>2. m = SetKids(x, j) \/ m = [x EXCEPT !.k = j]
    BY <1>2 DEF EntriesFrom, EntriesNode
  <2>3. ASSUME NEW i \in DOMAIN k
        PROVE  /\ kid(i) \in Trees /\ Type(kid(i)) = Type(k[i])
               /\ IsElem(kid(i)) => kid(i) = W[k[i]] /\ k[i] \in ElemKids(x)
    <3>1. CASE IsElem(k[i])
      <4>1. k[i] \in Nodes /\ W[k[i]] \in Nodes /\ W[k[i]].s = k[i].s /\ kid(i) = W[k[i]]
        BY <1>2, <1>4, <2>1, <3>1
      <4>. QED BY <2>1, <3>1, <4>1, TreeKinds
    <3>2. CASE ~IsElem(k[i]) BY <2>1, <3>2
    <3>. QED BY <3>1, <3>2
  <2>. HIDE DEF kid
  <2>4. ASSUME NEW i \in DOMAIN k
        PROVE  new(i) \in Nodes /\ Type(new(i)) = "TOC" /\ new(i).s = "TOC"
               /\ new(i).k = <<kid(i)>> /\ new(i) \in Trees
    <3>. DEFINE y == kid(i)
                K == Trees
    <3>1. y \in K /\ "TOC" \in Kinds /\ K \in SUBSET Trees BY <2>3 DEF Kinds
    <3>. HIDE DEF y, K
    <3>2. Only("TOC", y) \in Nodes /\ Only("TOC", y).s = "TOC" /\ Only("TOC", y).k = <<y>>
      BY <3>1, NewAmong
    <3>. QED BY <3>2, TreeKinds DEF y
  <2>. HIDE DEF new
  <2>5. j \in [DOMAIN k -> Trees]
    <3>. HIDE DEF k, stray
    <3>. QED BY <2>3, <2>4
  <2>6. \A i \in DOMAIN k : j[i] = IF stray(i) THEN new(i) ELSE kid(i) OBVIOUS
  <2>. HIDE DEF j, m
  <2>7. m \in Nodes /\ m.s = x.s /\ m.k = j /\ j \in Seq(Trees) /\ DOMAIN j = DOMAIN k
    <3>1. /\ j \in Seq(Trees) /\ DOMAIN j = DOMAIN x.k
          /\ SetKids(x, j) \in Nodes /\ SetKids(x, j).k = j /\ SetKids(x, j).s = x.s
          /\ [x EXCEPT !.k = j] \in Nodes /\ [x EXCEPT !.k = j].k = j
          /\ [x EXCEPT !.k = j].s = x.s
      BY <2>5, NewKids, ZenonT(30)
    <3>2. CASE m = SetKids(x, j) BY <3>1, <3>2, Zenon
    <3>3. CASE m = [x EXCEPT !.k = j] BY <3>1, <3>3, Zenon
    <3>. QED BY <2>2, <3>2, <3>3
  <2>8. ASSUME x \in Tame(how) PROVE m \in Tame(how)
    <3>1. ASSUME NEW i \in DOMAIN k, IsElem(kid(i)) PROVE kid(i) \in Tame(how)
      <4>1. k[i] \in ElemKids(x) /\ kid(i) = W[k[i]] BY <2>3, <3>1
      <4>2. k[i] \in Tame(how) /\ k[i] \in S(how) BY <1>4, <2>8, <4>1, TameAre
      <4>. QED BY <4>1, <4>2
    <3>2. ASSUME NEW i \in DOMAIN k PROVE new(i) \in Tame(how)
      <4>. DEFINE one == <<kid(i)>>
                  o == new(i)
                  y == kid(i)
      <4>1. o \in Nodes /\ o.s = "TOC" /\ o.k = one BY <2>4
      <4>2. one = <<y>> /\ (IsElem(y) => y \in Tame(how)) BY <3>1
      <4>. HIDE DEF o, y, one
      <4>3. DOMAIN one = {1} /\ one[1] = y BY <4>2
      <4>4. ASSUME NEW z \in ElemKids(o) PROVE z \in Tame(how)
        <5>1. z = y /\ IsElem(z) BY <4>1, <4>3, ElemKidsAre DEF ElemKids
        <5>. QED BY <4>2, <5>1
      <4>5. o.s # "LI" /\ ElemKids(o) \subseteq Tame(how) BY <4>1, <4>4
      <4>6. o \in Tame(how) BY <4>1, <4>5, TameAre
      <4>. QED BY <4>6 DEF o
    <3>3. ElemKids(m) \subseteq Tame(how)
      <4>1. ASSUME NEW y \in ElemKids(m) PROVE y \in Tame(how)
        <5>1. PICK i \in DOMAIN j : j[i] = y BY <2>7, ElemKidsAre
        <5>2. IsElem(y) BY DEF ElemKids
        <5>. QED BY <2>6, <2>7, <3>1, <3>2, <5>1, <5>2
      <4>. QED BY <4>1
    <3>4. ASSUME x.s = "LI" PROVE Fits(how, j)
      <4>1. Fits(how, k) BY <2>8, <3>4, TameAre
      <4>2. ASSUME NEW i \in DOMAIN k
            PROVE  \/ Type(j[i]) = Type(k[i])
                   \/ /\ Type(j[i]) \notin {"Lbl", "LBody"}
                      /\ Type(k[i]) \notin {"Lbl", "LBody"}
        <5>1. CASE stray(i) BY <2>3, <2>4, <2>6, <5>1
        <5>2. CASE ~stray(i) BY <2>3, <2>6, <5>2
        <5>. QED BY <5>1, <5>2
      <4>. HIDE DEF k, stray
      <4>. QED BY <2>1, <2>7, <4>1, <4>2, FitsAlike
    <3>. QED BY <2>7, <3>3, <3>4, TameAre
  <2>. QED BY <2>7, <2>8 DEF m
<1>5. \A how : Nodes \subseteq S(how)
  <2>. TAKE how
  <2>. DEFINE T == S(how)
  <2>1. \A x \in Nodes : (\A y \in ElemKids(x) : y \in T) => x \in T BY <1>4
  <2>. HIDE DEF T
  <2>2. Nodes \subseteq T BY <2>1, SameGrounded, GroundedInduction
  <2>. QED BY <2>2 DEF T
<1>. QED BY <1>2, <1>3, <1>5

\* An item with a label and a body has no more kids, and has them when what is empty
\* is left out.
LEMMA NeatAre ==
  /\ Neat(<<>>)
  /\ \A x : Type(x) \in {"Lbl", "LBody"} => Neat(<<x>>)
<1>1. Neat(<<>>) BY DEF Neat, Orderly
<1>2. ASSUME NEW x, Type(x) \in {"Lbl", "LBody"} PROVE Neat(<<x>>)
  <2>. DEFINE k == <<x>>
  <2>1. DOMAIN k = {1} /\ k[1] = x OBVIOUS
  <2>. HIDE DEF k
  <2>2. Neat(k) BY <1>2, <2>1 DEF Neat, Orderly
  <2>. QED BY <2>2 DEF k
<1>. QED BY <1>1, <1>2

LEMMA KeptNeat ==
  ASSUME NEW k \in Seq(Trees), Neat(k)
  PROVE  Neat(Kept(k))
<1>. DEFINE at(i) == IF Empty(k[i]) THEN <<>> ELSE <<k[i]>>
            ss == [i \in DOMAIN k |-> at(i)]
            l == Len(k)
            C == Seq(Trees)
<1>1. l \in Nat /\ DOMAIN k = 1..l /\ \A i \in 1..l : k[i] \in Trees OBVIOUS
<1>2. /\ Orderly(k)
      /\ \A i \in 1..l : Type(k[i]) \in {"Lbl", "LBody"}
      /\ \A i, j \in 1..l : Type(k[i]) = Type(k[j]) => i = j
  BY <1>1 DEF Neat
<1>3. Kept(k) = FlattenSeq(ss) BY DEF Kept
<1>. HIDE DEF l
<1>4. l = 0 \/ l = 1 \/ l = 2
  <2>1. SUFFICES ASSUME l > 2 PROVE FALSE BY <1>1
  <2>2. 1 \in 1..l /\ 2 \in 1..l /\ 3 \in 1..l BY <1>1, <2>1
  <2>. QED BY <1>2, <2>2
<1>5. ASSUME NEW i \in 1..l PROVE /\ at(i) \in C
                                  /\ at(i) = <<>> \/ at(i) = <<k[i]>>
                                  /\ Neat(at(i)) /\ k[i] \in Trees
  <2>1. <<k[i]>> \in C /\ <<>> \in C BY <1>1
  <2>. QED BY <1>1, <1>2, <2>1, NeatAre
<1>6. ss \in Seq(C) /\ Len(ss) = l /\ \A i \in 1..l : ss[i] = at(i)
  <2>. HIDE DEF at, C
  <2>1. ss \in [1..l -> C] /\ \A i \in 1..l : ss[i] = at(i) BY <1>1, <1>5
  <2>. HIDE DEF ss
  <2>. QED BY <1>1, <2>1, SeqOfFunction
<1>. HIDE DEF ss
<1>7. CASE l = 0
  <2>1. PICK f : DOMAIN f = 0..Len(ss) /\ Adds(f, ss) BY <1>6, SomethingAdds
  <2>2. FlattenSeq(ss) = f[0] BY <1>6, <1>7, <2>1, FlattenAdds
  <2>3. f[0] = <<>> BY <2>1 DEF Adds
  <2>. QED BY <1>3, <2>2, <2>3, NeatAre
<1>8. CASE l = 1
  <2>. DEFINE a == at(1)
  <2>1. 1 \in 1..l BY <1>8
  <2>2. a \in C /\ ss[1] = a /\ Neat(a) BY <1>5, <1>6, <2>1
  <2>3. ss = <<a>>
    <3>. HIDE DEF a, C
    <3>. QED BY <1>6, <1>8, <2>2
  <2>. HIDE DEF a
  <2>4. FlattenSeq(<<a>>) = a BY <2>2, FlattenOne
  <2>. QED BY <1>3, <2>2, <2>3, <2>4
<1>9. CASE l = 2
  <2>. DEFINE a == at(1)
              b == at(2)
              x == k[1]
              y == k[2]
  <2>1. 1 \in 1..l /\ 2 \in 1..l BY <1>9
  <2>2. /\ a \in C /\ b \in C /\ ss[1] = a /\ ss[2] = b /\ Neat(a) /\ Neat(b)
        /\ a = <<>> \/ a = <<x>>
        /\ b = <<>> \/ b = <<y>>
        /\ x \in Trees /\ y \in Trees
    BY <1>5, <1>6, <2>1
  <2>3. k = <<x, y>>
    <3>. HIDE DEF x, y
    <3>1. x = k[1] /\ y = k[2] BY DEF x, y
    <3>. QED BY <1>1, <1>9, <3>1 DEF l
  <2>. HIDE DEF a, b, x, y
  <2>4. ss # <<>> /\ Tail(ss) = <<b>>
    <3>. HIDE DEF C
    <3>1. ss = <<a, b>> BY <1>6, <1>9, <2>2
    <3>. QED BY <3>1
  <2>5. FlattenSeq(ss) = ss[1] \o FlattenSeq(Tail(ss))
    BY <1>6, <2>4, FlattenFirst
  <2>6. FlattenSeq(<<b>>) = b BY <2>2, FlattenOne
  <2>7. FlattenSeq(ss) = a \o b BY <2>2, <2>4, <2>5, <2>6
  <2>8. CASE a = <<>>
    <3>1. a \o b = b BY <2>2, <2>8, ConcatEmptySeq
    <3>. QED BY <1>3, <2>2, <2>7, <3>1
  <2>9. CASE b = <<>>
    <3>1. a \o b = a BY <2>2, <2>9, ConcatEmptySeq
    <3>. QED BY <1>3, <2>2, <2>7, <3>1
  <2>10. CASE a = <<x>> /\ b = <<y>>
    <3>. DEFINE j == <<x>> \o <<y>>
    <3>1. DOMAIN j = {1, 2} /\ j[1] = x /\ j[2] = y BY <2>2, OneAndOne
    <3>2. j \in Seq(Trees)
      <4>1. <<x>> \in Seq(Trees) /\ <<y>> \in Seq(Trees) BY <2>2
      <4>. QED BY <4>1
    <3>. HIDE DEF j
    <3>3. DOMAIN k = {1, 2} /\ k[1] = x /\ k[2] = y BY <2>3
    <3>4. Fits("neat", k) => Fits("neat", j) BY <3>1, <3>2, <3>3, FitsAlike
    <3>5. Neat(j) BY <3>4 DEF Fits
    <3>. QED BY <1>3, <2>7, <2>10, <3>5 DEF j
  <2>. QED BY <2>2, <2>8, <2>9, <2>10
<1>. QED BY <1>4, <1>7, <1>8, <1>9

LEMMA WithoutEmptyKept ==
  ASSUME Heights = Nat, NEW R, IsReading(R), NEW n \in Nodes
  PROVE  /\ WithoutEmpty(n) \in Nodes /\ WithoutEmpty(n).s = n.s
         /\ R[WithoutEmpty(n)] = R[n]
         /\ n \in Tame("neat") => WithoutEmpty(n) \in Tame("neat")
<1>1. PICK W : /\ W \in [Nodes -> Nodes]
               /\ \A x \in Nodes : W[x] = PruneFrom(x, W)
               /\ \A x \in Nodes : WithoutEmpty(x) = W[x]
  BY WithoutEmptyIs
<1>2. R[W[n]] = R[n]
  <2>1. Prunes(W, Nodes) BY <1>1, WithinAll DEF Prunes, PruneFrom
  <2>. QED BY <2>1, PrunesSaid
<1>. DEFINE S == {x \in Nodes : W[x].s = x.s /\ (x \in Tame("neat") => W[x] \in Tame("neat"))}
<1>3. ASSUME NEW x \in Nodes, \A y \in ElemKids(x) : y \in S PROVE x \in S
  <2>. DEFINE kept == Kept(x.k)
              m == [x EXCEPT !.k = kept]
              o == Onwards(m, W)
              k == o.k
  <2>1. /\ kept \in Seq(Trees) /\ m \in Nodes /\ m.k = kept /\ m.s = x.s
        /\ ElemKids(m) \subseteq ElemKids(x)
    <3>1. kept \in Seq(Trees) /\ m \in Nodes /\ m.k = kept /\ ElemKids(m) \subseteq ElemKids(x)
      BY KeptKids
    <3>2. m.s = x.s
      <4>. HIDE DEF kept
      <4>. QED BY <3>1, NewElements
    <3>. QED BY <3>1, <3>2
  <2>2. \/ W[x] = SetKids(x, Onwards(m, W).k)
        \/ kept = x.k /\ W[x] = Onwards(x, W)
    BY <1>1 DEF PruneFrom, PruneNode, Kept, Onwards
  <2>3. kept = x.k => m = x
    <3>1. x \in Elements(Trees) BY DEF Nodes
    <3>. HIDE DEF kept
    <3>. QED BY <3>1 DEF Elements
  <2>. HIDE DEF m, kept
  <2>4. \A y \in ElemKids(m) : y \in Nodes /\ W[y] \in Nodes /\ y \in S
    BY <1>1, <1>3, <2>1, ElemKidsAre
  <2>5. o \in Nodes /\ o.s = x.s /\ k \in Seq(Trees) BY <2>1, <2>4, OnwardsIs
  <2>6. W[x] = SetKids(x, k) \/ W[x] = o BY <2>2, <2>3
  <2>. HIDE DEF o
  <2>7. W[x] \in Nodes /\ W[x].s = x.s /\ W[x].k = k
    <3>. HIDE DEF k
    <3>1. SetKids(x, k) \in Nodes /\ SetKids(x, k).s = x.s /\ SetKids(x, k).k = k
      BY <2>5, NewElements, ZenonT(30)
    <3>2. CASE W[x] = SetKids(x, k) BY <3>1, <3>2, Zenon
    <3>3. CASE W[x] = o BY <2>5, <3>3 DEF k
    <3>. QED BY <2>6, <3>2, <3>3
  <2>8. ASSUME x \in Tame("neat") PROVE W[x] \in Tame("neat")
    <3>1. ElemKids(x) \subseteq Tame("neat") /\ (x.s = "LI" => Neat(x.k))
      BY <2>8, TameAre DEF Fits
    <3>2. \A y \in ElemKids(m) : W[y] \in Tame("neat") /\ W[y].s = y.s
      BY <2>1, <2>4, <3>1
    <3>3. m.s = "LI" => Fits("neat", m.k)
      <4>1. x.k \in Seq(Trees) BY TreeKinds
      <4>. QED BY <2>1, <3>1, <4>1, KeptNeat DEF Fits, kept
    <3>4. o \in Tame("neat") BY <1>1, <2>1, <3>2, <3>3, OnwardsTame DEF o
    <3>. QED
      <4>1. PICK Q : IsReading(Q) BY ReadingExists
      <4>2. Like(Q, W[x], o)
        <5>. DEFINE v == W[x]
        <5>1. v \in Nodes /\ o \in Nodes /\ v.k = o.k /\ (v.s = "LI" => o.s = "LI")
          BY <2>5, <2>7
        <5>. HIDE DEF v
        <5>2. Like(Q, v, o) BY <4>1, <5>1, LikeSameKids
        <5>. QED BY <5>2 DEF v
      <4>. QED BY <3>4, <4>2 DEF Like
  <2>. QED BY <2>7, <2>8
<1>. HIDE DEF S
<1>4. Nodes \subseteq S BY <1>3, SameGrounded, GroundedInduction
<1>. QED BY <1>1, <1>2, <1>4 DEF S

-----------------------------------------------------------------------------
(* The passes, one after the other.                                        *)

LEMMA KeepsOn ==
  ASSUME NEW R, NEW A, NEW B, NEW C, NEW t, NEW u, NEW v, Keeps(R, A, B, t, u), Keeps(R, B, C, u, v)
  PROVE  Keeps(R, A, C, t, v)
BY AlikeIs DEF Keeps

LEMMA WrappingKeeps ==
  ASSUME Heights = Nat, NEW R, IsReading(R), NEW A, NEW t \in Nodes
  PROVE  /\ \A child, wrapper : Suits(child, wrapper) => Keeps(R, A, A, t, Wrapped(t, child, wrapper))
         /\ Keeps(R, A, A, t, WrappedEntries(t))
<1>1. \A child, wrapper : Suits(child, wrapper) => Keeps(R, A, A, t, Wrapped(t, child, wrapper))
  BY WrappedKept, AlikeIs DEF Keeps
<1>2. Keeps(R, A, A, t, WrappedEntries(t)) BY EntriesKept, AlikeIs DEF Keeps
<1>. QED BY <1>1, <1>2

LEMMA ListedPartsKeep ==
  ASSUME Heights = Nat, NEW R, IsReading(R), NEW A, NEW t \in Nodes
  PROVE  Keeps(R, A, A, t, ListedParts(t))
<1>. DEFINE a == Wrapped(t, "Lbl", "LI")
            b == Wrapped(a, "LBody", "LI")
            c == Wrapped(b, "LI", "L")
<1>1. Suits("Lbl", "LI") /\ Suits("LBody", "LI") /\ Suits("LI", "L")
  BY DEF Suits, Kinds
<1>2. Keeps(R, A, A, t, t) BY AlikeIs DEF Keeps
<1>3. Keeps(R, A, A, t, a) /\ a \in Nodes BY <1>1, WrappingKeeps DEF Keeps
<1>4. Keeps(R, A, A, a, b) /\ b \in Nodes BY <1>1, <1>3, WrappingKeeps DEF Keeps
<1>5. Keeps(R, A, A, b, c) BY <1>1, <1>4, WrappingKeeps
<1>6. ListedParts(t) = t \/ ListedParts(t) = c BY DEF ListedParts, Parted
<1>. HIDE DEF a, b, c
<1>7. Keeps(R, A, A, t, b) BY <1>3, <1>4, KeepsOn
<1>8. Keeps(R, A, A, t, c) BY <1>5, <1>7, KeepsOn
<1>. QED BY <1>2, <1>6, <1>8

LEMMA WalkKeeps ==
  ASSUME Heights = Nat, NEW R, IsReading(R), NEW A \in {"orderly", "neat"}, NEW step,
         step # "kids" \/ A = "orderly", NEW t \in Nodes
  PROVE  Keeps(R, A, After(A, step), t, Walk(t, step))
<1>1. t \in Tame(A) => t \in Tame("orderly") /\ Walk(t, step) \in Tame(After(A, step))
  BY NeatIsOrderly, WalkTame
<1>. QED BY <1>1, WalkKept DEF Keeps

LEMMA PassKeeps ==
  ASSUME Heights = Nat, NEW R, IsReading(R), NEW A \in {"orderly", "neat"}, NEW p,
         p # "kids" \/ A = "orderly", NEW t \in Nodes
  PROVE  Keeps(R, A, After(A, p), t, Pass(t, p))
<1>1. CASE p \in DOMAIN Wrappers
  <2>1. /\ DOMAIN Wrappers = {"TR", "TH", "TD", "LI"}
        /\ Wrappers["TR"] = "TBody" /\ Wrappers["TH"] = "TR" /\ Wrappers["TD"] = "TR"
        /\ Wrappers["LI"] = "L"
    BY DEF Wrappers
  <2>2. Suits(p, Wrappers[p]) BY <1>1, <2>1 DEF Suits, Kinds
  <2>3. Pass(t, p) = Wrapped(t, p, Wrappers[p]) BY <1>1, <2>1 DEF Pass
  <2>4. After(A, p) = A BY <1>1, <2>1 DEF After
  <2>. QED BY <2>2, <2>3, <2>4, WrappingKeeps
<1>2. CASE p \in {"parts", "entries"}
  <2>1. DOMAIN Wrappers = {"TR", "TH", "TD", "LI"} BY DEF Wrappers
  <2>2. After(A, p) = A BY <1>2 DEF After
  <2>3. CASE p = "parts"
    <3>1. Pass(t, p) = ListedParts(t) BY <2>1, <2>3 DEF Pass
    <3>. QED BY <2>2, <3>1, ListedPartsKeep
  <2>4. CASE p = "entries"
    <3>1. Pass(t, p) = WrappedEntries(t) BY <2>1, <2>4 DEF Pass
    <3>. QED BY <2>2, <3>1, WrappingKeeps
  <2>. QED BY <1>2, <2>3, <2>4
<1>3. CASE p \notin DOMAIN Wrappers /\ p \notin {"parts", "entries"}
  <2>1. Pass(t, p) = Walk(t, p) BY <1>3 DEF Pass
  <2>. QED BY <2>1, WalkKeeps
<1>. QED BY <1>1, <1>2, <1>3

\* What holds at the start and is kept by every step holds along the way.
LEMMA StepByStep ==
  ASSUME NEW m \in Nat, NEW T \in SUBSET (0..m), 0 \in T,
         \A i \in 1..m : i - 1 \in T => i \in T
  PROVE  \A i \in 0..m : i \in T
<1>. DEFINE S == {i \in Nat : i <= m => i \in T}
<1>1. S \in SUBSET Nat /\ 0 \in S OBVIOUS
<1>2. ASSUME NEW i \in Nat, i \in S PROVE i + 1 \in S
  <2>1. SUFFICES ASSUME i + 1 <= m PROVE i + 1 \in T OBVIOUS
  <2>2. i + 1 \in 1..m /\ (i + 1) - 1 = i /\ i \in T BY <1>2, <2>1
  <2>. QED BY <2>2
<1>. HIDE DEF S
<1>3. S = Nat BY <1>1, <1>2, FromZeroOn
<1>. QED BY <1>3 DEF S

\* Passes in a row.
LEMMA PassesAre ==
  ASSUME Heights = Nat, NEW t \in Nodes, NEW names, Len(names) \in Nat
  PROVE  \E f : /\ f[0] = t /\ \A i \in 1..Len(names) : f[i] = Pass(f[i - 1], names[i])
                /\ Passes(t, names) = f[Len(names)]
<1>. DEFINE m == Len(names)
            Q(g) == g = [i \in 0..m |-> IF i = 0 THEN t ELSE Pass(g[i - 1], names[i])]
            f == CHOOSE g : Q(g)
            F == [q \in (1..m) \X Nodes |-> Pass(q[2], names[q[1]])]
<1>1. m \in Nat OBVIOUS
<1>2. ASSUME NEW i \in 1..m, NEW u \in Nodes PROVE Pass(u, names[i]) \in Nodes
  <2>1. PICK R : IsReading(R) BY ReadingExists
  <2>2. Keeps(R, "orderly", After("orderly", names[i]), u, Pass(u, names[i]))
    BY <2>1, PassKeeps
  <2>. QED BY <2>2 DEF Keeps
<1>3. Passes(t, names) = f[m] BY DEF Passes
<1>. HIDE DEF m
<1>4. Q(f)
  <2>1. StepsIn(Nodes, m, F) BY <1>2 DEF StepsIn
  <2>2. PICK w : RunsFrom(Nodes, m, F, t, w)
    <3>. HIDE DEF F
    <3>. QED BY <1>1, <2>1, Recursion
  <2>3. /\ w \in [0..m -> Nodes] /\ w[0] = t
        /\ \A i \in 1..m : w[i] = Pass(w[i - 1], names[i])
    <3>1. /\ w \in [0..m -> Nodes] /\ w[0] = t
          /\ \A i \in 1..m : w[i] = F[<<i, w[i - 1]>>]
      BY <2>2 DEF RunsFrom
    <3>2. ASSUME NEW i \in 1..m PROVE w[i] = Pass(w[i - 1], names[i])
      <4>1. i - 1 \in 0..m BY <1>1
      <4>2. w[i - 1] \in Nodes BY <3>1, <4>1
      <4>. QED BY <3>1, <4>2
    <3>. QED BY <3>1, <3>2
  <2>4. Q(w)
    <3>1. w = [i \in 0..m |-> w[i]] BY <2>3
    <3>2. \A i \in 0..m : w[i] = IF i = 0 THEN t ELSE Pass(w[i - 1], names[i])
      BY <1>1, <2>3
    <3>. QED BY <3>1, <3>2
  <2>. HIDE DEF Q
  <2>. QED BY <2>4
<1>. HIDE DEF f, F
<1>5. f[0] = t /\ \A i \in 1..m : f[i] = Pass(f[i - 1], names[i])
  <2>1. 0 \in 0..m /\ \A i \in 1..m : i \in 0..m /\ i # 0 BY <1>1
  <2>. QED BY <1>4, <2>1
<1>. QED BY <1>3, <1>5 DEF m

\* hows[i] is how items are after i of them.
LEMMA PassesKeep ==
  ASSUME Heights = Nat, NEW R, IsReading(R), NEW t \in Nodes, NEW names, NEW hows, Len(names) \in Nat,
         \A i \in 0..Len(names) : hows[i] \in {"orderly", "neat"},
         \A i \in 1..Len(names) : /\ hows[i] = After(hows[i - 1], names[i])
                                  /\ names[i] # "kids" \/ hows[i - 1] = "orderly"
  PROVE  Keeps(R, hows[0], hows[Len(names)], t, Passes(t, names))
<1>. DEFINE m == Len(names)
<1>1. PICK f : /\ f[0] = t /\ \A i \in 1..m : f[i] = Pass(f[i - 1], names[i])
               /\ Passes(t, names) = f[m]
  BY PassesAre
<1>2. ASSUME NEW i \in 1..m, NEW u \in Nodes
      PROVE  Keeps(R, hows[i - 1], hows[i], u, Pass(u, names[i]))
  <2>1. i - 1 \in 0..m /\ hows[i] = After(hows[i - 1], names[i])
        /\ (names[i] # "kids" \/ hows[i - 1] = "orderly")
    OBVIOUS
  <2>2. hows[i - 1] \in {"orderly", "neat"} BY <2>1
  <2>. QED BY <2>1, <2>2, PassKeeps
<1>3. Keeps(R, hows[0], hows[0], t, t) BY AlikeIs DEF Keeps
<1>. DEFINE T == {i \in 0..m : Keeps(R, hows[0], hows[i], t, f[i])}
<1>4. m \in Nat /\ 0 \in T BY <1>1, <1>3
<1>. HIDE DEF m
<1>5. ASSUME NEW i \in 1..m, i - 1 \in T PROVE i \in T
  <2>1. Keeps(R, hows[0], hows[i - 1], t, f[i - 1]) BY <1>5
  <2>2. f[i - 1] \in Nodes BY <2>1 DEF Keeps
  <2>3. Keeps(R, hows[i - 1], hows[i], f[i - 1], f[i]) BY <1>1, <1>2, <2>2
  <2>4. Keeps(R, hows[0], hows[i], t, f[i]) BY <2>1, <2>3, KeepsOn
  <2>5. i \in 0..m BY <1>4
  <2>. QED BY <2>4, <2>5
<1>6. m \in T
  <2>1. T \in SUBSET (0..m) /\ m \in 0..m BY <1>4
  <2>. HIDE DEF T
  <2>. QED BY <1>4, <1>5, <2>1, StepByStep
<1>. QED BY <1>1, <1>6 DEF m

\* The passes for tables, for lists and for tables of contents.
LEMMA TablePassesKeep ==
  ASSUME Heights = Nat, NEW R, IsReading(R), NEW t \in Nodes
  PROVE  Keeps(R, "orderly", "orderly", t, Passes(t, TablePasses))
<1>. DEFINE names == TablePasses
            hows == [i \in 0..7 |-> "orderly"]
<1>1. Len(names) = 7 /\ \A i \in 1..7 : names[i] # "items" BY DEF TablePasses
<1>. HIDE DEF names
<1>2. /\ \A i \in 0..7 : hows[i] = "orderly"
      /\ \A i \in 1..7 : i - 1 \in 0..7 /\ i \in 0..7
      /\ 0 \in 0..7 /\ 7 \in 0..7 /\ 7 \in Nat
  OBVIOUS
<1>. HIDE DEF hows
<1>3. \A i \in 1..7 : hows[i] = After(hows[i - 1], names[i])
  BY <1>1, <1>2 DEF After
<1>4. Keeps(R, hows[0], hows[Len(names)], t, Passes(t, names))
  <2>1. Len(names) \in Nat /\ \A i \in 0..Len(names) : hows[i] \in {"orderly", "neat"}
    BY <1>1, <1>2
  <2>2. \A i \in 1..Len(names) : /\ hows[i] = After(hows[i - 1], names[i])
                                 /\ names[i] # "kids" \/ hows[i - 1] = "orderly"
    BY <1>1, <1>2, <1>3
  <2>. QED BY <2>1, <2>2, PassesKeep
<1>. QED BY <1>1, <1>2, <1>4 DEF names

LEMMA ListPassesKeep ==
  ASSUME Heights = Nat, NEW R, IsReading(R), NEW t \in Nodes
  PROVE  Keeps(R, "orderly", "neat", t, Passes(t, ListPasses))
<1>. DEFINE names == ListPasses
            hows == [i \in 0..4 |-> IF i >= 3 THEN "neat" ELSE "orderly"]
<1>1. /\ Len(names) = 4 /\ names[1] = "LI" /\ names[2] = "parts" /\ names[3] = "items"
      /\ names[4] = "lists"
  BY DEF ListPasses
<1>. HIDE DEF names
<1>2. /\ hows[0] = "orderly" /\ hows[1] = "orderly" /\ hows[2] = "orderly"
      /\ hows[3] = "neat" /\ hows[4] = "neat"
  OBVIOUS
<1>. HIDE DEF hows
<1>3. \A i \in 0..4 : i = 0 \/ i = 1 \/ i = 2 \/ i = 3 \/ i = 4 OBVIOUS
<1>4. ASSUME NEW i \in 1..4 PROVE /\ hows[i] = After(hows[i - 1], names[i])
                                  /\ names[i] # "kids" \/ hows[i - 1] = "orderly"
  <2>1. \/ i = 1 /\ i - 1 = 0
        \/ i = 2 /\ i - 1 = 1
        \/ i = 3 /\ i - 1 = 2
        \/ i = 4 /\ i - 1 = 3
    OBVIOUS
  <2>. QED BY <1>1, <1>2, <2>1 DEF After
<1>5. Keeps(R, hows[0], hows[Len(names)], t, Passes(t, names))
  <2>1. Len(names) \in Nat /\ \A i \in 0..Len(names) : hows[i] \in {"orderly", "neat"}
    BY <1>1, <1>2, <1>3
  <2>2. \A i \in 1..Len(names) : /\ hows[i] = After(hows[i - 1], names[i])
                                 /\ names[i] # "kids" \/ hows[i - 1] = "orderly"
    BY <1>1, <1>4
  <2>. QED BY <2>1, <2>2, PassesKeep
<1>. QED BY <1>1, <1>2, <1>5 DEF names

LEMMA TwoPassesKeep ==
  ASSUME Heights = Nat, NEW R, IsReading(R), NEW t \in Nodes,
         NEW p, NEW q, {p, q} \cap {"kids", "items"} = {}
  PROVE  Keeps(R, "neat", "neat", t, Passes(t, <<p, q>>))
<1>. DEFINE names == <<p, q>>
            hows == [i \in 0..2 |-> "neat"]
<1>1. Len(names) = 2 /\ \A i \in 1..2 : names[i] \notin {"kids", "items"}
  <2>1. Len(names) = 2 /\ names[1] = p /\ names[2] = q OBVIOUS
  <2>2. p \notin {"kids", "items"} /\ q \notin {"kids", "items"} OBVIOUS
  <2>3. \A i \in 1..2 : i = 1 \/ i = 2 OBVIOUS
  <2>. HIDE DEF names
  <2>. QED BY <2>1, <2>2, <2>3
<1>. HIDE DEF names
<1>2. /\ \A i \in 0..2 : hows[i] = "neat"
      /\ \A i \in 1..2 : i - 1 \in 0..2 /\ i \in 0..2
      /\ 0 \in 0..2 /\ 2 \in 0..2 /\ 2 \in Nat
  OBVIOUS
<1>. HIDE DEF hows
<1>3. \A i \in 1..2 : hows[i] = After(hows[i - 1], names[i])
  BY <1>1, <1>2 DEF After
<1>4. Keeps(R, hows[0], hows[Len(names)], t, Passes(t, names))
  <2>1. Len(names) \in Nat /\ \A i \in 0..Len(names) : hows[i] \in {"orderly", "neat"}
    BY <1>1, <1>2
  <2>2. \A i \in 1..Len(names) : /\ hows[i] = After(hows[i - 1], names[i])
                                 /\ names[i] # "kids" \/ hows[i - 1] = "orderly"
    BY <1>1, <1>2, <1>3
  <2>. QED BY <2>1, <2>2, PassesKeep
<1>. QED BY <1>1, <1>2, <1>4 DEF names

LEMMA EmptyKeeps ==
  ASSUME Heights = Nat, NEW R, IsReading(R), NEW t \in Nodes
  PROVE  Keeps(R, "neat", "neat", t, WithoutEmpty(t))
BY WithoutEmptyKept, AlikeIs DEF Keeps

\* However many passes the clean-up takes.
LEMMA PrunedAre ==
  ASSUME Heights = Nat, NEW t \in Nodes, NEW m \in Nat
  PROVE  \E f : /\ f[0] = t /\ \A i \in 1..m : f[i] = WithoutEmpty(f[i - 1])
                /\ \E e \in 0..m : Pruned(t, m) = f[e]
<1>. DEFINE Q(g) == g = [i \in 0..m |-> IF i = 0 THEN t ELSE WithoutEmpty(g[i - 1])]
            f == CHOOSE g : Q(g)
            F == [q \in (1..m) \X Nodes |-> WithoutEmpty(q[2])]
            clean(i) == \A x \in Below(f[i]) : \A y \in ElemKids(x) : ~Empty(y)
            Stops(i) == /\ i = m \/ clean(i)
                       /\ \A j \in 0..(i - 1) : ~clean(j)
            e == CHOOSE i \in 0..m : Stops(i)
<1>1. Pruned(t, m) = f[e] BY DEF Pruned
<1>2. ASSUME NEW u \in Nodes PROVE WithoutEmpty(u) \in Nodes
  <2>1. PICK R : IsReading(R) BY ReadingExists
  <2>. QED BY <2>1, EmptyKeeps DEF Keeps
<1>3. e \in 0..m
  <2>. DEFINE T == {i \in 0..m : i = m \/ clean(i)}
  <2>. HIDE DEF clean, e
  <2>1. T \subseteq Nat /\ m \in T OBVIOUS
  <2>2. PICK i \in T : \A j \in T : i <= j
    <3>. HIDE DEF T
    <3>. QED BY <2>1, LeastNat
  <2>3. ASSUME NEW j \in 0..(i - 1) PROVE ~clean(j)
    <3>1. j \in 0..m /\ ~(i <= j) BY <2>2
    <3>. QED BY <2>2, <3>1
  <2>4. Stops(i) /\ i \in 0..m BY <2>2, <2>3
  <2>. HIDE DEF Stops
  <2>. QED BY <2>4 DEF e
<1>. HIDE DEF e, Stops, clean
<1>4. Q(f)
  <2>1. StepsIn(Nodes, m, F) BY <1>2 DEF StepsIn
  <2>2. PICK w : RunsFrom(Nodes, m, F, t, w)
    <3>. HIDE DEF F
    <3>. QED BY <2>1, Recursion
  <2>3. /\ w \in [0..m -> Nodes] /\ w[0] = t
        /\ \A i \in 1..m : w[i] = WithoutEmpty(w[i - 1])
    <3>1. /\ w \in [0..m -> Nodes] /\ w[0] = t
          /\ \A i \in 1..m : w[i] = F[<<i, w[i - 1]>>]
      BY <2>2 DEF RunsFrom
    <3>2. ASSUME NEW i \in 1..m PROVE w[i] = WithoutEmpty(w[i - 1])
      <4>1. i - 1 \in 0..m OBVIOUS
      <4>2. w[i - 1] \in Nodes BY <3>1, <4>1
      <4>. QED BY <3>1, <4>2
    <3>. QED BY <3>1, <3>2
  <2>4. Q(w)
    <3>1. w = [i \in 0..m |-> w[i]] BY <2>3
    <3>2. \A i \in 0..m : w[i] = IF i = 0 THEN t ELSE WithoutEmpty(w[i - 1])
      BY <2>3
    <3>. QED BY <3>1, <3>2
  <2>. HIDE DEF Q
  <2>. QED BY <2>4
<1>. HIDE DEF f, F
<1>5. f[0] = t /\ \A i \in 1..m : f[i] = WithoutEmpty(f[i - 1])
  <2>1. 0 \in 0..m /\ \A i \in 1..m : i \in 0..m /\ i # 0 OBVIOUS
  <2>. QED BY <1>4, <2>1
<1>. QED BY <1>1, <1>3, <1>5

LEMMA PrunedKeeps ==
  ASSUME Heights = Nat, NEW R, IsReading(R), NEW t \in Nodes, NEW m \in Nat
  PROVE  Keeps(R, "neat", "neat", t, Pruned(t, m))
<1>1. PICK f : /\ f[0] = t /\ \A i \in 1..m : f[i] = WithoutEmpty(f[i - 1])
               /\ \E e \in 0..m : Pruned(t, m) = f[e]
  BY PrunedAre
<1>. DEFINE T == {i \in 0..m : Keeps(R, "neat", "neat", t, f[i])}
<1>2. 0 \in T
  <2>1. Keeps(R, "neat", "neat", t, t) BY AlikeIs DEF Keeps
  <2>. QED BY <1>1, <2>1
<1>3. ASSUME NEW i \in 1..m, i - 1 \in T PROVE i \in T
  <2>1. Keeps(R, "neat", "neat", t, f[i - 1]) BY <1>3
  <2>2. f[i - 1] \in Nodes BY <2>1 DEF Keeps
  <2>3. Keeps(R, "neat", "neat", f[i - 1], f[i]) BY <1>1, <2>2, EmptyKeeps
  <2>4. Keeps(R, "neat", "neat", t, f[i]) BY <2>1, <2>3, KeepsOn
  <2>5. i \in 0..m OBVIOUS
  <2>. QED BY <2>4, <2>5
<1>4. \A i \in 0..m : i \in T
  <2>1. T \in SUBSET (0..m) OBVIOUS
  <2>. HIDE DEF T
  <2>. QED BY <1>2, <1>3, <2>1, StepByStep
<1>. QED BY <1>1, <1>4

LEMMA CleanupKeeps ==
  ASSUME Heights = Nat, NEW R, IsReading(R), NEW t \in Nodes
  PROVE  Keeps(R, "neat", "neat", t, Cleanup(t))
<1>. DEFINE p == Pruned(t, 10)
            q == Passes(p, <<"regularity", "headers">>)
<1>1. Keeps(R, "neat", "neat", t, p) /\ p \in Nodes BY PrunedKeeps DEF Keeps
<1>2. Cleanup(t) = p \/ Cleanup(t) = q BY DEF Cleanup
<1>. HIDE DEF p
<1>3. Keeps(R, "neat", "neat", p, q) BY <1>1, TwoPassesKeep
<1>. HIDE DEF q
<1>4. Keeps(R, "neat", "neat", t, q) BY <1>1, <1>3, KeepsOn
<1>. QED BY <1>1, <1>2, <1>4

LEMMA FixAllKeeps ==
  ASSUME Heights = Nat, NEW R, IsReading(R), NEW t \in Nodes
  PROVE  Keeps(R, "orderly", "neat", t, FixAll(t))
<1>. DEFINE a == Passes(t, TablePasses)
            b == Passes(a, ListPasses)
            c == Passes(b, ContentPasses)
            d == Cleanup(c)
<1>1. FixAll(t) = d BY DEF FixAll
<1>2. Keeps(R, "orderly", "orderly", t, a) /\ a \in Nodes
  BY TablePassesKeep DEF Keeps
<1>. HIDE DEF a
<1>3. Keeps(R, "orderly", "neat", a, b) /\ b \in Nodes
  BY <1>2, ListPassesKeep DEF Keeps
<1>. HIDE DEF b
<1>4. Keeps(R, "neat", "neat", b, c) /\ c \in Nodes
  <2>1. Keeps(R, "neat", "neat", b, c) BY <1>3, TwoPassesKeep DEF ContentPasses
  <2>. QED BY <2>1 DEF Keeps
<1>. HIDE DEF c
<1>5. Keeps(R, "neat", "neat", c, d) BY <1>4, CleanupKeeps
<1>. HIDE DEF d
<1>6. Keeps(R, "orderly", "neat", t, b) BY <1>2, <1>3, KeepsOn
<1>7. Keeps(R, "orderly", "neat", t, c) BY <1>4, <1>6, KeepsOn
<1>8. Keeps(R, "orderly", "neat", t, d) BY <1>5, <1>7, KeepsOn
<1>. QED BY <1>1, <1>8

-----------------------------------------------------------------------------
(* The documents: what their authors and the fixer make of them.           *)

LEMMA ElemIs ==
  ASSUME NEW s \in Kinds
  PROVE  Elem(s, <<>>) \in Nodes /\ Elem(s, <<>>) \in Trees
<1>1. <<>> \in Seq(Trees) /\ 1 \in Int /\ FALSE \in BOOLEAN OBVIOUS
<1>2. Elem(s, <<>>) \in Nodes BY <1>1 DEF Elem, Nodes, Elements
<1>. QED BY <1>2, TreeKinds

LEMMA ContentIs ==
  ASSUME NEW m \in Nat
  PROVE  Content(m) \in Trees
<1>1. Content(m) \in Leaves BY DEF Content, Leaves
<1>. QED BY <1>1, TreesAre

LEMMA GrownKeepsRoot ==
  ASSUME Heights = Nat, NEW x \in Trees, NEW t \in Nodes, NEW u \in Grown(t, x)
  PROVE  u \in Nodes /\ u.s = t.s
<1>1. PICK w : /\ w \in [Nodes -> SUBSET Nodes]
               /\ \A n \in Nodes : w[n] = GrownFrom(n, x, w)
               /\ \A n \in Nodes : Grown(n, x) = w[n]
  BY GrownIs
<1>2. u \in GrownFrom(t, x, w) BY <1>1
<1>3. CASE u = Taller(t, x) BY <1>3, TallerIs
<1>4. CASE u # Taller(t, x)
  <2>1. t.k # <<>> /\ IsElem(Last(t.k)) BY <1>2, <1>4 DEF GrownFrom
  <2>2. PICK z \in w[Last(t.k)] : u = [t EXCEPT !.k = Append(Front(t.k), z)]
    BY <1>2, <1>4, <2>1 DEF GrownFrom
  <2>3. Last(t.k) \in Nodes
    <3>1. Last(t.k) \in {t.k[i] : i \in DOMAIN t.k} BY <2>1, TallerIs
    <3>2. PICK i \in DOMAIN t.k : Last(t.k) = t.k[i] BY <3>1
    <3>. QED BY <2>1, <3>2, ElemKidsAre
  <2>4. z \in Trees BY <1>1, <2>3, TreeKinds
  <2>. QED BY <2>1, <2>2, <2>4, TallerIs
<1>. QED BY <1>3, <1>4

\* A cell with a reference to content and any spans.
LEMMA CellIs ==
  ASSUME NEW m \in Nat, NEW s \in Kinds, NEW c \in Int, NEW r \in Int
  PROVE  /\ Elem(s, <<Content(m)>>) \in Nodes
         /\ [Elem(s, <<Content(m)>>) EXCEPT !.c = c, !.r = r] \in Nodes
<1>1. <<Content(m)>> \in Seq(Trees) BY ContentIs
<1>2. Elem(s, <<Content(m)>>) \in Elements(Trees) BY <1>1 DEF Elem, Elements
<1>3. [Elem(s, <<Content(m)>>) EXCEPT !.c = c, !.r = r] \in Elements(Trees)
  BY <1>2 DEF Elements
<1>. QED BY <1>2, <1>3 DEF Nodes

LEMMA Unwrapped ==
  ASSUME NEW t \in Nodes, NEW i \in DOMAIN t.k, Type(t.k[i]) = "Table"
  PROVE  LET u == [t EXCEPT !.k[i].bare = TRUE]
         IN u \in Nodes /\ u.s = t.s
<1>. DEFINE x == t.k[i]
            y == [x EXCEPT !.bare = TRUE]
            k == [t.k EXCEPT ![i] = y]
            u == [t EXCEPT !.k = k]
<1>1. x \in Nodes
  <2>1. IsElem(x) BY DEF Type
  <2>. QED BY <2>1, ElemKidsAre
<1>2. y \in Trees
  <2>1. x \in Elements(Trees) BY <1>1 DEF Nodes
  <2>2. y \in Elements(Trees) BY <2>1 DEF Elements
  <2>. QED BY <2>2, TreesAre
<1>3. u = [t EXCEPT !.k[i].bare = TRUE] OBVIOUS
<1>. HIDE DEF x, y
<1>4. k \in Seq(Trees)
  <2>1. t.k \in Seq(Trees) BY TreeKinds
  <2>. QED BY <1>2, <2>1
<1>. HIDE DEF k
<1>5. u \in Elements(Trees) /\ u.s = t.s
  <2>1. t \in Elements(Trees) BY DEF Nodes
  <2>. QED BY <1>4, <2>1 DEF Elements
<1>. QED BY <1>3, <1>5 DEF Nodes

-----------------------------------------------------------------------------
(* The specification.                                                      *)

LEMMA HonestIs ==
  /\ \A t : Honest(t, t)
  /\ \A s, t, u : Honest(t, s) /\ Honest(u, t) => Honest(u, s)
BY AlikeIs DEF Honest

LEMMA ReadingType ==
  ASSUME Heights = Nat, NEW t \in Nodes
  PROVE  Reading(t) \in Seq(Nat) /\ Len(Reading(t)) + 1 \in Nat
<1>1. PICK R : IsReading(R) /\ \A n \in Nodes : Reading(n) = R[n] BY ReadingIs
<1>2. Reading(t) \in Seq(Nat) BY <1>1 DEF IsReading
<1>. DEFINE said == Reading(t)
<1>. HIDE DEF said
<1>3. said \in Seq(Nat) => Len(said) + 1 \in Nat OBVIOUS
<1>. QED BY <1>2, <1>3 DEF said

\* fix_all, and every one of its lists of passes, keeps the content of any tree, and
\* its order where no item of a list has its label or body late.
THEOREM FixingKeepsReading ==
  ASSUME Heights = Nat, NEW t \in Nodes
  PROVE  \A u \in {Passes(t, TablePasses), Passes(t, ListPasses), FixAll(t)} :
           u \in Nodes /\ u.s = t.s /\ Honest(u, t)
<1>1. PICK R : IsReading(R) /\ \A n \in Nodes : Reading(n) = R[n] BY ReadingIs
<1>2. ASSUME NEW u, Keeps(R, "orderly", "orderly", t, u)
      PROVE  u \in Nodes /\ u.s = t.s /\ Honest(u, t)
  <2>1. u \in Nodes /\ u.s = t.s BY <1>2 DEF Keeps
  <2>2. Reading(u) = R[u] /\ Reading(t) = R[t] BY <1>1, <2>1
  <2>. QED BY <1>2, <2>1, <2>2 DEF Keeps, Honest
<1>3. ASSUME NEW u, Keeps(R, "orderly", "neat", t, u) PROVE Keeps(R, "orderly", "orderly", t, u)
  BY <1>3, NeatIsOrderly DEF Keeps
<1>4. /\ Keeps(R, "orderly", "orderly", t, Passes(t, TablePasses))
      /\ Keeps(R, "orderly", "neat", t, Passes(t, ListPasses))
      /\ Keeps(R, "orderly", "neat", t, FixAll(t))
  BY <1>1, TablePassesKeep, ListPassesKeep, FixAllKeeps
<1>. QED BY <1>2, <1>3, <1>4

LEMMA TagsAreKinds ==
  /\ DOMAIN Tags = {"tables", "lists", "contents", "grids"}
  /\ \A f \in DOMAIN Tags : Tags[f] \subseteq Kinds
BY DEF Tags, Kinds

-----------------------------------------------------------------------------
(* Grids: documents that are tables of rows of cells, no row of which is   *)
(* wider or has more cells than b.                                         *)

LEMMA GridKinds ==
  ASSUME NEW b
  PROVE  /\ \A x \in CellNodes : x \in Nodes /\ x.s \in Cells /\ x.k # <<>> /\ x.k \in Seq(Leaves)
         /\ \A x \in RowNodes(b) : /\ x \in Nodes /\ x.s = "TR" /\ x.k \in Seq(CellNodes)
                                   /\ RowTotal(x.k) <= b /\ Len(x.k) <= b
         /\ \A x \in TableNodes(b) : x \in Nodes /\ x.s = "Table" /\ x.k \in Seq(RowNodes(b))
         /\ \A x \in GridNodes(b) : x \in Nodes /\ x.s = "Root" /\ x.k \in Seq(TableNodes(b))
         /\ GridParts(b) \subseteq Nodes
BY DEF CellNodes, RowNodes, TableNodes, GridNodes, GridParts

\* The kids of the elements of a grid.
LEMMA GridKids ==
  ASSUME NEW b
  PROVE  /\ \A x \in CellNodes : \A i \in DOMAIN x.k : ~IsElem(x.k[i]) /\ Type(x.k[i]) = ""
         /\ \A x \in RowNodes(b) : \A i \in DOMAIN x.k :
              x.k[i] \in CellNodes /\ IsElem(x.k[i]) /\ IsCell(x.k[i]) /\ Type(x.k[i]) \in Cells
         /\ \A x \in TableNodes(b) : \A i \in DOMAIN x.k :
              x.k[i] \in RowNodes(b) /\ IsElem(x.k[i]) /\ Type(x.k[i]) = "TR"
         /\ \A x \in GridNodes(b) : \A i \in DOMAIN x.k :
              x.k[i] \in TableNodes(b) /\ IsElem(x.k[i]) /\ Type(x.k[i]) = "Table"
<1>1. ASSUME NEW C, NEW k \in Seq(C), NEW i \in DOMAIN k PROVE k[i] \in C
  OBVIOUS
<1>2. \A x \in Leaves : ~IsElem(x) /\ Type(x) = "" BY DEF Leaves, IsElem, Type
<1>3. ASSUME NEW x \in CellNodes, NEW i \in DOMAIN x.k PROVE ~IsElem(x.k[i]) /\ Type(x.k[i]) = ""
  BY <1>1, <1>2, GridKinds
<1>4. ASSUME NEW x \in RowNodes(b), NEW i \in DOMAIN x.k
      PROVE  x.k[i] \in CellNodes /\ IsElem(x.k[i]) /\ IsCell(x.k[i]) /\ Type(x.k[i]) \in Cells
  <2>1. x.k[i] \in CellNodes BY <1>1, GridKinds
  <2>2. x.k[i] \in Nodes /\ x.k[i].s \in Cells BY <2>1, GridKinds
  <2>3. IsElem(x.k[i]) /\ Type(x.k[i]) = x.k[i].s BY <2>2, TreeKinds
  <2>. QED BY <2>1, <2>2, <2>3 DEF IsCell
<1>5. ASSUME NEW x \in TableNodes(b), NEW i \in DOMAIN x.k
      PROVE  x.k[i] \in RowNodes(b) /\ IsElem(x.k[i]) /\ Type(x.k[i]) = "TR"
  <2>1. x.k[i] \in RowNodes(b) BY <1>1, GridKinds
  <2>. QED BY <2>1, GridKinds, TreeKinds
<1>6. ASSUME NEW x \in GridNodes(b), NEW i \in DOMAIN x.k
      PROVE  x.k[i] \in TableNodes(b) /\ IsElem(x.k[i]) /\ Type(x.k[i]) = "Table"
  <2>1. x.k[i] \in TableNodes(b) BY <1>1, GridKinds
  <2>. QED BY <2>1, GridKinds, TreeKinds
<1>. QED BY <1>3, <1>4, <1>5, <1>6

\* Rows of cells with the same spans are as wide.
LEMMA SameTotals ==
  ASSUME NEW C, NEW k \in Seq(C), NEW j, DOMAIN j = DOMAIN k, NEW D, j \in Seq(D),
         \A i \in DOMAIN k : Span(j[i].c) = Span(k[i].c)
  PROVE  RowTotal(j) = RowTotal(k) /\ Len(j) = Len(k)
<1>1. Len(k) \in Nat /\ DOMAIN k = 1..Len(k) /\ Len(j) \in Nat /\ DOMAIN j = 1..Len(j)
  OBVIOUS
<1>2. Len(j) = Len(k) BY <1>1
<1>3. Sums(j)[Len(k)] = Sums(k)[Len(k)]
  <2>1. Len(k) \in 0..Len(k) BY <1>1
  <2>. QED BY <1>1, <1>2, <2>1, SumsAgree
<1>. QED BY <1>2, <1>3 DEF RowTotal

-----------------------------------------------------------------------------
(* Going on with the kids.                                                 *)

\* Kids that stay in a set.
LEMMA OnwardsWithin ==
  ASSUME NEW C \in SUBSET Nodes, NEW n \in Nodes, n.k \in Seq(C), NEW r, \A y \in C : r[y] \in C
  PROVE  /\ Onwards(n, r) \in Nodes /\ Onwards(n, r).s = n.s
         /\ Onwards(n, r).k \in Seq(C) /\ DOMAIN Onwards(n, r).k = DOMAIN n.k
         /\ \A i \in DOMAIN n.k : n.k[i] \in C /\ Onwards(n, r).k[i] = r[n.k[i]]
<1>. DEFINE m == Onwards(n, r)
<1>1. \A i \in DOMAIN n.k : n.k[i] \in C /\ IsElem(n.k[i])
  <2>1. \A i \in DOMAIN n.k : n.k[i] \in C OBVIOUS
  <2>. QED BY <2>1, TreeKinds
<1>2. \A y \in ElemKids(n) : r[y] \in Nodes BY <1>1, ElemKidsAre
<1>3. /\ m \in Nodes /\ m.s = n.s /\ m.k \in Seq(Trees) /\ DOMAIN m.k = DOMAIN n.k
      /\ \A i \in DOMAIN n.k : m.k[i] = IF IsElem(n.k[i]) THEN r[n.k[i]] ELSE n.k[i]
  BY <1>2, OnwardsIs
<1>. HIDE DEF m
<1>4. \A i \in DOMAIN m.k : m.k[i] \in C BY <1>1, <1>3
<1>5. m.k \in Seq(C)
  <2>. DEFINE k == m.k
  <2>1. k \in Seq(Trees) /\ \A i \in DOMAIN k : k[i] \in C BY <1>3, <1>4
  <2>. HIDE DEF k
  <2>2. k \in Seq(C) BY <2>1
  <2>. QED BY <2>2 DEF k
<1>. QED BY <1>1, <1>3, <1>5 DEF m

\* A cell has nothing to go on with.
LEMMA OnwardsCell ==
  ASSUME NEW x \in CellNodes, NEW r
  PROVE  Onwards(x, r) = x
<1>1. x \in Elements(Trees) /\ x.k \in Seq(Trees)
  BY GridKinds, TreeKinds DEF Nodes
<1>2. \A i \in DOMAIN x.k : ~IsElem(x.k[i]) BY GridKids
<1>. DEFINE k == [i \in DOMAIN x.k |-> IF IsElem(x.k[i]) THEN r[x.k[i]] ELSE x.k[i]]
<1>3. k = x.k BY <1>1, <1>2
<1>4. Onwards(x, r) = [x EXCEPT !.k = k] BY DEF Onwards, Onward
<1>. HIDE DEF k
<1>5. [x EXCEPT !.k = x.k] = x BY <1>1 DEF Elements
<1>. QED BY <1>3, <1>4, <1>5

\* What rewrites an element of a grid and goes on with its kids.
LEMMA OnwardsNarrow ==
  ASSUME NEW b, NEW G, Narrow(b, G), NEW W, \A n \in GridParts(b) : W[n] = Onwards(G[n], W)
  PROVE  Narrow(b, W)
<1>1. /\ \A x \in CellNodes : W[x] = Onwards(G[x], W)
      /\ \A x \in RowNodes(b) : W[x] = Onwards(G[x], W)
      /\ \A x \in TableNodes(b) : W[x] = Onwards(G[x], W)
      /\ \A x \in GridNodes(b) : W[x] = Onwards(G[x], W)
  BY DEF GridParts
<1>2. ASSUME NEW x \in CellNodes PROVE W[x] \in CellNodes /\ Span(W[x].c) = Span(x.c)
  <2>1. G[x] \in CellNodes /\ Span(G[x].c) = Span(x.c) BY DEF Narrow
  <2>. QED BY <1>1, <2>1, OnwardsCell
<1>3. ASSUME NEW x \in RowNodes(b) PROVE W[x] \in RowNodes(b)
  <2>. DEFINE n == G[x]
              m == Onwards(n, W)
  <2>1. n \in RowNodes(b) BY DEF Narrow
  <2>. HIDE DEF n
  <2>2. /\ n \in Nodes /\ n.s = "TR" /\ n.k \in Seq(CellNodes)
        /\ RowTotal(n.k) <= b /\ Len(n.k) <= b
    BY <2>1, GridKinds
  <2>3. CellNodes \in SUBSET Nodes BY GridKinds
  <2>4. /\ m \in Nodes /\ m.s = n.s /\ m.k \in Seq(CellNodes) /\ DOMAIN m.k = DOMAIN n.k
        /\ \A i \in DOMAIN n.k : n.k[i] \in CellNodes /\ m.k[i] = W[n.k[i]]
    BY <1>2, <2>2, <2>3, OnwardsWithin
  <2>. HIDE DEF m
  <2>5. \A i \in DOMAIN n.k : Span(m.k[i].c) = Span(n.k[i].c) BY <1>2, <2>4
  <2>6. RowTotal(m.k) = RowTotal(n.k) /\ Len(m.k) = Len(n.k)
    BY <2>2, <2>4, <2>5, SameTotals
  <2>7. m \in RowNodes(b) BY <2>2, <2>4, <2>6 DEF RowNodes
  <2>. QED BY <1>1, <2>7 DEF m, n
<1>4. ASSUME NEW x \in TableNodes(b) PROVE W[x] \in TableNodes(b)
  <2>. DEFINE n == G[x]
              m == Onwards(n, W)
  <2>1. n \in TableNodes(b) BY DEF Narrow
  <2>. HIDE DEF n
  <2>2. n \in Nodes /\ n.s = "Table" /\ n.k \in Seq(RowNodes(b))
    BY <2>1, GridKinds
  <2>3. RowNodes(b) \in SUBSET Nodes BY GridKinds
  <2>4. m \in Nodes /\ m.s = n.s /\ m.k \in Seq(RowNodes(b))
    BY <1>3, <2>2, <2>3, OnwardsWithin
  <2>. HIDE DEF m
  <2>5. m \in TableNodes(b) BY <2>2, <2>4 DEF TableNodes
  <2>. QED BY <1>1, <2>5 DEF m, n
<1>5. ASSUME NEW x \in GridNodes(b) PROVE W[x] \in GridNodes(b)
  <2>. DEFINE n == G[x]
              m == Onwards(n, W)
  <2>1. n \in GridNodes(b) BY DEF Narrow
  <2>. HIDE DEF n
  <2>2. n \in Nodes /\ n.s = "Root" /\ n.k \in Seq(TableNodes(b))
    BY <2>1, GridKinds
  <2>3. TableNodes(b) \in SUBSET Nodes BY GridKinds
  <2>4. m \in Nodes /\ m.s = n.s /\ m.k \in Seq(TableNodes(b))
    BY <1>4, <2>2, <2>3, OnwardsWithin
  <2>. HIDE DEF m
  <2>5. m \in GridNodes(b) BY <2>2, <2>4 DEF GridNodes
  <2>. QED BY <1>1, <2>5 DEF m, n
<1>. QED BY <1>2, <1>3, <1>4, <1>5 DEF Narrow

LEMMA SameNarrow ==
  ASSUME NEW b
  PROVE  Narrow(b, Same) /\ \A n \in GridParts(b) : Same[n] = n
<1>1. \A n \in Nodes : Same[n] = n BY DEF Same
<1>. QED BY <1>1, GridKinds DEF Narrow

-----------------------------------------------------------------------------
(* Passes that have nothing to do in a grid, or only remove from it.       *)

\* What stands where it may is not wrapped.
LEMMA GridsUnwrapped ==
  ASSUME Heights = Nat, NEW child, NEW wrapper, Suits(child, wrapper), child \notin {"Table", ""},
         NEW b, NEW t \in GridNodes(b)
  PROVE  Wrapped(t, child, wrapper) \in GridNodes(b)
<1>1. wrapper \in Kinds BY DEF Suits
<1>2. PICK W : /\ W \in [Nodes -> Nodes]
               /\ \A x \in Nodes : W[x] = WrapFrom(x, child, wrapper, W)
               /\ \A x \in Nodes : Wrapped(x, child, wrapper) = W[x]
  BY <1>1, WrappedIs
<1>3. ASSUME NEW n \in GridParts(b), NEW i \in DOMAIN n.k PROVE ~Misplaced(n.k[i], n, {child})
  <2>1. CASE n \in CellNodes BY <2>1, GridKids DEF Misplaced
  <2>2. CASE n \in RowNodes(b)
    <3>1. n.s = "TR" /\ Type(n.k[i]) \in Cells /\ IsElem(n.k[i])
      BY <2>2, GridKinds, GridKids
    <3>2. n.k[i].s \in Cells BY <3>1 DEF Type
    <3>. QED BY <3>1, <3>2 DEF Misplaced, Parents, Cells
  <2>3. CASE n \in TableNodes(b)
    <3>1. n.s = "Table" /\ Type(n.k[i]) = "TR" /\ IsElem(n.k[i])
      BY <2>3, GridKinds, GridKids
    <3>2. n.k[i].s = "TR" BY <3>1 DEF Type
    <3>3. "Table" \in Parents("TR") BY DEF Parents, Cells, Sections
    <3>. QED BY <3>1, <3>2, <3>3 DEF Misplaced
  <2>4. CASE n \in GridNodes(b) BY <2>4, GridKids DEF Misplaced
  <2>. QED BY <2>1, <2>2, <2>3, <2>4 DEF GridParts
<1>4. ASSUME NEW n \in GridParts(b) PROVE W[n] = Onwards(Same[n], W)
  <2>1. W[n] = WrapFrom(n, child, wrapper, W) /\ Same[n] = n
    BY <1>2, GridKinds, SameNarrow
  <2>. DEFINE wrong(i) == Misplaced(n.k[i], n, {child})
              k == [i \in DOMAIN n.k |->
                      IF wrong(i) THEN Elem(wrapper, <<n.k[i]>>)
                      ELSE IF IsElem(n.k[i]) THEN W[n.k[i]]
                      ELSE n.k[i]]
              j == [i \in DOMAIN n.k |-> IF IsElem(n.k[i]) THEN W[n.k[i]] ELSE n.k[i]]
  <2>2. WrapFrom(n, child, wrapper, W) = IF \E i \in DOMAIN n.k : wrong(i) THEN SetKids(n, k)
                                         ELSE [n EXCEPT !.k = k]
    BY DEF WrapFrom, WrapNode
  <2>3. \A i \in DOMAIN n.k : ~wrong(i) BY <1>3
  <2>4. k = j BY <2>3
  <2>5. Onwards(n, W) = [n EXCEPT !.k = j] BY DEF Onwards, Onward
  <2>. HIDE DEF wrong, k, j
  <2>. QED BY <2>1, <2>2, <2>3, <2>4, <2>5
<1>5. Narrow(b, W) BY <1>4, SameNarrow, OnwardsNarrow
<1>6. t \in Nodes BY GridKinds
<1>. QED BY <1>2, <1>5, <1>6 DEF Narrow

LEMMA GridsWithoutEntries ==
  ASSUME Heights = Nat, NEW b, NEW t \in GridNodes(b)
  PROVE  WrappedEntries(t) \in GridNodes(b)
<1>1. PICK W : /\ W \in [Nodes -> Nodes]
               /\ \A x \in Nodes : W[x] = EntriesFrom(x, W)
               /\ \A x \in Nodes : WrappedEntries(x) = W[x]
  BY WrappedEntriesIs
<1>2. \A n \in GridParts(b) : \A i \in DOMAIN n.k : Type(n.k[i]) # "TOCI"
  BY GridKids DEF GridParts, Cells
<1>3. ASSUME NEW n \in GridParts(b) PROVE W[n] = Onwards(Same[n], W)
  <2>1. W[n] = EntriesFrom(n, W) /\ Same[n] = n /\ n \in Nodes
    BY <1>1, GridKinds, SameNarrow
  <2>. DEFINE stray(x) == Type(x) = "TOCI" /\ n.s # "TOC"
              new(i) == IF IsElem(n.k[i]) THEN W[n.k[i]] ELSE n.k[i]
              k == [i \in DOMAIN n.k |->
                      LET x == IF IsElem(n.k[i]) THEN W[n.k[i]] ELSE n.k[i]
                      IN IF stray(x) THEN Only("TOC", x) ELSE x]
              j == [i \in DOMAIN n.k |-> IF IsElem(n.k[i]) THEN W[n.k[i]] ELSE n.k[i]]
  <2>2. EntriesFrom(n, W) = IF \E i \in DOMAIN n.k : stray(n.k[i]) THEN SetKids(n, k)
                            ELSE [n EXCEPT !.k = k]
    BY DEF EntriesFrom, EntriesNode
  <2>3. \A i \in DOMAIN n.k : ~stray(n.k[i]) BY <1>2
  <2>4. ASSUME NEW i \in DOMAIN n.k PROVE ~stray(new(i))
    <3>1. CASE IsElem(n.k[i])
      <4>1. n.k[i] \in Nodes BY <2>1, <3>1, ElemKidsAre
      <4>2. W[n.k[i]] \in Nodes /\ W[n.k[i]].s = n.k[i].s
        <5>1. PICK R : IsReading(R) BY ReadingExists
        <5>. QED BY <1>1, <4>1, <5>1, EntriesKept
      <4>3. Type(W[n.k[i]]) = Type(n.k[i]) BY <4>1, <4>2, TreeKinds
      <4>. QED BY <2>3, <3>1, <4>3
    <3>2. CASE ~IsElem(n.k[i]) BY <2>3, <3>2
    <3>. QED BY <3>1, <3>2
  <2>5. k = j BY <2>4
  <2>6. Onwards(n, W) = [n EXCEPT !.k = j] BY DEF Onwards, Onward
  <2>. HIDE DEF stray, new, k, j
  <2>. QED BY <2>1, <2>2, <2>3, <2>5, <2>6
<1>4. Narrow(b, W) BY <1>3, SameNarrow, OnwardsNarrow
<1>5. t \in Nodes BY GridKinds
<1>. QED BY <1>1, <1>4, <1>5 DEF Narrow

\* Sequences of one each, one after the other.
LEMMA FlattenOnes ==
  ASSUME NEW S, NEW k \in Seq(S), NEW ss, DOMAIN ss = DOMAIN k, ss = [i \in DOMAIN ss |-> ss[i]],
         \A i \in DOMAIN k : ss[i] = <<k[i]>>
  PROVE  FlattenSeq(ss) = k
<1>. DEFINE n == Len(k)
            f == [i \in 0..n |-> SubSeq(k, 1, i)]
<1>1. n \in Nat /\ DOMAIN k = 1..n /\ \A i \in 1..n : k[i] \in S OBVIOUS
<1>2. ss \in Seq(Seq(S)) /\ Len(ss) = n
  <2>0. \A x \in S : <<x>> \in Seq(S) OBVIOUS
  <2>1. \A i \in 1..n : ss[i] \in Seq(S) BY <1>1, <2>0
  <2>2. ss \in [1..n -> Seq(S)] BY <1>1, <2>1
  <2>. HIDE DEF n
  <2>. QED BY <1>1, <2>2, SeqOfFunction
<1>. HIDE DEF n
<1>3. Adds(f, ss)
  <2>1. f[0] = <<>>
    <3>1. f[0] = SubSeq(k, 1, 0) BY <1>1
    <3>2. SubSeq(k, 1, 0) = <<>> BY SubSeqEmpty
    <3>. QED BY <3>1, <3>2
  <2>2. ASSUME NEW i \in 1..n PROVE f[i] = f[i - 1] \o ss[i]
    <3>0. i \in 0..n /\ i - 1 \in 0..n /\ i \in Int /\ 1 <= i /\ i <= n BY <1>1
    <3>1. f[i] = SubSeq(k, 1, i) /\ f[i - 1] = SubSeq(k, 1, i - 1) /\ ss[i] = <<k[i]>>
      BY <1>1, <3>0
    <3>2. SubSeq(k, 1, i) = SubSeq(k, 1, i - 1) \o <<k[i]>>
      <4>1. 1 \in 1..Len(k) /\ i \in 1..Len(k) BY <1>1, <3>0 DEF n
      <4>. QED BY <4>1, SubSeqRecursiveSecond
    <3>. QED BY <3>1, <3>2
  <2>. QED BY <1>2, <2>1, <2>2 DEF Adds
<1>4. f[n] = k
  <2>1. f[n] = SubSeq(k, 1, n) BY <1>1
  <2>. QED BY <2>1, SubSeqFull DEF n
<1>. HIDE DEF f
<1>. QED BY <1>2, <1>3, <1>4, FlattenAdds

\* Nothing empty, nothing removed.
LEMMA KeptAll ==
  ASSUME NEW n \in Nodes, \A i \in DOMAIN n.k : ~Empty(n.k[i])
  PROVE  Kept(n.k) = n.k
<1>. DEFINE ss == [i \in DOMAIN n.k |-> IF Empty(n.k[i]) THEN <<>> ELSE <<n.k[i]>>]
<1>1. n.k \in Seq(Trees) BY TreeKinds
<1>2. DOMAIN ss = DOMAIN n.k /\ ss = [i \in DOMAIN ss |-> ss[i]] /\ \A i \in DOMAIN n.k : ss[i] = <<n.k[i]>>
  OBVIOUS
<1>3. Kept(n.k) = FlattenSeq(ss) BY DEF Kept
<1>. HIDE DEF ss
<1>. QED BY <1>1, <1>2, <1>3, FlattenOnes

\* Those kept are some of those there were.
LEMMA KeptAmong ==
  ASSUME NEW C, NEW k \in Seq(C)
  PROVE  Kept(k) \in Seq(C)
<1>. DEFINE ss == [i \in DOMAIN k |-> IF Empty(k[i]) THEN <<>> ELSE <<k[i]>>]
<1>1. Len(k) \in Nat /\ DOMAIN k = 1..Len(k) /\ \A i \in 1..Len(k) : k[i] \in C
  OBVIOUS
<1>2. ss \in [1..Len(k) -> Seq(C)]
  <2>1. \A x \in C : <<x>> \in Seq(C) OBVIOUS
  <2>2. <<>> \in Seq(C) OBVIOUS
  <2>3. \A i \in 1..Len(k) : ss[i] \in Seq(C) BY <1>1, <2>1, <2>2
  <2>. QED BY <1>1, <2>3
<1>. HIDE DEF ss
<1>3. ss \in Seq(Seq(C)) BY <1>1, <1>2, SeqOfFunction
<1>4. Kept(k) = FlattenSeq(ss) BY DEF Kept, ss
<1>. QED BY <1>3, <1>4, FlattenType

LEMMA TrimmedIs ==
  ASSUME NEW n \in Nodes, NEW r, \A y \in ElemKids(n) : r[y] \in Nodes
  PROVE  /\ Trimmed(n) \in Nodes /\ Trimmed(n).s = n.s /\ Trimmed(n).k = Kept(n.k)
         /\ PruneFrom(n, r) = Onwards(Trimmed(n), r)
<1>. DEFINE k == Kept(n.k)
            m == [n EXCEPT !.k = k]
            t == SetKids(n, k)
            j == [i \in DOMAIN k |-> IF IsElem(k[i]) THEN r[k[i]] ELSE k[i]]
<1>1. k \in Seq(Trees) /\ m \in Nodes /\ m.k = k /\ ElemKids(m) \subseteq ElemKids(n)
  BY KeptKids
<1>2. n \in Elements(Trees) BY DEF Nodes
<1>3. PruneFrom(n, r) = IF k = n.k THEN Onwards(n, r) ELSE SetKids(n, Onwards(m, r).k)
  BY DEF PruneFrom, PruneNode, Onwards, Kept
<1>. HIDE DEF k
<1>4. t \in Nodes /\ t.s = n.s /\ t.k = k
  <2>1. PICK R : IsReading(R) BY ReadingExists
  <2>. QED BY <1>1, <2>1, NewElements, ZenonT(30)
<1>5. Trimmed(n) = IF k = n.k THEN n ELSE t BY DEF Trimmed, k
<1>6. CASE k = n.k BY <1>3, <1>5, <1>6 DEF k
<1>7. CASE k # n.k
  <2>1. Onwards(m, r) = [m EXCEPT !.k = j] BY <1>1 DEF Onwards, Onward
  <2>2. Onwards(t, r) = [t EXCEPT !.k = j] BY <1>4 DEF Onwards, Onward
  <2>3. m \in Elements(Trees) /\ t \in Elements(Trees) BY <1>1, <1>4 DEF Nodes
  <2>4. Onwards(m, r).k = j BY <2>1, <2>3 DEF Elements
  <2>5. Len(j) = Len(k)
    <3>1. DOMAIN j = 1..Len(k) /\ Len(k) \in Nat BY <1>1
    <3>. QED BY <3>1
  <2>. HIDE DEF j
  <2>6. SetKids(n, j) = [t EXCEPT !.k = j] BY <1>2, <2>5 DEF SetKids, Elements
  <2>. QED BY <1>3, <1>4, <1>5, <1>7, <2>2, <2>4, <2>6 DEF k
<1>. QED BY <1>6, <1>7

LEMMA GridsPruned ==
  ASSUME Heights = Nat, NEW b, NEW t \in GridNodes(b)
  PROVE  WithoutEmpty(t) \in GridNodes(b)
<1>1. PICK W : /\ W \in [Nodes -> Nodes]
               /\ \A x \in Nodes : W[x] = PruneFrom(x, W)
               /\ \A x \in Nodes : WithoutEmpty(x) = W[x]
  BY WithoutEmptyIs
<1>. DEFINE G == [n \in Nodes |-> Trimmed(n)]
<1>2. \A n \in Nodes : /\ G[n] = Trimmed(n)
                       /\ G[n] \in Nodes /\ G[n].s = n.s /\ G[n].k = Kept(n.k)
                       /\ W[n] = Onwards(G[n], W)
  <2>1. SUFFICES ASSUME NEW n \in Nodes
                 PROVE  /\ Trimmed(n) \in Nodes /\ Trimmed(n).s = n.s /\ Trimmed(n).k = Kept(n.k)
                        /\ W[n] = Onwards(Trimmed(n), W)
    OBVIOUS
  <2>2. \A y \in ElemKids(n) : W[y] \in Nodes BY <1>1, ElemKidsAre
  <2>. QED BY <1>1, <2>2, TrimmedIs
<1>. HIDE DEF G
<1>3. ASSUME NEW x \in CellNodes \cup RowNodes(b) PROVE G[x] = x
  <2>1. x \in Nodes BY GridKinds
  <2>2. ASSUME NEW i \in DOMAIN x.k PROVE ~Empty(x.k[i])
    <3>1. CASE x \in CellNodes BY <3>1, GridKids DEF Empty
    <3>2. CASE x \in RowNodes(b)
      <4>1. x.k[i] \in CellNodes BY <3>2, GridKids
      <4>. QED BY <4>1, GridKinds DEF Empty
    <3>. QED BY <3>1, <3>2
  <2>3. Kept(x.k) = x.k BY <2>1, <2>2, KeptAll
  <2>. QED BY <1>2, <2>1, <2>3 DEF Trimmed
<1>4. ASSUME NEW x \in TableNodes(b) PROVE G[x] \in TableNodes(b)
  <2>1. x \in Nodes /\ x.s = "Table" /\ Kept(x.k) \in Seq(RowNodes(b))
    BY GridKinds, KeptAmong
  <2>. QED BY <1>2, <2>1 DEF TableNodes
<1>5. ASSUME NEW x \in GridNodes(b) PROVE G[x] \in GridNodes(b)
  <2>1. x \in Nodes /\ x.s = "Root" /\ Kept(x.k) \in Seq(TableNodes(b))
    BY GridKinds, KeptAmong
  <2>. QED BY <1>2, <2>1 DEF GridNodes
<1>6. Narrow(b, G) BY <1>3, <1>4, <1>5 DEF Narrow
<1>7. Narrow(b, W) BY <1>2, <1>6, GridKinds, OnwardsNarrow
<1>8. t \in Nodes BY GridKinds
<1>. QED BY <1>1, <1>7, <1>8 DEF Narrow

\* No step gives the elements of a grid other kids.
LEMMA GridsRekidded ==
  ASSUME NEW b, NEW n \in GridParts(b), NEW step
  PROVE  Rekidded(n, step) = n
<1>1. n \in Nodes /\ n.s \in Cells \cup {"TR", "Table", "Root"}
  BY GridKinds DEF GridParts
<1>2. n.s # "LI" /\ n.s # "L" /\ n.s # "TOC" BY <1>1 DEF Cells
<1>3. CASE n.s = "Table"
  <2>1. \A i \in DOMAIN n.k : Type(n.k[i]) = "TR"
    <3>1. n \in TableNodes(b) BY <1>3, GridKinds DEF GridParts, Cells
    <3>. QED BY <3>1, GridKids
  <2>2. TableKids(n) = n BY <2>1 DEF TableKids
  <2>3. PromotedHead(n) = n
    <3>. DEFINE I == {j \in 1..Len(n.k) : HeaderFirst(n.k[j])}
    <3>1. SelectInSeq(n.k, HeaderFirst) = IF I # {} THEN Min(I) ELSE 0
      BY DEF SelectInSeq
    <3>2. I = {} BY <1>1, <2>1, TreeKinds DEF HeaderFirst
    <3>. HIDE DEF I
    <3>3. SelectInSeq(n.k, HeaderFirst) = 0 BY <3>1, <3>2
    <3>. QED BY <3>3 DEF PromotedHead
  <2>. QED BY <1>2, <1>3, <2>2, <2>3 DEF Rekidded
<1>4. CASE n.s = "TR"
  <2>1. \A i \in DOMAIN n.k : IsCell(n.k[i])
    <3>1. n \in RowNodes(b) BY <1>4, GridKinds DEF GridParts, Cells
    <3>. QED BY <3>1, GridKids
  <2>2. RowKids(n) = n BY <2>1 DEF RowKids
  <2>. QED BY <1>2, <1>4, <2>2 DEF Rekidded
<1>5. CASE n.s \notin {"Table", "TR"}
  <2>1. \A i \in DOMAIN n.k : Type(n.k[i]) \in {"", "Table"}
    <3>1. n \in CellNodes \/ n \in GridNodes(b) BY <1>5, GridKinds DEF GridParts
    <3>. QED BY <3>1, GridKids
  <2>2. \A i \in DOMAIN n.k : Type(n.k[i]) \notin Sections BY <2>1 DEF Sections
  <2>3. GroupedSections(n) = n BY <2>2 DEF GroupedSections
  <2>. QED BY <1>2, <1>5, <2>3 DEF Rekidded
<1>. QED BY <1>3, <1>4, <1>5

-----------------------------------------------------------------------------
(* Headers and spans of a grid.                                            *)

\* Cells with other types and spans are cells.
LEMMA CellRemade ==
  ASSUME NEW x \in CellNodes, NEW s \in Cells, NEW v \in Int
  PROVE  /\ [x EXCEPT !.s = s] \in CellNodes /\ [x EXCEPT !.s = s].c = x.c
         /\ [x EXCEPT !.c = v] \in CellNodes /\ [x EXCEPT !.c = v].c = v
<1>1. x \in Elements(Trees) /\ x.s \in Cells /\ x.k # <<>> /\ x.k \in Seq(Leaves)
  BY GridKinds DEF Nodes
<1>2. s \in Kinds BY DEF Cells, Kinds
<1>. DEFINE y == [x EXCEPT !.s = s]
            z == [x EXCEPT !.c = v]
<1>3. y \in Elements(Trees) /\ y.s = s /\ y.k = x.k /\ y.c = x.c
  BY <1>1, <1>2 DEF Elements
<1>4. z \in Elements(Trees) /\ z.s = x.s /\ z.k = x.k /\ z.c = v
  BY <1>1 DEF Elements
<1>. HIDE DEF y, z
<1>5. y \in CellNodes BY <1>1, <1>3 DEF CellNodes, Nodes
<1>6. z \in CellNodes BY <1>1, <1>4 DEF CellNodes, Nodes
<1>. QED BY <1>3, <1>4, <1>5, <1>6 DEF y, z

\* A row whose cells are remade with the same spans.
LEMMA RowRemade ==
  ASSUME NEW b, NEW n \in RowNodes(b), NEW k, k = [i \in DOMAIN n.k |-> k[i]],
         \A i \in DOMAIN n.k : k[i] \in CellNodes /\ Span(k[i].c) = Span(n.k[i].c)
  PROVE  [n EXCEPT !.k = k] \in RowNodes(b)
<1>1. n \in Nodes /\ n.s = "TR" /\ n.k \in Seq(CellNodes) /\ RowTotal(n.k) <= b /\ Len(n.k) <= b
  BY GridKinds
<1>2. DOMAIN k = DOMAIN n.k /\ DOMAIN n.k = 1..Len(n.k) /\ Len(n.k) \in Nat
  BY <1>1, TreeKinds
<1>3. k \in Seq(CellNodes)
  <2>1. k \in [1..Len(n.k) -> CellNodes] BY <1>2
  <2>. QED BY <1>2, <2>1, SeqOfFunction
<1>4. RowTotal(k) = RowTotal(n.k) /\ Len(k) = Len(n.k)
  BY <1>1, <1>2, <1>3, SameTotals
<1>. DEFINE m == [n EXCEPT !.k = k]
<1>5. m \in Nodes /\ m.k = k /\ m.s = n.s
  <2>1. k \in [DOMAIN n.k -> Trees]
    <3>1. \A x \in CellNodes : x \in Trees BY GridKinds, TreeKinds
    <3>. QED BY <1>2, <3>1
  <2>. QED BY <1>1, <2>1, NewKids, ZenonT(30)
<1>. HIDE DEF m
<1>6. m \in RowNodes(b) BY <1>1, <1>3, <1>4, <1>5 DEF RowNodes
<1>. QED BY <1>6 DEF m

\* A table whose rows are remade.
LEMMA TableRemade ==
  ASSUME NEW b, NEW n \in TableNodes(b), NEW k, k = [i \in DOMAIN n.k |-> k[i]],
         \A i \in DOMAIN n.k : k[i] \in RowNodes(b)
  PROVE  [n EXCEPT !.k = k] \in TableNodes(b)
<1>1. n \in Nodes /\ n.s = "Table" BY GridKinds
<1>2. DOMAIN k = DOMAIN n.k /\ DOMAIN n.k = 1..Len(n.k) /\ Len(n.k) \in Nat
  BY <1>1, TreeKinds
<1>3. k \in Seq(RowNodes(b))
  <2>1. k \in [1..Len(n.k) -> RowNodes(b)] BY <1>2
  <2>. QED BY <1>2, <2>1, SeqOfFunction
<1>. DEFINE m == [n EXCEPT !.k = k]
<1>4. m \in Nodes /\ m.k = k /\ m.s = n.s
  <2>1. k \in [DOMAIN n.k -> Trees]
    <3>1. \A x \in RowNodes(b) : x \in Trees BY GridKinds, TreeKinds
    <3>. QED BY <1>2, <3>1
  <2>. QED BY <1>1, <2>1, NewKids, ZenonT(30)
<1>. HIDE DEF m
<1>5. m \in TableNodes(b) BY <1>1, <1>3, <1>4 DEF TableNodes
<1>. QED BY <1>5 DEF m

\* The first row of a table may become its header.
LEMMA GridsHeaded ==
  ASSUME Heights = Nat, NEW b, NEW t \in TableNodes(b)
  PROVE  Headed(t) \in TableNodes(b)
<1>1. t \in Nodes /\ t.s = "Table" /\ Len(t.k) \in Nat /\ DOMAIN t.k = 1..Len(t.k)
  BY GridKinds, TreeKinds
<1>2. PICK row, w : /\ \A n \in Nodes : w[n] = HeadedFrom(n, row, w)
                    /\ FirstRowAsHeader(t) = w[t]
  BY <1>1, HeadersAre
<1>3. ASSUME NEW n \in RowNodes(b) PROVE w[n] \in RowNodes(b)
  <2>. DEFINE k == [j \in DOMAIN n.k |->
                      IF Type(n.k[j]) = "TD" THEN [n.k[j] EXCEPT !.s = "TH"] ELSE n.k[j]]
  <2>1. n \in Nodes /\ n.s = "TR" BY GridKinds
  <2>2. w[n] = [n EXCEPT !.k = k] BY <1>2, <2>1 DEF HeadedFrom
  <2>3. ASSUME NEW j \in DOMAIN n.k PROVE k[j] \in CellNodes /\ Span(k[j].c) = Span(n.k[j].c)
    <3>1. n.k[j] \in CellNodes BY GridKids
    <3>2. "TH" \in Cells BY DEF Cells
    <3>. DEFINE x == n.k[j]
    <3>. HIDE DEF x
    <3>3. [x EXCEPT !.s = "TH"] \in CellNodes /\ [x EXCEPT !.s = "TH"].c = x.c
      <4>1. 1 \in Int OBVIOUS
      <4>. QED BY <3>1, <3>2, <4>1, CellRemade DEF x
    <3>4. k[j] = [x EXCEPT !.s = "TH"] \/ k[j] = x BY DEF x
    <3>. QED BY <3>1, <3>3, <3>4 DEF x
  <2>4. k = [j \in DOMAIN n.k |-> k[j]] OBVIOUS
  <2>. HIDE DEF k
  <2>. QED BY <2>2, <2>3, <2>4, RowRemade
<1>. DEFINE I == {j \in 1..Len(t.k) : Type(t.k[j]) \in {"TR"} \cup Sections /\ row[t.k[j]]}
            i == SelectInSeq(t.k, LAMBDA y : Type(y) \in {"TR"} \cup Sections /\ row[y])
            k == [t.k EXCEPT ![i] = w[t.k[i]]]
<1>4. i = 0 \/ i \in DOMAIN t.k
  <2>1. i = IF I # {} THEN Min(I) ELSE 0 BY DEF SelectInSeq
  <2>2. I \in SUBSET (1..Len(t.k)) OBVIOUS
  <2>. HIDE DEF I, i
  <2>3. i = 0 \/ i \in I BY <1>1, <2>1, <2>2, FirstOfSome
  <2>. QED BY <1>1, <2>2, <2>3
<1>5. w[t] = IF i = 0 THEN t ELSE [t EXCEPT !.k = k]
  BY <1>1, <1>2 DEF HeadedFrom
<1>. HIDE DEF i
<1>6. [t EXCEPT !.k = k] \in TableNodes(b)
  <2>1. t.k \in Seq(Trees) BY <1>1, TreeKinds
  <2>2. \A j \in DOMAIN t.k : t.k[j] \in RowNodes(b) BY GridKids
  <2>3. k = [j \in DOMAIN t.k |-> k[j]] BY <2>1
  <2>4. \A j \in DOMAIN t.k : k[j] \in RowNodes(b) BY <1>3, <2>1, <2>2
  <2>. HIDE DEF k
  <2>. QED BY <2>3, <2>4, TableRemade
<1>7. w[t] \in TableNodes(b) BY <1>5, <1>6
<1>. QED BY <1>2, <1>7 DEF Headed

\* In a row of nothing but cells all kids are cells.
LEMMA CellsAmongAll ==
  ASSUME NEW S, NEW k \in Seq(S), \A i \in DOMAIN k : IsCell(k[i])
  PROVE  CellsAmong(k) = k
<1>. DEFINE ss == [i \in DOMAIN k |-> IF IsCell(k[i]) THEN <<k[i]>> ELSE <<>>]
<1>1. DOMAIN ss = DOMAIN k /\ ss = [i \in DOMAIN ss |-> ss[i]] /\ \A i \in DOMAIN k : ss[i] = <<k[i]>>
  OBVIOUS
<1>2. CellsAmong(k) = FlattenSeq(ss) BY DEF CellsAmong
<1>. HIDE DEF ss
<1>. QED BY <1>1, <1>2, FlattenOnes

\* The rows of a table of a grid are the cells of its rows.
LEMMA GridRows ==
  ASSUME Heights = Nat, NEW b, NEW t \in TableNodes(b), NEW m
  PROVE  /\ RowsOf(m)[t] = [i \in DOMAIN t.k |-> t.k[i].k]
         /\ \A i \in DOMAIN t.k : RowsOf(m)[t.k[i]] = <<t.k[i].k>>
<1>1. PICK w : /\ \A n \in Nodes : w[n] = RowsFrom(n, w)
               /\ \A n \in Nodes : \A l : RowsOf(l)[n] = w[n]
  BY RowsOfIs
<1>2. ASSUME NEW n \in RowNodes(b) PROVE w[n] = <<n.k>>
  <2>1. n \in Nodes /\ n.s = "TR" /\ n.k \in Seq(CellNodes) BY GridKinds
  <2>2. \A i \in DOMAIN n.k : IsCell(n.k[i]) BY GridKids
  <2>3. CellsAmong(n.k) = n.k BY <2>1, <2>2, CellsAmongAll
  <2>4. w[n] = <<CellsAmong(n.k)>> BY <1>1, <2>1 DEF RowsFrom
  <2>. QED BY <2>3, <2>4
<1>3. ASSUME NEW i \in DOMAIN t.k PROVE t.k[i] \in RowNodes(b) /\ t.k[i] \in Nodes /\ Type(t.k[i]) = "TR"
  BY GridKids, GridKinds
<1>4. t \in Nodes /\ t.s = "Table" BY GridKinds
<1>. DEFINE k == [i \in DOMAIN t.k |-> t.k[i].k]
            ss == [i \in DOMAIN t.k |-> IF Type(t.k[i]) \in Grids THEN w[t.k[i]] ELSE <<>>]
<1>5. w[t] = FlattenSeq(ss) BY <1>1, <1>4 DEF RowsFrom
<1>6. ASSUME NEW i \in DOMAIN t.k PROVE ss[i] = <<k[i]>> /\ k[i] \in Seq(Trees)
  <2>1. "TR" \in Grids BY DEF Grids
  <2>. QED BY <1>2, <1>3, <2>1, TreeKinds
<1>7. k \in Seq(Seq(Trees))
  <2>1. DOMAIN t.k = 1..Len(t.k) /\ Len(t.k) \in Nat BY <1>4, TreeKinds
  <2>2. k \in [1..Len(t.k) -> Seq(Trees)] BY <1>6, <2>1
  <2>. HIDE DEF k
  <2>. QED BY <2>1, <2>2, SeqOfFunction
<1>8. DOMAIN ss = DOMAIN k /\ ss = [i \in DOMAIN ss |-> ss[i]] /\ DOMAIN k = DOMAIN t.k
  OBVIOUS
<1>9. FlattenSeq(ss) = k
  <2>. HIDE DEF ss, k
  <2>. QED BY <1>6, <1>7, <1>8, FlattenOnes
<1>. QED BY <1>1, <1>2, <1>3, <1>4, <1>5, <1>9

\* Kids that are rows are counted one by one.
LEMMA OneRowEach ==
  ASSUME NEW n \in Nodes, NEW a \in Nat, NEW of, \A y \in ElemKids(n) : Len(of[y]) \in Nat
  PROVE  /\ RowsAbove(n, a, of)[0] = a
         /\ (\A j \in 1..Len(n.k) : Type(n.k[j]) \in Grids /\ Len(of[n.k[j]]) = 1)
              => \A j \in 1..Len(n.k) : RowsAbove(n, a, of)[j] = RowsAbove(n, a, of)[j - 1] + 1
<1>1. /\ RowsAbove(n, a, of)[0] = a
      /\ \A j \in 1..Len(n.k) :
           RowsAbove(n, a, of)[j] = RowsAbove(n, a, of)[j - 1]
                                      + IF Type(n.k[j]) \in Grids THEN Len(of[n.k[j]]) ELSE 0
  BY RowsAboveStep
<1>. QED BY <1>1

\* The rows of a table of a grid are counted one by one.
LEMMA GridRowsAbove ==
  ASSUME Heights = Nat, NEW b, NEW t \in TableNodes(b), NEW m, NEW i \in DOMAIN t.k
  PROVE  RowsAbove(t, 0, RowsOf(m))[i - 1] = i - 1
<1>0. /\ RowsOf(m)[t] = [l \in DOMAIN t.k |-> t.k[l].k]
      /\ \A l \in DOMAIN t.k : RowsOf(m)[t.k[l]] = <<t.k[l].k>>
  BY GridRows
<1>1. t \in Nodes /\ Len(t.k) \in Nat /\ DOMAIN t.k = 1..Len(t.k)
  BY GridKinds, TreeKinds
<1>2. ASSUME NEW j \in 1..Len(t.k)
      PROVE  Type(t.k[j]) \in Grids /\ Len(RowsOf(m)[t.k[j]]) = 1
  <2>1. \A l \in DOMAIN t.k : Type(t.k[l]) = "TR" BY GridKids
  <2>2. RowsOf(m)[t.k[j]] = <<t.k[j].k>> /\ Type(t.k[j]) = "TR"
    BY <1>0, <1>1, <2>1
  <2>. QED BY <2>2 DEF Grids
<1>3. \A y \in ElemKids(t) : Len(RowsOf(m)[y]) \in Nat BY <1>1, RowsAreMany
<1>. DEFINE n == Len(t.k)
            g == RowsAbove(t, 0, RowsOf(m))
            T == {j \in Nat : j <= n => g[j] = j}
<1>4. n \in Nat /\ i - 1 \in Nat /\ i - 1 <= n BY <1>1
<1>5. g[0] = 0 /\ \A j \in 1..n : g[j] = g[j - 1] + 1
  BY <1>1, <1>2, <1>3, OneRowEach
<1>. HIDE DEF g, n
<1>6. 0 \in T BY <1>5
<1>7. ASSUME NEW j \in Nat, j \in T PROVE j + 1 \in T
  <2>1. SUFFICES ASSUME j + 1 <= n PROVE g[j + 1] = j + 1 OBVIOUS
  <2>2. j + 1 \in 1..n /\ (j + 1) - 1 = j /\ j <= n BY <1>4, <2>1
  <2>3. g[j + 1] = g[j] + 1 /\ g[j] = j BY <1>5, <1>7, <2>2
  <2>. QED BY <2>3
<1>8. T = Nat
  <2>1. T \in SUBSET Nat OBVIOUS
  <2>. HIDE DEF T
  <2>. QED BY <1>6, <1>7, <2>1, FromZeroOn
<1>. QED BY <1>4, <1>8 DEF g

\* The cells of a row of a grid are counted one by one.
LEMMA CellsUpTo ==
  ASSUME NEW b, NEW n \in RowNodes(b), NEW j \in DOMAIN n.k
  PROVE  Len(CellsAmong(SubSeq(n.k, 1, j))) = j
<1>. DEFINE k == n.k
            u == SubSeq(k, 1, j)
<1>1. k \in Seq(CellNodes) /\ \A i \in DOMAIN k : IsCell(k[i])
  BY GridKinds, GridKids
<1>2. j \in DOMAIN k OBVIOUS
<1>. HIDE DEF k
<1>3. Len(k) \in Nat /\ DOMAIN k = 1..Len(k) /\ j \in 1..Len(k) BY <1>1, <1>2
<1>4. u \in Seq(CellNodes) /\ Len(u) = j /\ \A i \in 1..j : u[i] = k[i]
  <2>1. j \in Nat /\ j >= 1 /\ j <= Len(k) BY <1>3
  <2>. QED BY <1>1, <1>3, <2>1
<1>. HIDE DEF u
<1>5. \A i \in DOMAIN u : IsCell(u[i])
  <2>1. DOMAIN u = 1..j BY <1>3, <1>4
  <2>2. \A i \in 1..j : i \in DOMAIN k BY <1>3
  <2>. QED BY <1>1, <1>4, <2>1, <2>2
<1>6. CellsAmong(u) = u BY <1>4, <1>5, CellsAmongAll
<1>. QED BY <1>4, <1>6 DEF u, k

\* The rows of a table of a grid, as tables are laid out.
LEMMA GridCells ==
  ASSUME Heights = Nat, NEW b, NEW t \in TableNodes(b)
  PROVE  /\ Rows(t) \in Seq(Seq(TableCell(Seq(Trees)))) /\ Len(Rows(t)) = Len(t.k)
         /\ \A i \in DOMAIN t.k : Rows(t)[i] = t.k[i].k
<1>. DEFINE k == [i \in DOMAIN t.k |-> t.k[i].k]
            C == TableCell(Seq(Trees))
<1>1. Rows(t) = k BY GridRows DEF Rows
<1>2. DOMAIN t.k = 1..Len(t.k) /\ Len(t.k) \in Nat BY GridKinds, TreeKinds
<1>3. CellNodes \subseteq C BY DEF CellNodes, Cells, Nodes, Elements, TableCell
<1>. HIDE DEF C
<1>4. \A i \in DOMAIN t.k : t.k[i].k \in Seq(C)
  <2>1. ASSUME NEW i \in DOMAIN t.k PROVE t.k[i].k \in Seq(C)
    <3>. DEFINE q == t.k[i].k
    <3>1. q \in Seq(CellNodes) BY GridKids, GridKinds
    <3>. HIDE DEF q
    <3>2. q \in Seq(C) BY <1>3, <3>1
    <3>. QED BY <3>2 DEF q
  <2>. QED BY <2>1
<1>5. k \in [1..Len(t.k) -> Seq(C)] /\ \A i \in DOMAIN t.k : k[i] = t.k[i].k
  BY <1>2, <1>4
<1>. HIDE DEF k
<1>6. k \in Seq(Seq(C)) /\ Len(k) = Len(t.k) BY <1>2, <1>5, SeqOfFunction
<1>. QED BY <1>1, <1>5, <1>6 DEF C

\* A row with the spans of a row that is no wider than b.
LEMMA RowSpanned ==
  ASSUME NEW b, NEW n \in RowNodes(b), NEW a \in Nat, NEW of, NEW rows, NEW w,
         NEW C, rows[a + 1] \in Seq(C), Len(rows[a + 1]) = Len(n.k), RowTotal(rows[a + 1]) <= b
  PROVE  SpansFrom(n, a, of, rows, w) \in RowNodes(b)
<1>. DEFINE new == rows[a + 1]
            k == [j \in DOMAIN n.k |-> [n.k[j] EXCEPT !.c = Span(new[j].c)]]
            m == [n EXCEPT !.k = k]
<1>1. n \in Nodes /\ n.s = "TR" /\ Len(n.k) <= b /\ DOMAIN n.k = 1..Len(n.k) /\ Len(n.k) \in Nat
  BY GridKinds, TreeKinds
<1>2. SpansFrom(n, a, of, rows, w) = m
  <2>1. \A j \in DOMAIN n.k : IsCell(n.k[j]) /\ Len(CellsAmong(SubSeq(n.k, 1, j))) = j
    BY GridKids, CellsUpTo
  <2>. QED BY <1>1, <2>1 DEF SpansFrom
<1>3. ASSUME NEW j \in DOMAIN n.k PROVE k[j] \in CellNodes /\ k[j].c = Span(new[j].c)
  <2>. DEFINE x == n.k[j]
              v == Span(new[j].c)
  <2>1. x \in CellNodes BY GridKids
  <2>2. v \in Int BY SpanFacts
  <2>3. "TD" \in Cells BY DEF Cells
  <2>4. k[j] = [x EXCEPT !.c = v] OBVIOUS
  <2>. HIDE DEF x, v, k
  <2>5. [x EXCEPT !.c = v] \in CellNodes /\ [x EXCEPT !.c = v].c = v
    BY <2>1, <2>2, <2>3, CellRemade
  <2>. QED BY <2>4, <2>5 DEF v
<1>4. DOMAIN k = DOMAIN n.k /\ k = [j \in DOMAIN k |-> k[j]] OBVIOUS
<1>. HIDE DEF k
<1>5. k \in Seq(CellNodes)
  <2>1. k \in [1..Len(n.k) -> CellNodes] BY <1>1, <1>3, <1>4
  <2>. QED BY <1>1, <2>1, SeqOfFunction
<1>6. RowTotal(k) = RowTotal(new) /\ Len(k) = Len(new)
  <2>1. DOMAIN new = 1..Len(n.k) /\ new \in Seq(C)
    <3>. HIDE DEF new
    <3>1. new \in Seq(C) /\ Len(new) = Len(n.k) BY DEF new
    <3>. QED BY <3>1
  <2>2. \A j \in DOMAIN new : Span(k[j].c) = Span(new[j].c)
    BY <1>1, <1>3, <2>1, SpanFacts
  <2>. HIDE DEF new
  <2>. QED BY <1>1, <1>4, <1>5, <2>1, <2>2, SameTotals
<1>7. m \in Nodes /\ m.k = k /\ m.s = n.s
  <2>1. k \in [DOMAIN n.k -> Trees]
    <3>1. \A x \in CellNodes : x \in Trees BY GridKinds, TreeKinds
    <3>. QED BY <1>3, <1>4, <3>1
  <2>. QED BY <1>1, <2>1, NewKids, ZenonT(30)
<1>. HIDE DEF m, new
<1>8. m \in RowNodes(b)
  <2>1. RowTotal(k) <= b /\ Len(k) <= b BY <1>1, <1>6 DEF new
  <2>. QED BY <1>1, <1>5, <1>7, <2>1 DEF RowNodes
<1>. QED BY <1>2, <1>8

LEMMA GridsSane ==
  ASSUME Heights = Nat, NEW b
  PROVE  /\ \A x \in CellNodes : Sane(x) \in CellNodes /\ Span(Sane(x).c) = Span(x.c)
         /\ \A x \in RowNodes(b) : Sane(x) \in RowNodes(b)
         /\ \A x \in TableNodes(b) : Sane(x) \in TableNodes(b)
         /\ \A x \in GridNodes(b) : Sane(x) \in GridNodes(b)
<1>1. \A x \in Nodes : Sane(x) \in Nodes /\ Sane(x).s = x.s /\ Sane(x).k = x.k /\ Sane(x).c = Span(x.c)
  <2>1. ASSUME NEW x \in Nodes
        PROVE  Sane(x) \in Nodes /\ Sane(x).s = x.s /\ Sane(x).k = x.k /\ Sane(x).c = Span(x.c)
    <3>1. x \in Elements(Trees) /\ Span(x.c) \in Int /\ Span(x.r) \in Int
      BY SpanFacts DEF Nodes
    <3>2. Sane(x) \in Elements(Trees) /\ Sane(x).s = x.s /\ Sane(x).k = x.k /\ Sane(x).c = Span(x.c)
      BY <3>1 DEF Sane, Elements
    <3>. QED BY <3>2 DEF Nodes
  <2>. QED BY <2>1
<1>2. \A v : Span(Span(v)) = Span(v) BY SpanFacts
<1>3. \A x \in CellNodes : Sane(x) \in CellNodes /\ Span(Sane(x).c) = Span(x.c)
  BY <1>1, <1>2 DEF CellNodes
<1>4. \A x \in RowNodes(b) : Sane(x) \in RowNodes(b) BY <1>1 DEF RowNodes
<1>5. \A x \in TableNodes(b) : Sane(x) \in TableNodes(b) BY <1>1 DEF TableNodes
<1>6. \A x \in GridNodes(b) : Sane(x) \in GridNodes(b) BY <1>1 DEF GridNodes
<1>. QED BY <1>3, <1>4, <1>5, <1>6

\* The rows of a table are widened to b at most.
LEMMA GridsWidened ==
  ASSUME Heights = Nat, NEW b \in Int, NEW t \in TableNodes(b)
  PROVE  WithSpans(Sane(t), WidenedRows(Rows(t))) \in TableNodes(b)
<1>. DEFINE u == Sane(t)
            rows == Rows(t)
            new == WidenedRows(rows)
            of == RowsOf(u)
            C == TableCell(Seq(Trees))
<1>1. u \in TableNodes(b) BY GridsSane
<1>2. u.k = t.k
  <2>1. t \in Elements(Trees) BY GridKinds DEF Nodes
  <2>. QED BY <2>1 DEF Sane, Elements
<1>3. u \in Nodes /\ u.s = "Table" /\ DOMAIN t.k = 1..Len(t.k) /\ Len(t.k) \in Nat
  BY <1>1, GridKinds, TreeKinds
<1>4. rows \in Seq(Seq(C)) /\ Len(rows) = Len(t.k) /\ \A i \in DOMAIN t.k : rows[i] = t.k[i].k
  BY GridCells
<1>. HIDE DEF u, rows, C
<1>5. ASSUME NEW i \in DOMAIN t.k
      PROVE  new[i] \in Seq(C) /\ Len(new[i]) = Len(t.k[i].k) /\ RowTotal(new[i]) <= b
  <2>1. /\ new \in Seq(Seq(C)) /\ Len(new) = Len(rows)
        /\ OnlySpans(rows[i], new[i])
        /\ RowTotal(rows[i]) \in Nat /\ RowTotal(new[i]) \in Nat
        /\ \/ RowTotal(new[i]) <= RowTotal(rows[i])
           \/ \E j \in 1..Len(rows) : RowTotal(new[i]) <= Len(rows[j])
    BY <1>3, <1>4, TableIsWidened DEF C
  <2>2. \A j \in DOMAIN t.k : RowTotal(rows[j]) <= b /\ Len(rows[j]) <= b
    <3>1. ASSUME NEW j \in DOMAIN t.k PROVE RowTotal(rows[j]) <= b /\ Len(rows[j]) <= b
      <4>1. t.k[j] \in RowNodes(b) BY GridKids
      <4>2. RowTotal(t.k[j].k) <= b /\ Len(t.k[j].k) <= b BY <4>1, GridKinds
      <4>. QED BY <1>4, <4>2
    <3>. QED BY <3>1
  <2>3. \A j \in 1..Len(rows) : Len(rows[j]) \in Nat BY <1>4
  <2>4. new[i] \in Seq(C) BY <1>3, <1>4, <2>1
  <2>5. Len(new[i]) = Len(rows[i]) BY <2>1 DEF OnlySpans
  <2>6. RowTotal(new[i]) <= b
    <3>. HIDE DEF new
    <3>1. \A j \in 1..Len(rows) : j \in DOMAIN t.k BY <1>3, <1>4
    <3>2. CASE RowTotal(new[i]) <= RowTotal(rows[i])
      <4>1. RowTotal(rows[i]) <= b BY <2>2
      <4>. QED BY <2>1, <3>2, <4>1
    <3>3. CASE \E j \in 1..Len(rows) : RowTotal(new[i]) <= Len(rows[j])
      <4>1. PICK j \in 1..Len(rows) : RowTotal(new[i]) <= Len(rows[j]) BY <3>3
      <4>2. Len(rows[j]) <= b /\ Len(rows[j]) \in Nat BY <2>2, <2>3, <3>1
      <4>. QED BY <2>1, <4>1, <4>2
    <3>. QED BY <2>1, <3>2, <3>3
  <2>. QED BY <1>4, <2>4, <2>5, <2>6
<1>6. PICK w : /\ \A n \in Nodes, a \in Nat : w[n][a] = SpansFrom(n, a, of, new, w)
               /\ WithSpans(u, new) = w[u][0]
  BY <1>3, SpannedAre
<1>7. ASSUME NEW i \in DOMAIN t.k PROVE w[t.k[i]][i - 1] \in RowNodes(b)
  <2>0. t.k[i] \in RowNodes(b) BY GridKids
  <2>1. t.k[i] \in RowNodes(b) /\ t.k[i] \in Nodes /\ i - 1 \in Nat /\ (i - 1) + 1 = i
    BY <1>3, <2>0, GridKinds
  <2>2. w[t.k[i]][i - 1] = SpansFrom(t.k[i], i - 1, of, new, w) BY <1>6, <2>1
  <2>. HIDE DEF new, of
  <2>. QED BY <1>5, <2>1, <2>2, RowSpanned
<1>. DEFINE k == [i \in DOMAIN u.k |-> w[u.k[i]][i - 1]]
<1>8. w[u][0] = [u EXCEPT !.k = k]
  <2>1. \A i \in DOMAIN u.k : RowsAbove(u, 0, of)[i - 1] = i - 1 /\ Type(u.k[i]) \in Grids
    <3>1. "TR" \in Grids BY DEF Grids
    <3>2. \A i \in DOMAIN u.k : Type(u.k[i]) = "TR" BY <1>1, GridKids
    <3>3. \A i \in DOMAIN u.k : RowsAbove(u, 0, of)[i - 1] = i - 1
      BY <1>1, GridRowsAbove
    <3>. QED BY <3>1, <3>2, <3>3
  <2>2. w[u][0] = SpansFrom(u, 0, of, new, w) BY <1>3, <1>6
  <2>. HIDE DEF new, of
  <2>. QED BY <1>3, <2>1, <2>2 DEF SpansFrom
<1>9. k = [i \in DOMAIN u.k |-> k[i]] /\ \A i \in DOMAIN u.k : k[i] \in RowNodes(b)
  BY <1>2, <1>7
<1>. HIDE DEF k
<1>10. [u EXCEPT !.k = k] \in TableNodes(b) BY <1>1, <1>9, TableRemade
<1>. QED BY <1>6, <1>8, <1>10 DEF u, rows

-----------------------------------------------------------------------------
(* The passes over a grid, one after the other.                            *)

\* No step makes a grid wider.
LEMMA StepsNarrow ==
  ASSUME Heights = Nat, NEW b \in Int, NEW step, NEW G, \A n \in Nodes : G[n] = Rewritten(n, step)
  PROVE  Narrow(b, G)
<1>1. /\ \A x \in CellNodes : x \in Nodes /\ x \in GridParts(b) /\ x.s # "Table"
      /\ \A x \in RowNodes(b) : x \in Nodes /\ x \in GridParts(b) /\ x.s # "Table"
      /\ \A x \in TableNodes(b) : x \in Nodes /\ x \in GridParts(b) /\ x.s = "Table"
      /\ \A x \in GridNodes(b) : x \in Nodes /\ x \in GridParts(b) /\ x.s # "Table"
  BY GridKinds DEF GridParts, Cells
<1>2. \A x \in GridParts(b) : Rekidded(x, step) = x BY GridsRekidded
<1>3. CASE step = "regularity"
  <2>1. \A x \in Nodes : G[x] = IF x.s = "Table" THEN WithSpans(Sane(x), WidenedRows(Rows(x))) ELSE Sane(x)
    BY <1>3 DEF Rewritten
  <2>2. \A x \in TableNodes(b) : WithSpans(Sane(x), WidenedRows(Rows(x))) \in TableNodes(b)
    BY GridsWidened
  <2>. QED BY <1>1, <2>1, <2>2, GridsSane DEF Narrow
<1>4. CASE step = "headers"
  <2>1. \A x \in Nodes : G[x] = IF x.s = "Table" THEN Headed(x) ELSE Rekidded(x, step)
    BY <1>4 DEF Rewritten
  <2>2. \A x \in TableNodes(b) : Headed(x) \in TableNodes(b) BY GridsHeaded
  <2>. QED BY <1>1, <1>2, <2>1, <2>2 DEF Narrow
<1>5. CASE step \notin {"headers", "regularity"}
  <2>1. \A x \in Nodes : G[x] = Rekidded(x, step) BY <1>5, RewrittenIs
  <2>. QED BY <1>1, <1>2, <2>1 DEF Narrow
<1>. QED BY <1>3, <1>4, <1>5

LEMMA GridsWalked ==
  ASSUME Heights = Nat, NEW b \in Int, NEW step, NEW t \in GridNodes(b)
  PROVE  Walk(t, step) \in GridNodes(b)
<1>1. PICK G, W : /\ \A n \in Nodes : G[n] = Rewritten(n, step)
                  /\ \A n \in Nodes : W[n] = Onwards(G[n], W)
                  /\ \A n \in Nodes : Walk(n, step) = W[n]
  BY WalkIs
<1>2. Narrow(b, G) BY <1>1, StepsNarrow
<1>3. Narrow(b, W) BY <1>1, <1>2, GridKinds, OnwardsNarrow
<1>4. t \in Nodes BY GridKinds
<1>. QED BY <1>1, <1>3, <1>4 DEF Narrow

LEMMA GridsPassed ==
  ASSUME Heights = Nat, NEW b \in Int, NEW p, NEW t \in GridNodes(b)
  PROVE  Pass(t, p) \in GridNodes(b)
<1>1. DOMAIN Wrappers = {"TR", "TH", "TD", "LI"} BY DEF Wrappers
<1>2. CASE p \in DOMAIN Wrappers
  <2>0. /\ Wrappers["TR"] = "TBody" /\ Wrappers["TH"] = "TR" /\ Wrappers["TD"] = "TR"
        /\ Wrappers["LI"] = "L"
    BY DEF Wrappers
  <2>1. Suits(p, Wrappers[p]) /\ p \notin {"Table", ""}
    BY <1>1, <1>2, <2>0 DEF Suits, Kinds
  <2>2. Pass(t, p) = Wrapped(t, p, Wrappers[p]) BY <1>1, <1>2, <2>0 DEF Pass
  <2>. QED BY <2>1, <2>2, GridsUnwrapped
<1>3. CASE p = "parts"
  <2>. DEFINE u == Wrapped(t, "Lbl", "LI")
              v == Wrapped(u, "LBody", "LI")
              w == Wrapped(v, "LI", "L")
  <2>1. Suits("Lbl", "LI") /\ Suits("LBody", "LI") /\ Suits("LI", "L")
    BY DEF Suits, Kinds
  <2>2. u \in GridNodes(b) BY <2>1, GridsUnwrapped
  <2>. HIDE DEF u
  <2>3. v \in GridNodes(b) BY <2>1, <2>2, GridsUnwrapped
  <2>. HIDE DEF v
  <2>4. w \in GridNodes(b) BY <2>1, <2>3, GridsUnwrapped
  <2>. HIDE DEF w
  <2>5. Pass(t, p) = ListedParts(t) BY <1>1, <1>3 DEF Pass
  <2>6. ListedParts(t) = t \/ ListedParts(t) = w
    BY DEF ListedParts, Parted, u, v, w
  <2>. QED BY <2>4, <2>5, <2>6
<1>4. CASE p = "entries"
  <2>1. Pass(t, p) = WrappedEntries(t) BY <1>1, <1>4 DEF Pass
  <2>. QED BY <2>1, GridsWithoutEntries
<1>5. CASE p \notin DOMAIN Wrappers /\ p \notin {"parts", "entries"}
  <2>1. Pass(t, p) = Walk(t, p) BY <1>5 DEF Pass
  <2>. QED BY <2>1, GridsWalked
<1>. QED BY <1>2, <1>3, <1>4, <1>5

LEMMA GridsPassedOn ==
  ASSUME Heights = Nat, NEW b \in Int, NEW t \in GridNodes(b), NEW names, Len(names) \in Nat
  PROVE  Passes(t, names) \in GridNodes(b)
<1>. DEFINE m == Len(names)
<1>1. t \in Nodes BY GridKinds
<1>2. PICK f : /\ f[0] = t /\ \A i \in 1..m : f[i] = Pass(f[i - 1], names[i])
               /\ Passes(t, names) = f[m]
  BY <1>1, PassesAre
<1>. DEFINE T == {i \in 0..m : f[i] \in GridNodes(b)}
<1>3. m \in Nat /\ 0 \in T BY <1>2
<1>. HIDE DEF m
<1>4. ASSUME NEW i \in 1..m, i - 1 \in T PROVE i \in T
  <2>1. f[i] \in GridNodes(b) BY <1>2, <1>4, GridsPassed
  <2>2. i \in 0..m BY <1>3
  <2>. QED BY <2>1, <2>2
<1>5. m \in T
  <2>1. T \in SUBSET (0..m) /\ m \in 0..m BY <1>3
  <2>. HIDE DEF T
  <2>. QED BY <1>3, <1>4, <2>1, StepByStep
<1>. QED BY <1>2, <1>5 DEF m

LEMMA GridsCleaned ==
  ASSUME Heights = Nat, NEW b \in Int, NEW t \in GridNodes(b)
  PROVE  Cleanup(t) \in GridNodes(b)
<1>. DEFINE p == Pruned(t, 10)
            q == Passes(p, <<"regularity", "headers">>)
<1>1. p \in GridNodes(b)
  <2>1. t \in Nodes /\ 10 \in Nat BY GridKinds
  <2>2. PICK f : /\ f[0] = t /\ \A i \in 1..10 : f[i] = WithoutEmpty(f[i - 1])
                 /\ \E e \in 0..10 : p = f[e]
    BY <2>1, PrunedAre
  <2>. DEFINE T == {i \in 0..10 : f[i] \in GridNodes(b)}
  <2>3. 0 \in T BY <2>2
  <2>4. ASSUME NEW i \in 1..10, i - 1 \in T PROVE i \in T
    <3>1. f[i] \in GridNodes(b) BY <2>2, <2>4, GridsPruned
    <3>2. i \in 0..10 OBVIOUS
    <3>. QED BY <3>1, <3>2
  <2>5. \A i \in 0..10 : i \in T
    <3>1. T \in SUBSET (0..10) OBVIOUS
    <3>. HIDE DEF T
    <3>. QED BY <2>1, <2>3, <2>4, <3>1, StepByStep
  <2>. QED BY <2>2, <2>5
<1>2. Cleanup(t) = p \/ Cleanup(t) = q BY DEF Cleanup
<1>. HIDE DEF p
<1>3. q \in GridNodes(b)
  <2>. DEFINE names == <<"regularity", "headers">>
  <2>1. Len(names) \in Nat OBVIOUS
  <2>. HIDE DEF names
  <2>2. Passes(p, names) \in GridNodes(b) BY <1>1, <2>1, GridsPassedOn
  <2>. QED BY <2>2 DEF names
<1>. HIDE DEF q
<1>. QED BY <1>1, <1>2, <1>3

LEMMA GridsFixed ==
  ASSUME Heights = Nat, NEW b \in Int, NEW t \in GridNodes(b)
  PROVE  Passes(t, ListPasses) \in GridNodes(b) /\ FixAll(t) \in GridNodes(b)
<1>1. Len(TablePasses) \in Nat /\ Len(ListPasses) \in Nat /\ Len(ContentPasses) \in Nat
  BY DEF TablePasses, ListPasses, ContentPasses
<1>. DEFINE u == Passes(t, TablePasses)
            v == Passes(u, ListPasses)
            w == Passes(v, ContentPasses)
<1>2. Passes(t, ListPasses) \in GridNodes(b) /\ u \in GridNodes(b)
  BY <1>1, GridsPassedOn
<1>3. FixAll(t) = Cleanup(w) BY DEF FixAll
<1>. HIDE DEF u
<1>4. v \in GridNodes(b) BY <1>1, <1>2, GridsPassedOn
<1>. HIDE DEF v
<1>5. w \in GridNodes(b) BY <1>1, <1>4, GridsPassedOn
<1>. HIDE DEF w
<1>. QED BY <1>2, <1>3, <1>5, GridsCleaned

-----------------------------------------------------------------------------
(* The grids authors make.                                                 *)

\* Rows have a width, and one cell more adds what it spans.
LEMMA RowLonger ==
  ASSUME NEW C, NEW k \in Seq(C), NEW x \in C
  PROVE  /\ RowTotal(k) \in Nat /\ Len(Append(k, x)) = Len(k) + 1
         /\ RowTotal(Append(k, x)) = RowTotal(k) + Span(x.c)
<1>. DEFINE n == Len(k)
            j == Append(k, x)
<1>1. n \in Nat /\ Len(j) = n + 1 /\ j[n + 1] = x /\ \A i \in 1..n : j[i] = k[i]
  OBVIOUS
<1>. HIDE DEF j
<1>2. Sums(k)[n] \in Nat
  <2>1. Sums(k) \in [0..n -> Nat] /\ n \in 0..n BY <1>1, SumsStep
  <2>. HIDE DEF n
  <2>. QED BY <2>1
<1>3. Sums(j)[n + 1] = Sums(j)[n] + Span(x.c)
  <2>1. Len(j) \in Nat /\ n + 1 \in 1..Len(j) /\ (n + 1) - 1 = n BY <1>1
  <2>2. \A i \in 1..Len(j) : Sums(j)[i] = Sums(j)[i - 1] + Span(j[i].c)
    BY <2>1, SumsStep
  <2>. QED BY <1>1, <2>1, <2>2
<1>4. Sums(j)[n] = Sums(k)[n]
  <2>1. Len(k) \in Nat /\ Len(j) \in Nat /\ n \in Nat /\ n <= Len(k) /\ n <= Len(j)
    BY <1>1
  <2>2. \A i \in 1..n : Span(j[i].c) = Span(k[i].c) BY <1>1
  <2>. QED BY <2>1, <2>2, SumsUpTo
<1>. QED BY <1>1, <1>2, <1>3, <1>4 DEF RowTotal, j

\* What is no wider than b is no wider than c.
LEMMA GridsWiden ==
  ASSUME NEW b \in Int, NEW c \in Int, b <= c
  PROVE  RowNodes(b) \subseteq RowNodes(c) /\ TableNodes(b) \subseteq TableNodes(c)
<1>1. ASSUME NEW x \in RowNodes(b) PROVE x \in RowNodes(c)
  <2>. DEFINE k == x.k
              w == RowTotal(k)
              l == Len(k)
  <2>1. x \in Nodes /\ x.s = "TR" /\ k \in Seq(CellNodes) /\ w <= b /\ l <= b
    BY GridKinds
  <2>2. w \in Nat /\ l \in Nat
    <3>. HIDE DEF k
    <3>1. Len(k) \in Nat BY <2>1
    <3>2. Sums(k) \in [0..Len(k) -> Nat] BY <3>1, SumsStep
    <3>. QED BY <3>1, <3>2 DEF RowTotal
  <2>. HIDE DEF w, l
  <2>3. w <= c /\ l <= c BY <2>1, <2>2
  <2>. QED BY <2>1, <2>3 DEF RowNodes, w, l
<1>2. ASSUME NEW x \in TableNodes(b) PROVE x \in TableNodes(c)
  <2>. DEFINE k == x.k
  <2>1. x \in Nodes /\ x.s = "Table" /\ k \in Seq(RowNodes(b)) BY GridKinds
  <2>. HIDE DEF k
  <2>2. k \in Seq(RowNodes(c)) BY <1>1, <2>1
  <2>. QED BY <2>1, <2>2 DEF TableNodes, k
<1>. QED BY <1>1, <1>2

\* A cell with a reference to content and any spans.
LEMMA GridCellIs ==
  ASSUME NEW m \in Nat, NEW s \in Cells, NEW c \in Int, NEW r \in Int
  PROVE  /\ Elem(s, <<Content(m)>>) \in CellNodes
         /\ [Elem(s, <<Content(m)>>) EXCEPT !.c = c, !.r = r] \in CellNodes
<1>1. s \in Kinds BY DEF Cells, Kinds
<1>2. /\ Elem(s, <<Content(m)>>) \in Nodes
      /\ [Elem(s, <<Content(m)>>) EXCEPT !.c = c, !.r = r] \in Nodes
  BY <1>1, CellIs
<1>3. <<Content(m)>> \in Seq(Leaves) /\ <<Content(m)>> # <<>>
  BY DEF Content, Leaves
<1>. DEFINE k == <<Content(m)>>
<1>. HIDE DEF k
<1>4. /\ Elem(s, k).s = s /\ Elem(s, k).k = k
      /\ [Elem(s, k) EXCEPT !.c = c, !.r = r].s = s
      /\ [Elem(s, k) EXCEPT !.c = c, !.r = r].k = k
  BY DEF Elem
<1>. QED BY <1>2, <1>3, <1>4 DEF CellNodes, k

\* Another kid of the kind an element has.
LEMMA TallerWithin ==
  ASSUME NEW C \in SUBSET Nodes, NEW n \in Nodes, n.k \in Seq(C), NEW x \in C
  PROVE  /\ Taller(n, x) \in Nodes /\ Taller(n, x).s = n.s
         /\ Taller(n, x).k = Append(n.k, x) /\ Taller(n, x).k \in Seq(C)
<1>1. x \in Trees BY TreeKinds
<1>2. Taller(n, x) \in Nodes /\ Taller(n, x).s = n.s /\ Taller(n, x).k = Append(n.k, x)
  BY <1>1, TallerIs
<1>. DEFINE k == n.k
<1>3. k \in Seq(C) OBVIOUS
<1>. HIDE DEF k
<1>4. Append(k, x) \in Seq(C) BY <1>3
<1>. QED BY <1>2, <1>4 DEF k

\* A row with another cell is wider by no more than a cell spans.
LEMMA RowWidened ==
  ASSUME NEW b \in Nat, NEW row \in RowNodes(b), NEW cell \in CellNodes
  PROVE  Taller(row, cell) \in RowNodes(b + MaxSpan)
<1>. DEFINE k == row.k
            new == Taller(row, cell)
<1>1. /\ row \in Nodes /\ row.s = "TR" /\ k \in Seq(CellNodes)
      /\ RowTotal(k) <= b /\ Len(k) <= b /\ CellNodes \in SUBSET Nodes
  BY GridKinds
<1>2. new \in Nodes /\ new.s = "TR" /\ new.k = Append(k, cell) /\ new.k \in Seq(CellNodes)
  BY <1>1, TallerWithin
<1>. HIDE DEF k, new
<1>3. /\ RowTotal(k) \in Nat /\ Len(Append(k, cell)) = Len(k) + 1
      /\ RowTotal(Append(k, cell)) = RowTotal(k) + Span(cell.c)
  BY <1>1, RowLonger
<1>4. Len(k) \in Nat BY <1>1
<1>5. Span(cell.c) \in Nat /\ Span(cell.c) <= MaxSpan /\ MaxSpan \in Nat /\ MaxSpan >= 1
  BY SpanFacts, SpanAssumption
<1>. DEFINE w == RowTotal(k)
            l == Len(k)
            z == Span(cell.c)
<1>. HIDE DEF w, l, z
<1>6. w + z <= b + MaxSpan /\ l + 1 <= b + MaxSpan
  <2>1. w \in Nat /\ l \in Nat /\ z \in Nat /\ z <= MaxSpan /\ MaxSpan \in Nat /\ MaxSpan >= 1
        /\ w <= b /\ l <= b
    BY <1>1, <1>3, <1>4, <1>5 DEF w, l, z
  <2>. QED BY <2>1
<1>7. RowTotal(new.k) <= b + MaxSpan /\ Len(new.k) <= b + MaxSpan
  BY <1>2, <1>3, <1>6 DEF w, l, z
<1>8. new \in RowNodes(b + MaxSpan) BY <1>2, <1>7 DEF RowNodes
<1>. QED BY <1>8 DEF new

\* A table with another cell in its last row.
LEMMA TableWidened ==
  ASSUME NEW b \in Nat, NEW table \in TableNodes(b), table.k # <<>>, NEW cell \in CellNodes
  PROVE  [table EXCEPT !.k = Append(Front(table.k), Taller(Last(table.k), cell))]
           \in TableNodes(b + MaxSpan)
<1>. DEFINE k == table.k
            c == b + MaxSpan
            row == Taller(Last(k), cell)
            new == Append(Front(k), row)
<1>1. /\ table \in Nodes /\ table.s = "Table" /\ k \in Seq(RowNodes(b)) /\ k # <<>>
      /\ \A d : RowNodes(d) \subseteq Nodes
  BY GridKinds
<1>2. c \in Int /\ b \in Int /\ b <= c BY SpanAssumption
<1>3. k \in Seq(RowNodes(c)) BY <1>1, <1>2, GridsWiden
<1>. HIDE DEF k
<1>4. Last(k) \in RowNodes(b) BY <1>1 DEF Last
<1>5. row \in RowNodes(c) BY <1>4, RowWidened
<1>6. row \in Trees BY <1>1, <1>5, TreeKinds
<1>. HIDE DEF row, c
<1>7. Front(k) \in Seq(RowNodes(c)) BY <1>1, <1>3 DEF Front
<1>8. new \in Seq(RowNodes(c))
  <2>. DEFINE f == Front(k)
  <2>. HIDE DEF f
  <2>1. Append(f, row) \in Seq(RowNodes(c)) BY <1>5, <1>7 DEF f
  <2>. QED BY <2>1 DEF f
<1>. DEFINE made == [table EXCEPT !.k = new]
<1>9. made \in Nodes /\ made.s = "Table" /\ made.k = new
  BY <1>1, <1>6, TallerIs DEF k
<1>. HIDE DEF new, made
<1>10. made \in TableNodes(c) BY <1>8, <1>9 DEF TableNodes
<1>. QED BY <1>10 DEF made, new, row, k, c

\* A document with another table in the place of its only one.
LEMMA GridOf ==
  ASSUME NEW t \in Nodes, t.s = "Root", NEW b, NEW u \in TableNodes(b)
  PROVE  LET v == [t EXCEPT !.k = <<u>>] IN v \in GridNodes(b) /\ Len(v.k) = 1
<1>. DEFINE v == [t EXCEPT !.k = <<u>>]
<1>1. u \in Nodes /\ u \in Trees BY GridKinds, TreeKinds
<1>2. <<u>> \in Seq(Trees) /\ <<u>> \in Seq(TableNodes(b)) /\ Len(<<u>>) = 1
  BY <1>1
<1>3. t \in Elements(Trees) BY DEF Nodes
<1>4. v \in Elements(Trees) /\ v.s = "Root" /\ v.k = <<u>>
  BY <1>2, <1>3 DEF Elements
<1>. HIDE DEF v
<1>5. v \in GridNodes(b) /\ Len(v.k) = 1 BY <1>2, <1>4 DEF GridNodes, Nodes
<1>. QED BY <1>5 DEF v

-----------------------------------------------------------------------------
(* The specification.                                                      *)

\* A row without cells, a table without rows.
LEMMA NothingIsNarrow ==
  /\ \A b \in Nat : Elem("TR", <<>>) \in RowNodes(b)
  /\ \A b : Elem("Table", <<>>) \in TableNodes(b)
<1>1. Elem("TR", <<>>) \in Nodes /\ Elem("Table", <<>>) \in Nodes
  BY ElemIs DEF Kinds
<1>2. /\ Elem("TR", <<>>).s = "TR" /\ Elem("TR", <<>>).k = <<>>
      /\ Elem("Table", <<>>).s = "Table" /\ Elem("Table", <<>>).k = <<>>
  BY DEF Elem
<1>3. RowTotal(<<>>) = 0 /\ Len(<<>>) = 0
  <2>. DEFINE none == <<>>
  <2>1. Len(none) = 0 /\ Len(none) \in Nat OBVIOUS
  <2>. HIDE DEF none
  <2>2. Sums(none)[0] = 0 BY <2>1, SumsStep
  <2>3. RowTotal(none) = 0 BY <2>1, <2>2 DEF RowTotal
  <2>. QED BY <2>1, <2>3 DEF none
<1>4. \A C : <<>> \in Seq(C) OBVIOUS
<1>5. ASSUME NEW b \in Nat PROVE Elem("TR", <<>>) \in RowNodes(b)
  <2>1. 0 <= b OBVIOUS
  <2>. DEFINE x == Elem("TR", <<>>)
  <2>2. x \in Nodes /\ x.s = "TR" /\ x.k \in Seq(CellNodes) /\ RowTotal(x.k) <= b /\ Len(x.k) <= b
    BY <1>1, <1>2, <1>3, <1>4, <2>1
  <2>. HIDE DEF x
  <2>3. x \in RowNodes(b) BY <2>2 DEF RowNodes
  <2>. QED BY <2>3 DEF x
<1>6. ASSUME NEW b PROVE Elem("Table", <<>>) \in TableNodes(b)
  <2>. DEFINE x == Elem("Table", <<>>)
  <2>1. x \in Nodes /\ x.s = "Table" /\ x.k \in Seq(RowNodes(b))
    BY <1>1, <1>2, <1>4
  <2>. HIDE DEF x
  <2>2. x \in TableNodes(b) BY <2>1 DEF TableNodes
  <2>. QED BY <2>2 DEF x
<1>. QED BY <1>5, <1>6

LEMMA DocumentsAre ==
  ASSUME Init
  PROVE  IInv
<1>1. /\ round = 0 /\ round \in Nat /\ tree = input /\ family \in DOMAIN Tags
      /\ Honest(tree, input)
  BY HonestIs DEF Init
<1>2. CASE family # "grids"
  <2>1. input = Elem("Root", <<>>) BY <1>2 DEF Init
  <2>2. input \in Nodes BY <2>1, ElemIs DEF Kinds
  <2>3. input.s = "Root" BY <2>1 DEF Elem
  <2>. QED BY <1>1, <1>2, <2>2, <2>3 DEF IInv
<1>3. CASE family = "grids"
  <2>. DEFINE table == Elem("Table", <<>>)
              root == Elem("Root", <<table>>)
  <2>1. table \in TableNodes(0) /\ table \in Trees
    BY NothingIsNarrow, GridKinds, TreeKinds
  <2>2. input = root BY <1>3 DEF Init
  <2>. HIDE DEF table
  <2>3. <<table>> \in Seq(Trees) /\ <<table>> \in Seq(TableNodes(0)) /\ Len(<<table>>) = 1
    BY <2>1
  <2>4. root \in Elements(Trees) /\ root.s = "Root" /\ root.k = <<table>>
    BY <2>3 DEF Elem, Elements, Kinds
  <2>. HIDE DEF root
  <2>5. root \in GridNodes(0) /\ root \in Nodes /\ 0 \in Nat
    BY <2>3, <2>4 DEF GridNodes, Nodes
  <2>6. Len(input.k) = 1 /\ input \in Nodes /\ input.s = "Root" /\ input \in GridNodes(0)
    BY <2>2, <2>3, <2>4, <2>5
  <2>. QED BY <1>1, <2>5, <2>6 DEF IInv
<1>. QED BY <1>2, <1>3

\* What an author writes is a tree of its own.
LEMMA AuthoredKeeps ==
  ASSUME IInv, NEW t \in Nodes, t.s = "Root", Authored(t), family = "grids" => OneTable(t)
  PROVE  IInv'
<1>1. family' = family /\ round' = round /\ input' = t /\ tree' = t
  BY DEF Authored
<1>2. Honest(t, t) BY HonestIs
<1>. QED BY <1>1, <1>2 DEF IInv, OneTable

\* The only table of the document.
LEMMA TheTable ==
  ASSUME NEW b, NEW t \in GridNodes(b), Len(t.k) = 1 \/ t.k # <<>>
  PROVE  /\ t \in Nodes /\ t.s = "Root" /\ t.k # <<>> /\ 1 \in DOMAIN t.k
         /\ t.k[1] \in TableNodes(b) /\ Head(t.k) = t.k[1]
<1>1. /\ t \in Nodes /\ t.s = "Root" /\ t.k \in Seq(Trees)
      /\ DOMAIN t.k = 1..Len(t.k) /\ Len(t.k) \in Nat
  BY GridKinds, TreeKinds
<1>2. 1 \in DOMAIN t.k
  <2>. DEFINE k == t.k
  <2>1. k \in Seq(Trees) /\ (Len(k) = 1 \/ k # <<>>) BY <1>1
  <2>. HIDE DEF k
  <2>2. 1 \in DOMAIN k BY <2>1
  <2>. QED BY <2>2 DEF k
<1>3. t.k[1] \in TableNodes(b) BY <1>2, GridKids
<1>4. t.k # <<>> BY <1>2
<1>. QED BY <1>1, <1>2, <1>3, <1>4

LEMMA AuthorsKeep ==
  ASSUME Heights = Nat, IInv, AddElement \/ AddContent \/ Unwrap \/ AddRow \/ AddCell
  PROVE  IInv'
<1>1. CASE AddElement
  <2>1. PICK s \in Tags[family] : \E t \in Grown(tree, Elem(s, <<>>)) : Authored(t)
    BY <1>1 DEF AddElement
  <2>2. PICK t \in Grown(tree, Elem(s, <<>>)) : Authored(t) BY <2>1
  <2>3. Elem(s, <<>>) \in Trees BY TagsAreKinds, ElemIs DEF IInv
  <2>4. t \in Nodes /\ t.s = "Root" BY <2>3, GrownKeepsRoot DEF IInv
  <2>5. family # "grids" BY <1>1 DEF AddElement
  <2>. QED BY <2>2, <2>4, <2>5, AuthoredKeeps
<1>2. NewContent \in Trees BY ReadingType, ContentIs DEF NewContent, IInv
<1>3. CASE AddContent
  <2>1. PICK t \in Grown(tree, NewContent) : Authored(t) BY <1>3 DEF AddContent
  <2>2. t \in Nodes /\ t.s = "Root" BY <1>2, GrownKeepsRoot DEF IInv
  <2>3. family # "grids" BY <1>3 DEF AddContent
  <2>. QED BY <2>1, <2>2, <2>3, AuthoredKeeps
<1>4. CASE Unwrap
  <2>1. PICK i \in DOMAIN tree.k : /\ Type(tree.k[i]) = "Table"
                                   /\ Authored([tree EXCEPT !.k[i].bare = TRUE])
    BY <1>4 DEF Unwrap
  <2>. DEFINE t == [tree EXCEPT !.k[i].bare = TRUE]
  <2>2. t \in Nodes /\ t.s = "Root" BY <2>1, Unwrapped DEF IInv
  <2>3. family # "grids" BY <1>4 DEF Unwrap
  <2>. HIDE DEF t
  <2>4. Authored(t) BY <2>1 DEF t
  <2>. QED BY <2>2, <2>3, <2>4, AuthoredKeeps
<1>5. ASSUME Roomy PROVE \E b \in Nat : tree \in GridNodes(b) /\ Len(tree.k) = 1
  BY <1>5 DEF Roomy, IInv
<1>6. ASSUME NEW b \in Nat, NEW t \in GridNodes(b), Len(t.k) = 1, Authored(t) PROVE IInv'
  <2>1. t \in Nodes /\ t.s = "Root" /\ OneTable(t)
    BY <1>6, GridKinds DEF OneTable
  <2>. QED BY <1>6, <2>1, AuthoredKeeps
<1>7. CASE AddRow
  <2>. DEFINE row == Elem("TR", <<>>)
              u == Taller(Head(tree.k), row)
              t == [tree EXCEPT !.k = <<u>>]
  <2>1. Roomy /\ Authored(t) BY <1>7 DEF AddRow
  <2>2. PICK b \in Nat : tree \in GridNodes(b) /\ Len(tree.k) = 1 BY <1>5, <2>1
  <2>. DEFINE table == tree.k[1]
  <2>3. /\ tree \in Nodes /\ tree.s = "Root" /\ Head(tree.k) = table
        /\ table \in TableNodes(b) /\ row \in RowNodes(b)
    BY <2>2, TheTable, NothingIsNarrow
  <2>. HIDE DEF table, row
  <2>4. /\ table \in Nodes /\ table.s = "Table" /\ table.k \in Seq(RowNodes(b))
        /\ RowNodes(b) \in SUBSET Nodes
    BY <2>3, GridKinds
  <2>5. u \in Nodes /\ u.s = "Table" /\ u.k \in Seq(RowNodes(b))
    BY <2>3, <2>4, TallerWithin
  <2>. HIDE DEF u
  <2>6. u \in TableNodes(b) BY <2>5 DEF TableNodes
  <2>7. t \in GridNodes(b) /\ Len(t.k) = 1 BY <2>3, <2>6, GridOf
  <2>. HIDE DEF t
  <2>. QED BY <2>1, <2>7, <1>6
<1>8. CASE AddCell
  <2>. DEFINE table == Head(tree.k)
              at(cell) == [table EXCEPT !.k = Append(Front(table.k), Taller(Last(table.k), cell))]
              t(cell) == [tree EXCEPT !.k = <<at(cell)>>]
              header(spans) == [Elem("TH", <<NewContent>>) EXCEPT !.c = spans[1], !.r = spans[2]]
              data == Elem("TD", <<NewContent>>)
  <2>1. Roomy /\ table.k # <<>> BY <1>8 DEF AddCell
  <2>2. \/ \E spans \in {1, 2} \X {1, 2} \cup {<<MaxSpan + 1, 1>>} : Authored(t(header(spans)))
        \/ Authored(t(data))
    BY <1>8 DEF AddCell
  <2>3. /\ \A spans \in {1, 2} \X {1, 2} \cup {<<MaxSpan + 1, 1>>} : header(spans) \in CellNodes
        /\ data \in CellNodes
    <3>. DEFINE m == Len(Reading(tree)) + 1
    <3>1. m \in Nat BY ReadingType DEF IInv
    <3>2. NewContent = Content(m) BY DEF NewContent
    <3>. HIDE DEF m
    <3>3. ASSUME NEW spans \in {1, 2} \X {1, 2} \cup {<<MaxSpan + 1, 1>>}
          PROVE  spans[1] \in Int /\ spans[2] \in Int
      BY SpanAssumption
    <3>4. "TH" \in Cells /\ "TD" \in Cells /\ 1 \in Int BY DEF Cells
    <3>5. ASSUME NEW spans \in {1, 2} \X {1, 2} \cup {<<MaxSpan + 1, 1>>}
          PROVE  header(spans) \in CellNodes
      BY <3>1, <3>2, <3>3, <3>4, GridCellIs
    <3>6. data \in CellNodes BY <3>1, <3>2, <3>4, GridCellIs
    <3>. QED BY <3>5, <3>6
  <2>. HIDE DEF header, data
  <2>4. PICK cell \in CellNodes : Authored(t(cell)) BY <2>2, <2>3
  <2>5. PICK b \in Nat : tree \in GridNodes(b) /\ Len(tree.k) = 1 BY <1>5, <2>1
  <2>6. tree \in Nodes /\ tree.s = "Root" /\ table \in TableNodes(b)
    BY <2>5, TheTable
  <2>. HIDE DEF table
  <2>7. at(cell) \in TableNodes(b + MaxSpan) BY <2>1, <2>6, TableWidened
  <2>. HIDE DEF at
  <2>8. t(cell) \in GridNodes(b + MaxSpan) /\ Len(t(cell).k) = 1
    BY <2>6, <2>7, GridOf
  <2>. HIDE DEF t
  <2>9. b + MaxSpan \in Nat BY SpanAssumption
  <2>. QED BY <2>4, <2>8, <2>9, <1>6
<1>. QED BY <1>1, <1>3, <1>4, <1>7, <1>8

LEMMA FixersKeep ==
  ASSUME Heights = Nat, IInv, Fix \/ RepairLists
  PROVE  IInv'
<1>1. PICK u \in {Passes(tree, ListPasses), FixAll(tree)} :
        /\ tree' = u /\ input' = input /\ family' = family /\ round' \in Nat /\ round' # 0
  <2>1. CASE Fix
    <3>1. round' = round + 1 /\ round \in Nat BY <2>1 DEF Fix, IInv
    <3>2. round' \in Nat /\ round' # 0 BY <3>1
    <3>. QED BY <2>1, <3>2 DEF Fix
  <2>2. CASE RepairLists
    <3>1. round' = round /\ round \in Nat /\ round > 0
      BY <2>2 DEF RepairLists, IInv
    <3>2. round' \in Nat /\ round' # 0 BY <3>1
    <3>. QED BY <2>2, <3>2 DEF RepairLists
  <2>. QED BY <2>1, <2>2
<1>2. tree \in Nodes /\ tree.s = "Root" /\ Honest(tree, input) BY DEF IInv
<1>3. u \in Nodes /\ u.s = "Root" /\ Honest(u, tree)
  BY <1>1, <1>2, FixingKeepsReading
<1>4. Honest(u, input) BY <1>2, <1>3, HonestIs
<1>5. \A b \in Int : tree \in GridNodes(b) => u \in GridNodes(b)
  BY <1>1, GridsFixed
<1>. QED BY <1>1, <1>3, <1>4, <1>5 DEF IInv

\* The widths of the rows of a document of one table, and how many cells they have.
LEMMA GridWidths ==
  ASSUME Heights = Nat, NEW b, NEW t \in GridNodes(b), Len(t.k) = 1 \/ t.k # <<>>
  PROVE  LET rows == Rows(t.k[1])
         IN /\ t.k[1] \in TableNodes(b) /\ DOMAIN rows = DOMAIN t.k[1].k
            /\ \A i \in DOMAIN rows : rows[i] = t.k[1].k[i].k
            /\ \A w \in Totals(t) : w \in Nat /\ w <= b
            /\ \A i \in DOMAIN rows : Len(rows[i]) \in Nat /\ Len(rows[i]) <= b
<1>. DEFINE table == t.k[1]
            rows == Rows(table)
<1>1. table \in TableNodes(b) BY TheTable
<1>. HIDE DEF table
<1>2. rows \in Seq(Seq(TableCell(Seq(Trees)))) /\ Len(rows) = Len(table.k)
      /\ \A i \in DOMAIN table.k : rows[i] = table.k[i].k
  BY <1>1, GridCells
<1>. HIDE DEF rows
<1>3. DOMAIN rows = DOMAIN table.k
  <2>1. table \in Nodes BY <1>1, GridKinds
  <2>2. DOMAIN table.k = 1..Len(table.k) BY <2>1, TreeKinds
  <2>3. DOMAIN rows = 1..Len(rows) BY <1>2
  <2>. QED BY <1>2, <2>2, <2>3
<1>4. ASSUME NEW i \in DOMAIN rows
      PROVE  /\ RowTotal(rows[i]) \in Nat /\ RowTotal(rows[i]) <= b
             /\ Len(rows[i]) \in Nat /\ Len(rows[i]) <= b
  <2>. DEFINE x == table.k[i]
              k == x.k
  <2>1. x \in RowNodes(b) /\ rows[i] = k BY <1>1, <1>2, <1>3, GridKids
  <2>. HIDE DEF x
  <2>2. k \in Seq(CellNodes) /\ RowTotal(k) <= b /\ Len(k) <= b
    BY <2>1, GridKinds
  <2>. HIDE DEF k
  <2>3. Len(k) \in Nat BY <2>2
  <2>4. Sums(k) \in [0..Len(k) -> Nat] BY <2>3, SumsStep
  <2>5. RowTotal(k) \in Nat BY <2>3, <2>4 DEF RowTotal
  <2>. QED BY <2>1, <2>2, <2>3, <2>5
<1>5. Totals(t) = {RowTotal(rows[i]) : i \in DOMAIN rows}
  BY DEF Totals, rows, table
<1>6. \A w \in Totals(t) : w \in Nat /\ w <= b BY <1>4, <1>5
<1>. QED BY <1>1, <1>2, <1>3, <1>4, <1>6 DEF rows, table

\* A grid is as wide as its widest row, or as its row of most cells.
LEMMA GridsAreBounded ==
  ASSUME Heights = Nat, NEW b, NEW t \in GridNodes(b), Len(t.k) = 1, NEW c \in Int,
         \A w \in Totals(t) : w <= c,
         \A i \in DOMAIN Rows(t.k[1]) : Len(Rows(t.k[1])[i]) <= c
  PROVE  t \in GridNodes(c)
<1>. DEFINE table == t.k[1]
            rows == Rows(table)
<1>1. /\ table \in TableNodes(b) /\ DOMAIN rows = DOMAIN table.k
      /\ \A i \in DOMAIN rows : rows[i] = table.k[i].k
  BY GridWidths
<1>2. \A i \in DOMAIN rows : RowTotal(rows[i]) \in Totals(t) BY DEF Totals
<1>3. \A i \in DOMAIN rows : RowTotal(rows[i]) <= c /\ Len(rows[i]) <= c BY <1>2
<1>4. t \in Nodes /\ t.s = "Root" /\ t.k = <<table>>
  <2>1. t \in Nodes /\ t.s = "Root" /\ DOMAIN t.k = 1..Len(t.k) /\ t.k \in Seq(Trees)
    BY GridKinds, TreeKinds
  <2>. QED BY <2>1
<1>. HIDE DEF table, rows
<1>5. table \in Nodes /\ table.s = "Table" /\ table.k \in Seq(RowNodes(b))
  BY <1>1, GridKinds
<1>6. \A i \in DOMAIN table.k : table.k[i] \in RowNodes(c)
  <2>1. ASSUME NEW i \in DOMAIN table.k PROVE table.k[i] \in RowNodes(c)
    <3>. DEFINE x == table.k[i]
    <3>1. x \in RowNodes(b) /\ RowTotal(x.k) <= c /\ Len(x.k) <= c
      BY <1>1, <1>3, GridKids
    <3>. HIDE DEF x
    <3>2. x \in RowNodes(c) BY <3>1, GridKinds DEF RowNodes
    <3>. QED BY <3>2 DEF x
  <2>. QED BY <2>1
<1>7. table \in TableNodes(c)
  <2>. DEFINE k == table.k
  <2>1. k \in Seq(RowNodes(b)) /\ \A i \in DOMAIN k : k[i] \in RowNodes(c)
    BY <1>5, <1>6
  <2>. HIDE DEF k
  <2>2. k \in Seq(RowNodes(c)) BY <2>1
  <2>. QED BY <1>5, <2>2 DEF TableNodes, k
<1>8. t.k \in Seq(TableNodes(c)) BY <1>4, <1>7
<1>. QED BY <1>4, <1>8 DEF GridNodes

LEMMA GridsStayBounded ==
  ASSUME Heights = Nat, IInv
  PROVE  WidthsBounded
<1>. DEFINE rows == Rows(input.k[1])
            S == Totals(input) \cup {Len(rows[i]) : i \in DOMAIN rows}
<1>1. SUFFICES ASSUME family = "grids", tree.k # <<>>
               PROVE  \A w \in Totals(tree) : w <= Max(S)
  BY DEF WidthsBounded
<1>2. PICK b \in Nat : input \in GridNodes(b) BY <1>1 DEF IInv
<1>3. Len(input.k) = 1 /\ \A c \in Int : input \in GridNodes(c) => tree \in GridNodes(c)
  BY <1>1 DEF IInv
<1>4. /\ \A w \in Totals(input) : w \in Nat /\ w <= b
      /\ \A i \in DOMAIN rows : Len(rows[i]) \in Nat /\ Len(rows[i]) <= b
  BY <1>2, <1>3, GridWidths
<1>5. S \in SUBSET Nat /\ \A s \in S : s <= b BY <1>4
<1>6. ASSUME NEW c \in Int, \A s \in S : s <= c
      PROVE  \A w \in Totals(tree) : w \in Nat /\ w <= c
  <2>1. /\ \A w \in Totals(input) : w <= c
        /\ \A i \in DOMAIN rows : Len(rows[i]) <= c
    BY <1>6
  <2>2. input \in GridNodes(c) BY <1>2, <1>3, <2>1, GridsAreBounded
  <2>3. tree \in GridNodes(c) BY <1>3, <2>2
  <2>. QED BY <1>1, <2>3, GridWidths
<1>. HIDE DEF S
<1>7. CASE S = {}
  <2>1. -1 \in Int /\ \A s \in S : s <= -1 BY <1>7
  <2>2. \A w \in Totals(tree) : w \in Nat /\ w <= -1 BY <1>6, <2>1
  <2>. QED BY <2>2
<1>8. CASE S # {}
  <2>1. Max(S) \in S /\ \A s \in S : s <= Max(S)
    BY <1>2, <1>5, <1>8, MaxOfBounded
  <2>. DEFINE c == Max(S)
  <2>. HIDE DEF c
  <2>2. c \in Int /\ \A s \in S : s <= c
    <3>1. c \in S /\ \A s \in S : s <= c BY <2>1 DEF c
    <3>. QED BY <1>5, <3>1
  <2>3. \A w \in Totals(tree) : w <= c BY <1>6, <2>2
  <2>. QED BY <2>3 DEF c
<1>. QED BY <1>7, <1>8

\* What both properties of the specification are proved from.
LEMMA RepairsKeepIInv ==
  ASSUME Heights = Nat
  PROVE  Spec => []IInv
<1>1. Init => IInv BY DocumentsAre
<1>2. IInv /\ [Next]_vars => IInv'
  <2>1. ASSUME IInv, Next PROVE IInv' BY <2>1, AuthorsKeep, FixersKeep DEF Next
  <2>2. ASSUME IInv, UNCHANGED vars PROVE IInv' BY <2>2 DEF IInv, vars, Honest
  <2>. QED BY <2>1, <2>2
<1>. QED BY <1>1, <1>2, PTL DEF Spec

\* ContentKept (pdf_fixer.py:4769): whatever an author tagged and however often the
\* file is fixed, every piece of content is read, as often as before, and in the order
\* of the input unless an item of it has its label or body late.
THEOREM ContentIsKept ==
  ASSUME Heights = Nat
  PROVE  Spec => []ContentKept
<1>1. IInv => ContentKept
  <2>1. SUFFICES ASSUME IInv PROVE ContentKept OBVIOUS
  <2>2. /\ Len(Reading(tree)) = Len(Reading(input))
        /\ ToSet(Reading(tree)) = ToSet(Reading(input))
    BY <2>1 DEF IInv, Honest, Alike
  <2>3. ASSUME ~Somewhere(input, "late") PROVE Reading(tree) = Reading(input)
    BY <2>1, <2>3, NothingLate DEF IInv, Honest
  <2>. QED BY <2>2, <2>3 DEF ContentKept
<1>2. Spec => []IInv BY RepairsKeepIInv
<1>. QED BY <1>1, <1>2, PTL

\* WidthsBounded (pdf_fixer.py:14915): however many rows and cells an author gives a
\* table and however often it is fixed, no row gets wider than the widest one was, or
\* than the row of most cells has cells.
THEOREM WidthsAreBounded ==
  ASSUME Heights = Nat
  PROVE  Spec => []WidthsBounded
<1>1. IInv => WidthsBounded BY GridsStayBounded
<1>2. Spec => []IInv BY RepairsKeepIInv
<1>. QED BY <1>1, <1>2, PTL
=============================================================================
