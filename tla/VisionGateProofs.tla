--------------------------- MODULE VisionGateProofs ---------------------------
(***************************************************************************)
(* Theorems about VisionGate for any callers, providers, nodes, rotations, *)
(* limits, retries and chain.                                              *)
(***************************************************************************)
EXTENDS VisionGate, FiniteSetTheorems, TLAPS

\* A call that sleeps off a failure has an attempt left.
BackoffHasAttempts ==
  \A c \in Callers : pc[c] = "backoff" => attempt[c] < MaxAttempts(Provider(c))

AttemptInv == AttemptsBounded /\ BackoffHasAttempts

-----------------------------------------------------------------------------
(* The constants.                                                          *)

LEMMA RotationFacts ==
  ASSUME NEW p \in Providers
  PROVE  /\ Rotation[p] \in Seq(Nodes)
         /\ Len(Rotation[p]) \in Nat \ {0}
         /\ Limit[p] \in Nat \ {0}
         /\ MaxAttempts(p) \in Nat \ {0}
<1>1. Rotation[p] \in Seq(Nodes) /\ Rotation[p] # <<>>
  BY VisionAssumption
<1>2. Len(Rotation[p]) \in Nat \ {0}
  BY <1>1
<1>3. Limit[p] \in Nat \ {0}
  BY VisionAssumption
<1>4. \A x, y \in Nat \ {0} : x * y \in Nat \ {0}
  OBVIOUS
<1>5. Retries + 1 \in Nat \ {0}
  BY VisionAssumption
<1>. QED
  BY <1>1, <1>2, <1>3, <1>4, <1>5 DEF MaxAttempts

LEMMA ChainFacts ==
  /\ Len(Chain) \in Nat \ {0}
  /\ \A t \in 1..Len(Chain) : Chain[t] \in Providers
<1>1. Chain \in Seq(Providers) /\ Chain # <<>>
  BY VisionAssumption
<1>. QED
  BY <1>1

LEMMA GateIsGate ==
  ASSUME TypeOK, NEW c \in Callers
  PROVE  Provider(c) \in Providers /\ Gate(c) \in Gates
<1>1. turn[c] \in 1..Len(Chain) /\ node[c] \in Nodes
  BY DEF TypeOK
<1>2. Provider(c) \in Providers
  BY <1>1, ChainFacts DEF Provider
<1>. QED
  BY <1>1, <1>2 DEF Gate, Gates

-----------------------------------------------------------------------------
(* Steps.                                                                  *)

\* What starting an attempt changes.
LEMMA TryFacts ==
  ASSUME TypeOK, NEW c \in Callers, NEW t \in 1..Len(Chain), NEW k \in Nat, Try(c, t, k)
  PROVE  /\ pc' = [pc EXCEPT ![c] = "waiting"]
         /\ turn' = [turn EXCEPT ![c] = t]
         /\ attempt' = [attempt EXCEPT ![c] = k]
         /\ \E n \in Nodes : node' = [node EXCEPT ![c] = n]
         /\ cursor' \in [Providers -> Nat]
         /\ \A p \in Providers : cursor'[p] \in 1..Len(Rotation[p])
         /\ tried' \in [Callers -> SUBSET Nodes]
         /\ shared' \subseteq Callers
<1>. DEFINE p == Chain[t]
            n == Rotation[p][cursor[p]]
            rivals == {d \in Callers \ {c} : pc[d] \in Active /\ Provider(d) = p}
<1>1. p \in Providers
  BY ChainFacts
<1>2. Rotation[p] \in Seq(Nodes) /\ Len(Rotation[p]) \in Nat \ {0}
  BY <1>1, RotationFacts
<1>3. cursor[p] \in 1..Len(Rotation[p])
  BY <1>1 DEF TypeOK
<1>4. n \in Nodes
  BY <1>2, <1>3
<1>5. node' = [node EXCEPT ![c] = n]
  BY DEF Try
<1>6. /\ cursor' \in [Providers -> Nat]
      /\ \A q \in Providers : cursor'[q] \in 1..Len(Rotation[q])
  <2>1. cursor' = [cursor EXCEPT ![p] = (cursor[p] % Len(Rotation[p])) + 1]
    BY DEF Try, Advance
  <2>2. \A x \in Nat, y \in Nat \ {0} : (x % y) + 1 \in 1..y
    OBVIOUS
  <2>3. (cursor[p] % Len(Rotation[p])) + 1 \in 1..Len(Rotation[p])
    BY <1>2, <1>3, <2>2
  <2>. QED
    BY <2>1, <2>3, <1>1, <1>2 DEF TypeOK
<1>7. tried' \in [Callers -> SUBSET Nodes]
  <2>1. tried' = [tried EXCEPT ![c] = IF k = 1 THEN {n} ELSE tried[c] \cup {n}]
    BY DEF Try
  <2>. QED
    BY <2>1, <1>4 DEF TypeOK
<1>8. shared' \subseteq Callers
  <2>1. shared' = (IF k = 1 THEN shared \ {c} ELSE shared) \cup rivals
                  \cup (IF rivals = {} THEN {} ELSE {c})
    BY DEF Try
  <2>2. shared \subseteq Callers
    BY DEF TypeOK
  <2>3. rivals \subseteq Callers
    OBVIOUS
  <2>. HIDE DEF rivals
  <2>. QED
    BY <2>1, <2>2, <2>3
<1>9. /\ pc' = [pc EXCEPT ![c] = "waiting"]
      /\ turn' = [turn EXCEPT ![c] = t]
      /\ attempt' = [attempt EXCEPT ![c] = k]
  BY DEF Try, Goto
<1>. QED
  BY <1>4, <1>5, <1>6, <1>7, <1>8, <1>9

\* What giving up on a provider changes, permits aside.
LEMMA GiveUpFacts ==
  ASSUME TypeOK, NEW c \in Callers, GiveUp(c)
  PROVE  /\ permits' = IF pc[c] \in InSlot THEN [permits EXCEPT ![Gate(c)] = @ + 1] ELSE permits
         /\ \/ /\ turn[c] + 1 \in 1..Len(Chain)
               /\ Try(c, turn[c] + 1, 1)
            \/ /\ pc' = [pc EXCEPT ![c] = "failed"]
               /\ UNCHANGED <<turn, attempt, node, cursor, tried, shared>>
<1>1. turn[c] \in 1..Len(Chain) /\ Len(Chain) \in Nat \ {0}
  BY ChainFacts DEF TypeOK
<1>2. turn[c] < Len(Chain) => turn[c] + 1 \in 1..Len(Chain)
  BY <1>1
<1>. QED
  BY <1>2 DEF GiveUp, Release, Goto

-----------------------------------------------------------------------------
(* Permits.                                                                *)

\* Between two states, at most c came or went among the holders of a gate.
Others(c) ==
  /\ \A d \in Callers \ {c} : pc'[d] = pc[d] /\ turn'[d] = turn[d] /\ node'[d] = node[d]

\* The four ways a step moves permits.
StaysOut(c) == pc[c] \notin InSlot /\ pc'[c] \notin InSlot /\ permits' = permits
StaysIn(c)  == /\ pc[c] \in InSlot /\ pc'[c] \in InSlot
               /\ turn'[c] = turn[c] /\ node'[c] = node[c]
               /\ permits' = permits
Enters(c)   == /\ pc[c] \notin InSlot /\ pc'[c] \in InSlot
               /\ turn'[c] = turn[c] /\ node'[c] = node[c]
               /\ permits[Gate(c)] > 0
               /\ permits' = [permits EXCEPT ![Gate(c)] = @ - 1]
Leaves(c)   == /\ pc[c] \in InSlot /\ pc'[c] \notin InSlot
               /\ permits' = [permits EXCEPT ![Gate(c)] = @ + 1]

Moves(c) == Others(c) /\ (StaysOut(c) \/ StaysIn(c) \/ Enters(c) \/ Leaves(c))

LEMMA TryMoves ==
  ASSUME TypeOK, NEW c \in Callers, NEW t \in 1..Len(Chain), NEW k \in Nat, Try(c, t, k)
  PROVE  Others(c) /\ pc'[c] = "waiting"
BY TryFacts DEF Others, TypeOK

LEMMA GiveUpMoves ==
  ASSUME TypeOK, NEW c \in Callers, GiveUp(c)
  PROVE  Moves(c)
<1>1. Others(c) /\ pc'[c] \in {"waiting", "failed"}
  <2>1. CASE turn[c] + 1 \in 1..Len(Chain) /\ Try(c, turn[c] + 1, 1)
    BY <2>1, TryMoves
  <2>2. CASE pc' = [pc EXCEPT ![c] = "failed"] /\ UNCHANGED <<turn, attempt, node, cursor, tried, shared>>
    BY <2>2 DEF Others, TypeOK
  <2>. QED
    BY <2>1, <2>2, GiveUpFacts
<1>2. CASE pc[c] \in InSlot
  BY <1>1, <1>2, GiveUpFacts DEF Moves, Leaves, InSlot
<1>3. CASE pc[c] \notin InSlot
  BY <1>1, <1>3, GiveUpFacts DEF Moves, StaysOut, InSlot
<1>. QED
  BY <1>2, <1>3

LEMMA EveryStepMoves ==
  ASSUME TypeOK, NEW c \in Callers, Step(c) \/ Cancel(c)
  PROVE  Moves(c)
<1>. USE DEF TypeOK
<1>1. CASE Begin(c)
  <2>1. Others(c) /\ pc'[c] = "waiting"
    <3>1. 1 \in 1..Len(Chain)
      BY ChainFacts
    <3>. QED
      BY <1>1, <3>1, TryMoves DEF Begin
  <2>. QED
    BY <1>1, <2>1 DEF Begin, Moves, StaysOut, InSlot
<1>2. CASE Acquire(c)
  BY <1>2 DEF Acquire, Goto, Moves, Others, Enters, InSlot
<1>3. CASE GateTimesOut(c)
  BY <1>3, GiveUpMoves DEF GateTimesOut
<1>4. CASE Answered(c)
  BY <1>4 DEF Answered, Release, Goto, Moves, Others, Leaves, InSlot
<1>5. CASE EmptyAnswer(c)
  BY <1>5 DEF EmptyAnswer, Goto, Moves, Others, StaysIn, InSlot
<1>6. CASE FailsTransiently(c)
  <2>1. CASE MayRetry(c)
    BY <1>6, <2>1 DEF FailsTransiently, Goto, Moves, Others, StaysIn, InSlot
  <2>2. CASE ~MayRetry(c)
    BY <1>6, <2>2, GiveUpMoves DEF FailsTransiently
  <2>. QED
    BY <2>1, <2>2
<1>7. CASE FailsForGood(c)
  BY <1>7, GiveUpMoves DEF FailsForGood
<1>8. CASE BackoffEnds(c)
  <2>1. turn[c] \in 1..Len(Chain) /\ attempt[c] + 1 \in Nat
    OBVIOUS
  <2>2. Others(c) /\ pc'[c] = "waiting"
    BY <1>8, <2>1, TryMoves DEF BackoffEnds
  <2>. QED
    BY <1>8, <2>2 DEF BackoffEnds, Release, Moves, Leaves, InSlot
<1>9. CASE Cancel(c)
  <2>1. Others(c) /\ pc'[c] = "cancelled"
    BY <1>9 DEF Cancel, Goto, Others
  <2>. QED
    BY <1>9, <2>1 DEF Cancel, Release, Moves, Leaves, StaysOut, InSlot
<1>. QED
  BY <1>1, <1>2, <1>3, <1>4, <1>5, <1>6, <1>7, <1>8, <1>9 DEF Step

\* Two finite sets that differ in c at most.
LEMMA OneElementApart ==
  ASSUME NEW A, NEW B, NEW c, IsFiniteSet(A), IsFiniteSet(B), A \ {c} = B \ {c}
  PROVE  /\ Cardinality(A) \in Nat /\ Cardinality(B) \in Nat
         /\ (c \in A <=> c \in B) => Cardinality(B) = Cardinality(A)
         /\ c \notin A /\ c \in B => Cardinality(B) = Cardinality(A) + 1
         /\ c \in A /\ c \notin B => Cardinality(B) = Cardinality(A) - 1
<1>1. Cardinality(A) \in Nat /\ Cardinality(B) \in Nat
  BY FS_CardinalityType
<1>2. Cardinality(A \ {c}) = IF c \in A THEN Cardinality(A) - 1 ELSE Cardinality(A)
  BY FS_RemoveElement
<1>3. Cardinality(B \ {c}) = IF c \in B THEN Cardinality(B) - 1 ELSE Cardinality(B)
  BY FS_RemoveElement
<1>. QED
  BY <1>1, <1>2, <1>3

LEMMA HoldersFinite ==
  ASSUME NEW g
  PROVE  IsFiniteSet(Holders(g)) /\ IsFiniteSet(Holders(g)')
<1>1. Holders(g) \in SUBSET Callers /\ Holders(g)' \in SUBSET Callers
  BY DEF Holders
<1>. QED
  BY <1>1, VisionAssumption, FS_Subset

\* A move keeps the balance of every gate.
LEMMA MoveKeepsPermits ==
  ASSUME TypeOK, PermitsConserved, NEW c \in Callers, Moves(c), NEW g \in Gates
  PROVE  /\ permits'[g] \in Nat
         /\ permits'[g] + Cardinality(Holders(g)') = g[2]
<1>1. permits \in [Gates -> Nat] /\ Gate(c) \in Gates
  BY GateIsGate DEF TypeOK
<1>2. permits[g] + Cardinality(Holders(g)) = g[2]
  BY DEF PermitsConserved
<1>3. Holders(g) \ {c} = Holders(g)' \ {c}
  BY DEF Moves, Others, Holders, Gate, Provider
<1>4. /\ Cardinality(Holders(g)) \in Nat /\ Cardinality(Holders(g)') \in Nat
      /\ (c \in Holders(g) <=> c \in Holders(g)') => Cardinality(Holders(g)') = Cardinality(Holders(g))
      /\ c \notin Holders(g) /\ c \in Holders(g)' => Cardinality(Holders(g)') = Cardinality(Holders(g)) + 1
      /\ c \in Holders(g) /\ c \notin Holders(g)' => Cardinality(Holders(g)') = Cardinality(Holders(g)) - 1
  BY <1>3, HoldersFinite, OneElementApart
<1>5. c \in Holders(g) <=> pc[c] \in InSlot /\ Gate(c) = g
  BY DEF Holders
<1>6. c \in Holders(g)' <=> pc'[c] \in InSlot /\ Gate(c)' = g
  BY DEF Holders
<1>7. turn'[c] = turn[c] /\ node'[c] = node[c] => Gate(c)' = Gate(c)
  BY DEF Gate, Provider
<1>8. CASE StaysOut(c)
  BY <1>1, <1>2, <1>4, <1>5, <1>6, <1>8 DEF StaysOut
<1>9. CASE StaysIn(c)
  BY <1>1, <1>2, <1>4, <1>5, <1>6, <1>7, <1>9 DEF StaysIn
<1>10. CASE Enters(c)
  BY <1>1, <1>2, <1>4, <1>5, <1>6, <1>7, <1>10 DEF Enters
<1>11. CASE Leaves(c)
  BY <1>1, <1>2, <1>4, <1>5, <1>6, <1>11 DEF Leaves
<1>. QED
  BY <1>8, <1>9, <1>10, <1>11 DEF Moves

-----------------------------------------------------------------------------
(* Type correctness and permits together: a permit count stays natural     *)
(* because the balance says so.                                            *)

GateInv == TypeOK /\ PermitsConserved

\* The variables other than permits keep their types.
LEMMA StepKeepsTypes ==
  ASSUME TypeOK, NEW c \in Callers, Step(c) \/ Cancel(c)
  PROVE  /\ pc' \in [Callers -> Active \cup Settled \cup {"idle"}]
         /\ turn' \in [Callers -> 1..Len(Chain)]
         /\ attempt' \in [Callers -> Nat]
         /\ node' \in [Callers -> Nodes]
         /\ cursor' \in [Providers -> Nat]
         /\ \A p \in Providers : cursor'[p] \in 1..Len(Rotation[p])
         /\ tried' \in [Callers -> SUBSET Nodes]
         /\ shared' \subseteq Callers
<1>. DEFINE Typed == /\ pc' \in [Callers -> Active \cup Settled \cup {"idle"}]
                     /\ turn' \in [Callers -> 1..Len(Chain)]
                     /\ attempt' \in [Callers -> Nat]
                     /\ node' \in [Callers -> Nodes]
                     /\ cursor' \in [Providers -> Nat]
                     /\ \A p \in Providers : cursor'[p] \in 1..Len(Rotation[p])
                     /\ tried' \in [Callers -> SUBSET Nodes]
                     /\ shared' \subseteq Callers
<1>1. \A t \in 1..Len(Chain), k \in Nat : Try(c, t, k) => Typed
  <2>. SUFFICES ASSUME NEW t \in 1..Len(Chain), NEW k \in Nat, Try(c, t, k) PROVE Typed
    OBVIOUS
  <2>1. pc' \in [Callers -> Active \cup Settled \cup {"idle"}]
    BY TryFacts DEF TypeOK, Active
  <2>2. /\ turn' \in [Callers -> 1..Len(Chain)]
        /\ attempt' \in [Callers -> Nat]
        /\ node' \in [Callers -> Nodes]
    <3>1. PICK n \in Nodes : node' = [node EXCEPT ![c] = n]
      BY TryFacts
    <3>2. turn' = [turn EXCEPT ![c] = t] /\ attempt' = [attempt EXCEPT ![c] = k]
      BY TryFacts
    <3>. QED
      BY <3>1, <3>2 DEF TypeOK
  <2>3. /\ cursor' \in [Providers -> Nat]
        /\ \A p \in Providers : cursor'[p] \in 1..Len(Rotation[p])
        /\ tried' \in [Callers -> SUBSET Nodes]
        /\ shared' \subseteq Callers
    BY TryFacts
  <2>. QED
    BY <2>1, <2>2, <2>3
<1>2. \A s \in Active \cup Settled :
        pc' = [pc EXCEPT ![c] = s] /\ UNCHANGED <<turn, attempt, node, cursor, tried, shared>> => Typed
  BY DEF TypeOK
<1>3. GiveUp(c) => Typed
  BY <1>1, <1>2, GiveUpFacts DEF Settled
<1>4. CASE Begin(c)
  BY <1>1, <1>4, ChainFacts DEF Begin
<1>5. CASE Acquire(c)
  BY <1>2, <1>5 DEF Acquire, Goto, Active, InSlot
<1>6. CASE GateTimesOut(c)
  BY <1>3, <1>6 DEF GateTimesOut
<1>7. CASE Answered(c)
  BY <1>2, <1>7 DEF Answered, Goto, Settled
<1>8. CASE EmptyAnswer(c)
  BY <1>2, <1>8 DEF EmptyAnswer, Goto, Active, InSlot
<1>9. CASE FailsTransiently(c)
  BY <1>2, <1>3, <1>9 DEF FailsTransiently, Goto, Active, InSlot
<1>10. CASE FailsForGood(c)
  BY <1>3, <1>10 DEF FailsForGood
<1>11. CASE BackoffEnds(c)
  BY <1>1, <1>11 DEF BackoffEnds, TypeOK
<1>12. CASE Cancel(c)
  BY <1>2, <1>12 DEF Cancel, Goto, Settled
<1>. QED
  BY <1>4, <1>5, <1>6, <1>7, <1>8, <1>9, <1>10, <1>11, <1>12 DEF Step

LEMMA GateInvInit == Init => GateInv
<1>. SUFFICES ASSUME Init PROVE GateInv
  OBVIOUS
<1>1. Chain[1] \in Providers /\ 1 \in 1..Len(Chain)
  BY ChainFacts
<1>2. \A p \in Providers : 1 \in 1..Len(Rotation[p]) /\ Rotation[p][1] \in Nodes
  BY RotationFacts
<1>3. \A g \in Gates : g[2] \in Nat
  BY RotationFacts DEF Gates
<1>4. TypeOK
  BY <1>1, <1>2, <1>3 DEF Init, TypeOK
<1>5. \A g \in Gates : Holders(g) = {}
  BY DEF Init, Holders, InSlot
<1>6. PermitsConserved
  <2>. SUFFICES ASSUME NEW g \in Gates PROVE permits[g] + Cardinality(Holders(g)) = g[2]
    BY DEF PermitsConserved
  <2>1. Cardinality(Holders(g)) = 0
    BY <1>5, FS_EmptySet
  <2>2. permits[g] = g[2]
    BY DEF Init
  <2>. QED
    BY <1>3, <2>1, <2>2
<1>. QED
  BY <1>4, <1>6 DEF GateInv

LEMMA GateInvNext == GateInv /\ [Next]_vars => GateInv'
<1>. SUFFICES ASSUME GateInv, [Next]_vars PROVE GateInv'
  OBVIOUS
<1>. USE DEF GateInv
<1>1. CASE UNCHANGED vars
  <2>1. TypeOK'
    BY <1>1 DEF vars, TypeOK
  <2>2. PermitsConserved'
    BY <1>1 DEF vars, PermitsConserved, Holders, Gate, Provider
  <2>. QED
    BY <2>1, <2>2
<1>2. ASSUME NEW c \in Callers, Step(c) \/ Cancel(c) PROVE GateInv'
  <2>1. Moves(c)
    BY <1>2, EveryStepMoves
  <2>2. \A g \in Gates : permits'[g] \in Nat /\ permits'[g] + Cardinality(Holders(g)') = g[2]
    BY <2>1, MoveKeepsPermits
  <2>3. permits' \in [Gates -> Nat]
    <3>1. DOMAIN permits' = Gates /\ permits' = [g \in Gates |-> permits'[g]]
      BY <2>1 DEF Moves, StaysOut, StaysIn, Enters, Leaves, TypeOK
    <3>. QED
      BY <2>2, <3>1
  <2>4. TypeOK'
    BY <1>2, <2>3, StepKeepsTypes DEF TypeOK
  <2>5. PermitsConserved'
    BY <2>2 DEF PermitsConserved
  <2>. QED
    BY <2>4, <2>5
<1>. QED
  BY <1>1, <1>2 DEF Next

\* Every variable keeps its type.
THEOREM VisionTypeCorrect == Spec => []TypeOK
<1>1. GateInv => TypeOK
  BY DEF GateInv
<1>. QED
  BY <1>1, GateInvInit, GateInvNext, PTL DEF Spec

\* Permits are conserved on every path through analyze_image, whatever the
\* endpoints answer and wherever a call is cancelled.
THEOREM PermitsAreConserved == Spec => []PermitsConserved
<1>1. GateInv => PermitsConserved
  BY DEF GateInv
<1>. QED
  BY <1>1, GateInvInit, GateInvNext, PTL DEF Spec

-----------------------------------------------------------------------------
(* Attempts.                                                               *)

\* An attempt within the bound, in a state other than the backoff.
LEMMA OneCallKeepsAttempts ==
  ASSUME TypeOK, AttemptInv, NEW c \in Callers, Others(c),
         \A d \in Callers \ {c} : attempt'[d] = attempt[d],
         pc'[c] # "idle" => attempt'[c] \in 1..MaxAttempts(Provider(c)'),
         pc'[c] = "backoff" => attempt'[c] < MaxAttempts(Provider(c)')
  PROVE  AttemptInv'
BY DEF AttemptInv, AttemptsBounded, BackoffHasAttempts, Others, Provider, MaxAttempts

LEMMA TryKeepsAttempts ==
  ASSUME TypeOK, AttemptInv, NEW c \in Callers, NEW t \in 1..Len(Chain), NEW k \in Nat,
         Try(c, t, k), k \in 1..MaxAttempts(Chain[t])
  PROVE  AttemptInv'
<1>1. Others(c) /\ pc'[c] = "waiting"
  BY TryMoves
<1>2. attempt'[c] = k /\ turn'[c] = t /\ \A d \in Callers \ {c} : attempt'[d] = attempt[d]
  BY TryFacts DEF TypeOK
<1>3. Provider(c)' = Chain[t]
  BY <1>2 DEF Provider
<1>. QED
  BY <1>1, <1>2, <1>3, OneCallKeepsAttempts

LEMMA AttemptInvNext == TypeOK /\ AttemptInv /\ [Next]_vars => AttemptInv'
<1>. SUFFICES ASSUME TypeOK, AttemptInv, [Next]_vars PROVE AttemptInv'
  OBVIOUS
<1>1. CASE UNCHANGED vars
  BY <1>1 DEF vars, AttemptInv, AttemptsBounded, BackoffHasAttempts, Provider, MaxAttempts
<1>2. ASSUME NEW c \in Callers, Step(c) \/ Cancel(c) PROVE AttemptInv'
  <2>. DEFINE p == Provider(c)
  <2>1. MaxAttempts(p) \in Nat \ {0} /\ attempt[c] \in Nat
    BY GateIsGate, RotationFacts DEF TypeOK
  <2>2. \A t \in 1..Len(Chain) : 1 \in 1..MaxAttempts(Chain[t])
    BY ChainFacts, RotationFacts
  <2>3. Others(c)
    BY <1>2, EveryStepMoves DEF Moves
  <2>4. ASSUME NEW s \in Active \cup Settled, s # "idle", pc[c] # "idle",
               pc' = [pc EXCEPT ![c] = s],
               s = "backoff" => MayRetry(c),
               UNCHANGED <<turn, attempt>>
        PROVE  AttemptInv'
    <3>1. pc'[c] = s /\ Provider(c)' = p /\ attempt' = attempt
      BY <2>4 DEF TypeOK, Provider
    <3>2. attempt[c] \in 1..MaxAttempts(p)
      BY <2>4 DEF AttemptInv, AttemptsBounded
    <3>. QED
      BY <2>3, <2>4, <3>1, <3>2, OneCallKeepsAttempts DEF MayRetry
  <2>5. GiveUp(c) /\ pc[c] # "idle" => AttemptInv'
    <3>. SUFFICES ASSUME GiveUp(c), pc[c] # "idle" PROVE AttemptInv'
      OBVIOUS
    <3>1. CASE turn[c] + 1 \in 1..Len(Chain) /\ Try(c, turn[c] + 1, 1)
      BY <2>2, <3>1, TryKeepsAttempts
    <3>2. CASE pc' = [pc EXCEPT ![c] = "failed"] /\ UNCHANGED <<turn, attempt, node, cursor, tried, shared>>
      BY <2>4, <3>2 DEF Settled
    <3>. QED
      BY <3>1, <3>2, GiveUpFacts
  <2>6. CASE Begin(c)
    BY <2>2, <2>6, TryKeepsAttempts, ChainFacts DEF Begin
  <2>7. CASE Acquire(c)
    BY <2>4, <2>7 DEF Acquire, Goto, Active, InSlot
  <2>8. CASE GateTimesOut(c)
    BY <2>5, <2>8 DEF GateTimesOut
  <2>9. CASE Answered(c)
    BY <2>4, <2>9 DEF Answered, Goto, Settled
  <2>10. CASE EmptyAnswer(c)
    BY <2>4, <2>10 DEF EmptyAnswer, Goto, Active, InSlot
  <2>11. CASE FailsTransiently(c)
    BY <2>4, <2>5, <2>11 DEF FailsTransiently, Goto, Active, InSlot
  <2>12. CASE FailsForGood(c)
    BY <2>5, <2>12 DEF FailsForGood
  <2>13. CASE BackoffEnds(c)
    <3>1. turn[c] \in 1..Len(Chain) /\ attempt[c] + 1 \in Nat
      BY DEF TypeOK
    <3>2. attempt[c] < MaxAttempts(Chain[turn[c]])
      BY <2>13 DEF BackoffEnds, AttemptInv, BackoffHasAttempts, Provider
    <3>3. attempt[c] + 1 \in 1..MaxAttempts(Chain[turn[c]])
      BY <2>1, <3>2 DEF Provider
    <3>. QED
      BY <2>13, <3>1, <3>3, TryKeepsAttempts DEF BackoffEnds
  <2>14. CASE Cancel(c)
    BY <2>4, <2>14 DEF Cancel, Goto, Settled, Active, InSlot
  <2>. QED
    BY <1>2, <2>6, <2>7, <2>8, <2>9, <2>10, <2>11, <2>12, <2>13, <2>14 DEF Step
<1>. QED
  BY <1>1, <1>2 DEF Next

\* No call asks a provider more often than the bound computed beforehand.
THEOREM AttemptsAreBounded == Spec => []AttemptsBounded
<1>1. Init => AttemptInv
  BY DEF Init, AttemptInv, AttemptsBounded, BackoffHasAttempts
<1>2. AttemptInv => AttemptsBounded
  BY DEF AttemptInv
<1>. QED
  BY <1>1, <1>2, AttemptInvNext, VisionTypeCorrect, PTL DEF Spec
-----------------------------------------------------------------------------
(* Nodes.                                                                  *)

\* The last a values of the cycle of p, before the position at.
Window(p, a, at) ==
  {Rotation[p][i] : i \in {i \in 1..Len(Rotation[p]) :
                             \/ i < at /\ i + a >= at
                             \/ i + a >= at + Len(Rotation[p])}}

AllNodes(p) == {Rotation[p][i] : i \in DOMAIN Rotation[p]}

\* A call that has its provider to itself has tried the last values of the cycle, as
\* many as it made attempts; it keeps what it tried when it is settled.
LoneCall(c) ==
  c \notin shared =>
    /\ pc[c] \in Active => tried[c] = Window(Provider(c), attempt[c], cursor[Provider(c)])
    /\ attempt[c] >= Len(Rotation[Provider(c)]) => tried[c] = AllNodes(Provider(c))

LoneInv == \A c \in Callers : LoneCall(c)

\* The cycle once round is all the nodes.
LEMMA WindowIsAll ==
  ASSUME NEW p \in Providers, NEW a \in Nat, NEW at \in 1..Len(Rotation[p]), a >= Len(Rotation[p])
  PROVE  Window(p, a, at) = AllNodes(p)
<1>1. Rotation[p] \in Seq(Nodes) /\ Len(Rotation[p]) \in Nat
  BY RotationFacts
<1>2. DOMAIN Rotation[p] = 1..Len(Rotation[p])
  BY <1>1
<1>3. \A i \in 1..Len(Rotation[p]) : (i < at /\ i + a >= at) \/ i + a >= at + Len(Rotation[p])
  BY <1>1
<1>. QED
  BY <1>2, <1>3 DEF Window, AllNodes

\* The cycle goes from its last position to its first.
LEMMA NextPosition ==
  ASSUME NEW L \in Nat \ {0}, NEW at \in 1..L
  PROVE  (at % L) + 1 = IF at = L THEN 1 ELSE at + 1
<1>1. \A x \in Nat, y \in Nat \ {0} : x < y => x % y = x
  OBVIOUS
<1>2. \A y \in Nat \ {0} : y % y = 0
  OBVIOUS
<1>3. CASE at < L
  BY <1>1, <1>3
<1>4. CASE at = L
  BY <1>2, <1>4
<1>. QED
  BY <1>3, <1>4

\* One value more: the window grows by the node at the position that is left.
LEMMA WindowGrows ==
  ASSUME NEW p \in Providers, NEW a \in Nat, NEW at \in 1..Len(Rotation[p])
  PROVE  Window(p, a + 1, (at % Len(Rotation[p])) + 1) = Window(p, a, at) \cup {Rotation[p][at]}
<1>. DEFINE L == Len(Rotation[p])
            next == (at % L) + 1
            In(i, k, x) == (i < x /\ i + k >= x) \/ i + k >= x + L
<1>1. L \in Nat \ {0}
  BY RotationFacts
<1>2. next = IF at = L THEN 1 ELSE at + 1
  BY <1>1, NextPosition
<1>3. \A i \in 1..L : In(i, a + 1, next) <=> In(i, a, at) \/ i = at
  <2>1. at \in 1..L
    OBVIOUS
  <2>. HIDE DEF L, next
  <2>2. CASE at = L
    BY <1>1, <1>2, <2>1, <2>2
  <2>3. CASE at # L
    BY <1>1, <1>2, <2>1, <2>3
  <2>. QED
    BY <2>2, <2>3
<1>. QED
  BY <1>3 DEF Window

LEMMA WindowEmpty ==
  ASSUME NEW p \in Providers, NEW at \in 1..Len(Rotation[p])
  PROVE  Window(p, 0, at) = {}
<1>1. Len(Rotation[p]) \in Nat \ {0}
  BY RotationFacts
<1>. QED
  BY <1>1 DEF Window

\* Who starts an attempt, with which count, and what a step without one changes.
Starts(c, t, k) ==
  /\ Try(c, t, k)
  /\ k = 1 \/ (k = attempt[c] + 1 /\ t = turn[c] /\ pc[c] \in Active)

Quiet(c) ==
  /\ UNCHANGED <<turn, attempt, node, cursor, tried, shared>>
  /\ pc'[c] \in Active => pc[c] \in Active

LEMMA EveryStepStartsOrIsQuiet ==
  ASSUME TypeOK, NEW c \in Callers, Step(c) \/ Cancel(c)
  PROVE  Quiet(c) \/ \E t \in 1..Len(Chain), k \in Nat : Starts(c, t, k)
<1>. DEFINE Goal == Quiet(c) \/ \E t \in 1..Len(Chain), k \in Nat : Starts(c, t, k)
<1>1. ASSUME NEW s, pc' = [pc EXCEPT ![c] = s], s \in Active => pc[c] \in Active,
             UNCHANGED <<turn, attempt, node, cursor, tried, shared>>
      PROVE  Quiet(c)
  BY <1>1 DEF Quiet, TypeOK
<1>2. ASSUME NEW t \in 1..Len(Chain), Try(c, t, 1)
      PROVE  Goal
  BY <1>2 DEF Starts
<1>3. GiveUp(c) => Goal
  BY <1>1, <1>2, GiveUpFacts DEF Active, InSlot
<1>4. CASE Begin(c)
  BY <1>2, <1>4, ChainFacts DEF Begin
<1>5. CASE Acquire(c)
  BY <1>1, <1>5 DEF Acquire, Goto, Active, InSlot
<1>6. CASE GateTimesOut(c)
  BY <1>3, <1>6 DEF GateTimesOut
<1>7. CASE Answered(c)
  BY <1>1, <1>7 DEF Answered, Goto, Active, InSlot
<1>8. CASE EmptyAnswer(c)
  BY <1>1, <1>8 DEF EmptyAnswer, Goto, Active, InSlot
<1>9. CASE FailsTransiently(c)
  BY <1>1, <1>3, <1>9 DEF FailsTransiently, Goto, Active, InSlot
<1>10. CASE FailsForGood(c)
  BY <1>3, <1>10 DEF FailsForGood
<1>11. CASE BackoffEnds(c)
  <2>1. turn[c] \in 1..Len(Chain) /\ attempt[c] + 1 \in Nat /\ pc[c] \in Active
    BY <1>11 DEF BackoffEnds, TypeOK, Active, InSlot
  <2>. QED
    BY <1>11, <2>1 DEF BackoffEnds, Starts
<1>12. CASE Cancel(c)
  BY <1>1, <1>12 DEF Cancel, Goto, Active, InSlot
<1>. QED
  BY <1>4, <1>5, <1>6, <1>7, <1>8, <1>9, <1>10, <1>11, <1>12 DEF Step

\* A quiet step says nothing new about any call.
LEMMA QuietKeepsLone ==
  ASSUME TypeOK, LoneInv, NEW c \in Callers, Others(c), Quiet(c)
  PROVE  LoneInv'
<1>. SUFFICES ASSUME NEW d \in Callers PROVE LoneCall(d)'
  BY DEF LoneInv
<1>1. pc'[d] \in Active => pc[d] \in Active
  BY DEF Others, Quiet
<1>2. UNCHANGED <<turn, attempt, cursor, tried, shared>>
  BY DEF Quiet
<1>3. LoneCall(d)
  BY DEF LoneInv
<1>. QED
  BY <1>1, <1>2, <1>3 DEF LoneCall, Provider, Window, AllNodes

\* The call that starts an attempt has one value more, the one it was given.
LEMMA StarterStaysLone ==
  ASSUME TypeOK, LoneInv, NEW c \in Callers, NEW t \in 1..Len(Chain), NEW k \in Nat, Starts(c, t, k)
  PROVE  LoneCall(c)'
<1>. DEFINE p == Chain[t]
            n == Rotation[p][cursor[p]]
            rivals == {d \in Callers \ {c} : pc[d] \in Active /\ Provider(d) = p}
<1>1. p \in Providers /\ cursor[p] \in 1..Len(Rotation[p])
  BY ChainFacts DEF TypeOK
<1>2. cursor'[p] = (cursor[p] % Len(Rotation[p])) + 1 /\ cursor'[p] \in 1..Len(Rotation[p])
  <2>1. cursor' = [cursor EXCEPT ![p] = (cursor[p] % Len(Rotation[p])) + 1]
    BY DEF Starts, Try, Advance
  <2>2. cursor'[p] \in 1..Len(Rotation[p])
    BY <1>1, TryFacts DEF Starts
  <2>. QED
    BY <1>1, <2>1, <2>2 DEF TypeOK
<1>3. attempt'[c] = k /\ turn'[c] = t /\ Provider(c)' = p
  BY TryFacts DEF Starts, Provider, TypeOK
<1>4. tried'[c] = IF k = 1 THEN {n} ELSE tried[c] \cup {n}
  BY DEF Starts, Try, TypeOK
<1>5. ASSUME c \notin shared'
      PROVE  k # 1 => c \notin shared
  <2>1. shared' = (IF k = 1 THEN shared \ {c} ELSE shared) \cup rivals
                  \cup (IF rivals = {} THEN {} ELSE {c})
    BY DEF Starts, Try
  <2>. QED
    BY <1>5, <2>1
<1>6. \A a \in Nat : Window(p, a + 1, cursor'[p]) = Window(p, a, cursor[p]) \cup {n}
  <2>. HIDE DEF p
  <2>. QED
    BY <1>1, <1>2, WindowGrows, ZenonT(30)
<1>7. ASSUME c \notin shared'
      PROVE  tried'[c] = Window(p, k, cursor'[p])
  <2>1. CASE k = 1
    <3>1. Window(p, 0 + 1, cursor'[p]) = Window(p, 0, cursor[p]) \cup {n}
      BY <1>1, <1>2, <1>6
    <3>2. Window(p, 0, cursor[p]) = {} /\ 0 + 1 = 1
      BY <1>1, WindowEmpty
    <3>. QED
      BY <1>4, <2>1, <3>1, <3>2
  <2>2. CASE k # 1
    <3>1. k = attempt[c] + 1 /\ Provider(c) = p /\ pc[c] \in Active /\ attempt[c] \in Nat
      BY <2>2 DEF Starts, Provider, TypeOK
    <3>2. tried[c] = Window(p, attempt[c], cursor[p])
      BY <1>5, <1>7, <2>2, <3>1 DEF LoneInv, LoneCall
    <3>3. Window(p, attempt[c] + 1, cursor'[p]) = Window(p, attempt[c], cursor[p]) \cup {n}
      BY <3>1, <1>6
    <3>. QED
      BY <1>4, <2>2, <3>1, <3>2, <3>3
  <2>. QED
    BY <2>1, <2>2
<1>8. ASSUME c \notin shared', k >= Len(Rotation[p])
      PROVE  tried'[c] = AllNodes(p)
  BY <1>1, <1>2, <1>7, <1>8, WindowIsAll
<1>9. /\ (Window(Provider(c), attempt[c], cursor[Provider(c)]))' = Window(p, k, cursor'[p])
      /\ AllNodes(Provider(c))' = AllNodes(p)
  BY <1>3 DEF Window, AllNodes
<1>. QED
  BY <1>3, <1>7, <1>8, <1>9 DEF LoneCall

\* Whoever shares the provider of an attempt is not alone any more; the cycles of the
\* other providers stand still.
LEMMA OthersStayLone ==
  ASSUME TypeOK, LoneInv, NEW c \in Callers, NEW t \in 1..Len(Chain), NEW k \in Nat,
         Starts(c, t, k), NEW d \in Callers \ {c}
  PROVE  LoneCall(d)'
<1>. DEFINE p == Chain[t]
            rivals == {e \in Callers \ {c} : pc[e] \in Active /\ Provider(e) = p}
<1>1. pc'[d] = pc[d] /\ turn'[d] = turn[d] /\ attempt'[d] = attempt[d] /\ tried'[d] = tried[d]
  <2>1. pc'[d] = pc[d] /\ turn'[d] = turn[d] /\ attempt'[d] = attempt[d]
    BY TryFacts DEF Starts, TypeOK
  <2>2. tried'[d] = tried[d]
    BY DEF Starts, Try, TypeOK
  <2>. QED
    BY <2>1, <2>2
<1>2. Provider(d)' = Provider(d)
  BY <1>1 DEF Provider
<1>3. shared' = (IF k = 1 THEN shared \ {c} ELSE shared) \cup rivals
                \cup (IF rivals = {} THEN {} ELSE {c})
  BY DEF Starts, Try
<1>4. SUFFICES ASSUME d \notin shared' PROVE LoneCall(d)'
  BY DEF LoneCall
<1>5. d \notin shared /\ ~(pc[d] \in Active /\ Provider(d) = p)
  BY <1>3, <1>4
<1>6. LoneCall(d) /\ Provider(d) \in Providers
  BY GateIsGate DEF LoneInv
<1>7. pc[d] \in Active => cursor'[Provider(d)] = cursor[Provider(d)]
  BY <1>5, <1>6 DEF Starts, Try, Advance, TypeOK
<1>8. (Window(Provider(d), attempt[d], cursor[Provider(d)]))'
         = Window(Provider(d), attempt[d], cursor'[Provider(d)])
      /\ AllNodes(Provider(d))' = AllNodes(Provider(d))
  BY <1>1, <1>2 DEF Window, AllNodes
<1>. QED
  BY <1>1, <1>2, <1>5, <1>6, <1>7, <1>8 DEF LoneCall

LEMMA LoneInvNext == TypeOK /\ LoneInv /\ [Next]_vars => LoneInv'
<1>. SUFFICES ASSUME TypeOK, LoneInv, [Next]_vars PROVE LoneInv'
  OBVIOUS
<1>1. CASE UNCHANGED vars
  BY <1>1 DEF vars, LoneInv, LoneCall, Provider, Window, AllNodes
<1>2. ASSUME NEW c \in Callers, Step(c) \/ Cancel(c) PROVE LoneInv'
  <2>1. CASE Quiet(c)
    BY <1>2, <2>1, EveryStepMoves, QuietKeepsLone DEF Moves
  <2>2. ASSUME NEW t \in 1..Len(Chain), NEW k \in Nat, Starts(c, t, k) PROVE LoneInv'
    BY <2>2, StarterStaysLone, OthersStayLone DEF LoneInv
  <2>. QED
    BY <1>2, <2>1, <2>2, EveryStepStartsOrIsQuiet
<1>. QED
  BY <1>1, <1>2 DEF Next

\* A call that had its provider to itself has tried every node by the time it made as
\* many attempts as there are nodes, wherever the calls before it left the cycle.
THEOREM LoneCallsSeeEveryNode == Spec => []LoneCallSeesEveryNode
<1>1. Init => LoneInv
  <2>. SUFFICES ASSUME Init, NEW c \in Callers PROVE LoneCall(c)
    BY DEF LoneInv
  <2>1. pc[c] = "idle" /\ attempt[c] = 0 /\ turn[c] = 1
    BY DEF Init
  <2>2. Len(Rotation[Provider(c)]) \in Nat \ {0}
    BY <2>1, ChainFacts, RotationFacts DEF Provider
  <2>. QED
    BY <2>1, <2>2 DEF LoneCall, Active, InSlot
<1>2. LoneInv => LoneCallSeesEveryNode
  BY DEF LoneInv, LoneCall, LoneCallSeesEveryNode, AllNodes
<1>. QED
  BY <1>1, <1>2, LoneInvNext, VisionTypeCorrect, PTL DEF Spec

-----------------------------------------------------------------------------
(* Progress.                                                               *)

\* How far a call is within an attempt.
Phase(s) ==
  CASE s = "idle" -> 0 [] s = "waiting" -> 1 [] s = "posting" -> 2
    [] s = "recovering" -> 3 [] s = "backoff" -> 4 [] OTHER -> 5

LEMMA Phases ==
  /\ Phase("idle") = 0 /\ Phase("waiting") = 1 /\ Phase("posting") = 2
  /\ Phase("recovering") = 3 /\ Phase("backoff") = 4
  /\ \A r \in Active : Phase(r) \in 1..4
  /\ \A r \in Settled : Phase(r) = 5
BY DEF Phase, Active, InSlot, Settled

\* The call goes on: to a later provider, a later attempt or a later phase.
GoesOn(c) ==
  \/ turn'[c] > turn[c]
  \/ turn'[c] = turn[c] /\ attempt'[c] > attempt[c]
  \/ turn'[c] = turn[c] /\ attempt'[c] = attempt[c] /\ Phase(pc'[c]) > Phase(pc[c])

Alone(c) ==
  /\ GoesOn(c) /\ pc'[c] # "idle"
  /\ \A d \in Callers \ {c} : pc'[d] = pc[d] /\ turn'[d] = turn[d] /\ attempt'[d] = attempt[d]

\* Every step takes one call further and leaves the others where they are.
CallsOnlyGoOn == [][\E c \in Callers : Alone(c)]_vars

\* A call that has not begun has made no attempt with the first provider.
IdleIsFresh == \A c \in Callers : pc[c] = "idle" => turn[c] = 1 /\ attempt[c] = 0

LEMMA EveryStepGoesOn ==
  ASSUME TypeOK, IdleIsFresh, NEW c \in Callers, Step(c) \/ Cancel(c)
  PROVE  Alone(c)
<1>1. ASSUME NEW s \in Active \cup Settled, Phase(s) > Phase(pc[c]),
             pc' = [pc EXCEPT ![c] = s],
             UNCHANGED <<turn, attempt, node, cursor, tried, shared>>
      PROVE  Alone(c)
  <2>1. s # "idle"
    BY DEF Active, InSlot, Settled
  <2>. QED
    BY <1>1, <2>1 DEF Alone, GoesOn, TypeOK
<1>1a. ASSUME NEW s \in Settled, pc[c] \in Active, pc' = [pc EXCEPT ![c] = s],
             UNCHANGED <<turn, attempt, node, cursor, tried, shared>>
      PROVE  Alone(c)
  <2>1. Phase(s) > Phase(pc[c])
    BY <1>1a, Phases
  <2>. QED
    BY <1>1a, <1>1, <2>1
<1>2. ASSUME NEW t \in 1..Len(Chain), NEW k \in Nat, Try(c, t, k),
             t > turn[c] \/ (t = turn[c] /\ k > attempt[c])
      PROVE  Alone(c)
  <2>1. /\ pc' = [pc EXCEPT ![c] = "waiting"]
        /\ turn' = [turn EXCEPT ![c] = t]
        /\ attempt' = [attempt EXCEPT ![c] = k]
    BY <1>2, TryFacts
  <2>. QED
    BY <1>2, <2>1 DEF Alone, GoesOn, TypeOK
<1>3. GiveUp(c) /\ pc[c] \in Active => Alone(c)
  <2>. SUFFICES ASSUME GiveUp(c), pc[c] \in Active PROVE Alone(c)
    OBVIOUS
  <2>1. CASE turn[c] + 1 \in 1..Len(Chain) /\ Try(c, turn[c] + 1, 1)
    <3>1. turn[c] + 1 > turn[c]
      BY DEF TypeOK
    <3>. QED
      BY <1>2, <2>1, <3>1
  <2>2. CASE pc' = [pc EXCEPT ![c] = "failed"] /\ UNCHANGED <<turn, attempt, node, cursor, tried, shared>>
    BY <1>1a, <2>2 DEF Settled
  <2>. QED
    BY <2>1, <2>2, GiveUpFacts
<1>4. CASE Begin(c)
  <2>1. 1 \in 1..Len(Chain) /\ turn[c] = 1 /\ attempt[c] = 0
    BY <1>4, ChainFacts DEF Begin, IdleIsFresh
  <2>. QED
    BY <1>2, <1>4, <2>1 DEF Begin
<1>5. CASE Acquire(c)
  <2>1. pc[c] = "waiting" /\ pc' = [pc EXCEPT ![c] = "posting"]
        /\ UNCHANGED <<turn, attempt, node, cursor, tried, shared>>
    BY <1>5 DEF Acquire, Goto
  <2>2. "posting" \in Active \cup Settled
    BY DEF Active, InSlot
  <2>3. Phase("posting") > Phase("waiting")
    BY Phases
  <2>. QED
    BY <1>1, <2>1, <2>2, <2>3
<1>6. CASE GateTimesOut(c)
  BY <1>3, <1>6 DEF GateTimesOut, Active
<1>7. CASE Answered(c)
  BY <1>1a, <1>7 DEF Answered, Goto, Settled, Active, InSlot
<1>8. CASE EmptyAnswer(c)
  <2>1. pc[c] = "posting" /\ pc' = [pc EXCEPT ![c] = "recovering"]
        /\ UNCHANGED <<turn, attempt, node, cursor, tried, shared>>
    BY <1>8 DEF EmptyAnswer, Goto
  <2>2. "recovering" \in Active \cup Settled
    BY DEF Active, InSlot
  <2>3. Phase("recovering") > Phase("posting")
    BY Phases
  <2>. QED
    BY <1>1, <2>1, <2>2, <2>3
<1>9. CASE FailsTransiently(c)
  BY <1>1, <1>3, <1>9, Phases DEF FailsTransiently, Goto, Active, InSlot
<1>10. CASE FailsForGood(c)
  BY <1>3, <1>10 DEF FailsForGood, Active, InSlot
<1>11. CASE BackoffEnds(c)
  BY <1>2, <1>11 DEF BackoffEnds, TypeOK
<1>12. CASE Cancel(c)
  BY <1>1a, <1>12 DEF Cancel, Goto, Settled
<1>. QED
  BY <1>4, <1>5, <1>6, <1>7, <1>8, <1>9, <1>10, <1>11, <1>12 DEF Step

LEMMA IdleStaysFresh == TypeOK /\ IdleIsFresh /\ [Next]_vars => IdleIsFresh'
<1>. SUFFICES ASSUME TypeOK, IdleIsFresh, [Next]_vars PROVE IdleIsFresh'
  OBVIOUS
<1>1. CASE UNCHANGED vars
  BY <1>1 DEF vars, IdleIsFresh
<1>2. ASSUME NEW c \in Callers, Step(c) \/ Cancel(c) PROVE IdleIsFresh'
  <2>1. Alone(c)
    BY <1>2, EveryStepGoesOn
  <2>. QED
    BY <2>1 DEF Alone, IdleIsFresh
<1>. QED
  BY <1>1, <1>2 DEF Next

\* No call ever waits a second time for what it has behind it: each step takes one call
\* to a later phase, attempt or provider. Attempts are bounded (AttemptsAreBounded) and
\* the chain is finite, so that all calls together take finitely many steps.
THEOREM CallsGoOn == Spec => CallsOnlyGoOn
<1>1. Init => IdleIsFresh
  BY DEF Init, IdleIsFresh
<1>2. TypeOK /\ IdleIsFresh /\ [Next]_vars => [\E c \in Callers : Alone(c)]_vars
  BY EveryStepGoesOn DEF Next
<1>. QED
  BY <1>1, <1>2, IdleStaysFresh, VisionTypeCorrect, PTL DEF Spec, CallsOnlyGoOn
=============================================================================
