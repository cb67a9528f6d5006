------------------------------ MODULE VisionGate ------------------------------
(***************************************************************************)
(* Concurrent image analyses through a FallbackVisionProvider: each call   *)
(* goes down the chain of providers; an Ollama provider makes a bounded    *)
(* number of attempts, rotating over its nodes with a cycle all its calls  *)
(* share, and each attempt holds a permit of the endpoint's gate, which    *)
(* all providers with the same limit share across event loops and threads. *)
(*                                                                         *)
(* A failing attempt sleeps its backoff inside the try whose finally       *)
(* releases the gate, so the permit is held through the backoff.           *)
(***************************************************************************)
EXTENDS Naturals, FiniteSets, Sequences

CONSTANTS
  Callers,    \* calls of analyze_image
  Providers,  \* OllamaVisionProvider objects
  Nodes,      \* endpoints
  Rotation,   \* Rotation[p]: the node_urls of p, without repetitions
  Limit,      \* Limit[p]: max_inflight of p
  Retries,    \* max_retries
  Chain       \* the providers in the order they are tried

ASSUME VisionAssumption ==
  /\ IsFiniteSet(Callers)
  /\ Rotation \in [Providers -> Seq(Nodes) \ {<<>>}]
  /\ Limit \in [Providers -> Nat \ {0}]
  /\ Retries \in Nat
  /\ Chain \in Seq(Providers) \ {<<>>}

VARIABLES
  pc,       \* what each call waits for
  turn,     \* position in Chain
  attempt,  \* attempts made with the provider of that position
  node,     \* endpoint of the current attempt
  cursor,   \* next position of each provider's node cycle
  permits,  \* free permits of each gate
  tried,    \* history: nodes the call has tried with its current provider
  shared    \* history: calls whose provider another call used meanwhile

vars == <<pc, turn, attempt, node, cursor, permits, tried, shared>>

-----------------------------------------------------------------------------
(* Vocabulary.                                                             *)

Settled == {"done", "failed", "cancelled"}
InSlot  == {"posting", "recovering", "backoff"}    \* acquired is True
Active  == InSlot \cup {"waiting"}

\* A gate is found by endpoint and limit: _endpoint_gates' key.
Gates == {<<n, Limit[p]>> : n \in Nodes, p \in Providers}

Provider(c) == Chain[turn[c]]
Gate(c)     == <<node[c], Limit[Provider(c)]>>
Holders(g)  == {c \in Callers : pc[c] \in InSlot /\ Gate(c) = g}
MaxAttempts(p) == Len(Rotation[p]) * (Retries + 1)

Init ==
  /\ pc = [c \in Callers |-> "idle"]
  /\ turn = [c \in Callers |-> 1]
  /\ attempt = [c \in Callers |-> 0]
  /\ node = [c \in Callers |-> Rotation[Chain[1]][1]]
  /\ cursor = [p \in Providers |-> 1]
  /\ permits = [g \in Gates |-> g[2]]
  /\ tried = [c \in Callers |-> {}]
  /\ shared = {}

-----------------------------------------------------------------------------
(* Steps.                                                                  *)

Goto(c, to) == pc' = [pc EXCEPT ![c] = to]

\* Defect: every attempt begins with the first node.
Advance_Restart(p) == cursor' = [cursor EXCEPT ![p] = 1]

\* next(self._node_cycle)
Advance(p) == cursor' = [cursor EXCEPT ![p] = (@ % Len(Rotation[p])) + 1]

\* The k-th attempt, with the provider at position t of the chain.
Try(c, t, k) ==
  LET p == Chain[t]
      n == Rotation[p][cursor[p]]
      rivals == {d \in Callers \ {c} : pc[d] \in Active /\ Provider(d) = p}
  IN  /\ Goto(c, "waiting")
      /\ turn' = [turn EXCEPT ![c] = t]
      /\ attempt' = [attempt EXCEPT ![c] = k]
      /\ node' = [node EXCEPT ![c] = n]
      /\ Advance(p)
      /\ tried' = [tried EXCEPT ![c] = IF k = 1 THEN {n} ELSE @ \cup {n}]
      /\ shared' = (IF k = 1 THEN shared \ {c} ELSE shared) \cup rivals
                   \cup (IF rivals = {} THEN {} ELSE {c})

Begin(c) == pc[c] = "idle" /\ Try(c, 1, 1) /\ UNCHANGED permits

Acquire(c) ==
  /\ pc[c] = "waiting"
  /\ permits[Gate(c)] > 0
  /\ permits' = [permits EXCEPT ![Gate(c)] = @ - 1]
  /\ Goto(c, "posting")
  /\ UNCHANGED <<turn, attempt, node, cursor, tried, shared>>

\* finally: gate.release()
Release(c) == permits' = [permits EXCEPT ![Gate(c)] = @ + 1]

\* Defect: only the answer path gives the permit back.
GiveUp_KeepPermit(c) ==
  /\ UNCHANGED permits
  /\ IF turn[c] < Len(Chain)
     THEN Try(c, turn[c] + 1, 1)
     ELSE Goto(c, "failed") /\ UNCHANGED <<turn, attempt, node, cursor, tried, shared>>

\* RuntimeError "All vision attempts failed": the next provider of the chain.
GiveUp(c) ==
  /\ IF pc[c] \in InSlot THEN Release(c) ELSE UNCHANGED permits
  /\ IF turn[c] < Len(Chain)
     THEN Try(c, turn[c] + 1, 1)
     ELSE Goto(c, "failed") /\ UNCHANGED <<turn, attempt, node, cursor, tried, shared>>

\* The gate is still full at the deadline: TimeoutError, which is not transient.
GateTimesOut(c) == pc[c] = "waiting" /\ permits[Gate(c)] = 0 /\ GiveUp(c)

Answered(c) ==
  /\ pc[c] \in {"posting", "recovering"}
  /\ Release(c)
  /\ Goto(c, "done")
  /\ UNCHANGED <<turn, attempt, node, cursor, tried, shared>>

\* HTTP 200 with no text: /api/generate is tried under the same permit.
EmptyAnswer(c) ==
  /\ pc[c] = "posting"
  /\ Goto(c, "recovering")
  /\ UNCHANGED <<turn, attempt, node, cursor, permits, tried, shared>>

MayRetry(c) == attempt[c] < MaxAttempts(Provider(c))

\* 429, 5xx or a network error, or no text after all: back off, permit in hand.
FailsTransiently(c) ==
  /\ pc[c] \in {"posting", "recovering"}
  /\ IF MayRetry(c)
     THEN Goto(c, "backoff") /\ UNCHANGED <<turn, attempt, node, cursor, permits, tried, shared>>
     ELSE GiveUp(c)

\* 4xx, a malformed answer, or asyncio.wait_for's TimeoutError: break.
FailsForGood(c) == pc[c] = "posting" /\ GiveUp(c)

\* Defect: an attempt that backed off is not counted.
BackoffEnds_NotCounted(c) ==
  /\ pc[c] = "backoff"
  /\ Release(c)
  /\ Try(c, turn[c], attempt[c])

BackoffEnds(c) ==
  /\ pc[c] = "backoff"
  /\ Release(c)
  /\ Try(c, turn[c], attempt[c] + 1)

\* The caller's task is cancelled; CancelledError passes both except blocks.
Cancel(c) ==
  /\ pc[c] \in Active
  /\ IF pc[c] \in InSlot THEN Release(c) ELSE UNCHANGED permits
  /\ Goto(c, "cancelled")
  /\ UNCHANGED <<turn, attempt, node, cursor, tried, shared>>

Step(c) ==
  \/ Begin(c) \/ Acquire(c) \/ GateTimesOut(c) \/ Answered(c) \/ EmptyAnswer(c)
  \/ FailsTransiently(c) \/ FailsForGood(c) \/ BackoffEnds(c)

Next == \E c \in Callers : Step(c) \/ Cancel(c)

Spec == Init /\ [][Next]_vars

\* Polling for the gate ends at its deadline, requests and sleeps end by their
\* own timeouts, and the event loop resumes the call after each.
FairSpec == Spec /\ \A c \in Callers : WF_vars(Step(c))

-----------------------------------------------------------------------------
(* Properties.                                                             *)

TypeOK ==
  /\ pc \in [Callers -> Active \cup Settled \cup {"idle"}]
  /\ turn \in [Callers -> 1..Len(Chain)]
  /\ attempt \in [Callers -> Nat]
  /\ node \in [Callers -> Nodes]
  /\ cursor \in [Providers -> Nat]
  /\ \A p \in Providers : cursor[p] \in 1..Len(Rotation[p])
  /\ permits \in [Gates -> Nat]
  /\ tried \in [Callers -> SUBSET Nodes]
  /\ shared \subseteq Callers

\* On every way out of an attempt - answer, failure, backoff, cancellation -
\* the permit goes back to the gate it came from, once (pdf_vision.py:626-628).
PermitsConserved ==
  \A g \in Gates : permits[g] + Cardinality(Holders(g)) = g[2]

\* No call makes more attempts than the bound computed before its first
\* (pdf_vision.py:442).
AttemptsBounded ==
  \A c \in Callers : pc[c] # "idle" => attempt[c] \in 1..MaxAttempts(Provider(c))

\* A call that had its provider to itself has tried every node by its last
\* attempt; sharing the cycle with another call takes that away
\* (pdf_vision.py:437-440).
LoneCallSeesEveryNode ==
  \A c \in Callers :
    LET r == Rotation[Provider(c)]
    IN  attempt[c] >= Len(r) /\ c \notin shared => tried[c] = {r[i] : i \in DOMAIN r}

\* Every call that starts is answered, fails or is cancelled.
EveryCallSettles == \A c \in Callers : pc[c] \in Active ~> pc[c] \in Settled

\* What the comment at pdf_vision.py:440-441 says: a failure that is not
\* transient falls through to the next node, so a call that had its provider to
\* itself gives up only after it has tried them all.
FailedCallsTriedEveryNode ==
  \A c \in Callers :
    LET r == Rotation[Provider(c)]
    IN  pc[c] = "failed" /\ c \notin shared => tried[c] = {r[i] : i \in DOMAIN r}
=============================================================================
