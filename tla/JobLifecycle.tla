---------------------------- MODULE JobLifecycle ----------------------------
(***************************************************************************)
(* What remedy-server promises a client about a job, with no queue, worker *)
(* or process in sight: it is started at most once, it ends once, a        *)
(* restart fails it instead of running it again, and a removed id never    *)
(* comes back.                                                             *)
(***************************************************************************)
EXTENDS Naturals

CONSTANT Jobs

VARIABLE state  \* state[j]: "new", the status of j's row, or "gone"

Open   == {"queued", "running"}
Closed == {"done", "failed"}

Init == state = [j \in Jobs |-> "new"]

Move(j, from, to) ==
  /\ state[j] \in from
  /\ state' = [state EXCEPT ![j] = to]

Accept(j) == Move(j, {"new"}, "queued")
Start(j)  == Move(j, {"queued"}, "running")
Finish(j) == Move(j, {"running"}, "done")
Fail(j)   == Move(j, Open, "failed")
Remove(j) == Move(j, Open \cup Closed, "gone")

\* A restart fails every running job in one statement.
Interrupt ==
  state' = [j \in Jobs |-> IF state[j] = "running" THEN "failed" ELSE state[j]]

Step(j) == Accept(j) \/ Start(j) \/ Finish(j) \/ Fail(j) \/ Remove(j)

Next == Interrupt \/ \E j \in Jobs : Step(j)

Spec == Init /\ [][Next]_state
=============================================================================
