---------------------------- MODULE AgentLoopProofs ----------------------------
(***************************************************************************)
(* The bounds and the promises of one agent run, for every set of rules    *)
(* and tools and every budget.                                             *)
(***************************************************************************)
EXTENDS AgentLoop, TLAPS

\* What the budgets rest on: a turn is entered with both budgets left, and until
\* its first mutation they stay so.
Budgets ==
  /\ pc = "turn" => calls \in 1..MaxCalls
  /\ pc = "turn" /\ ~mutating => attempts < MaxFixAttempts
  /\ BudgetsHold

\* A check of a file is a verification; with veraPDF at hand a passing one is that
\* of a conformant file.
LEMMA ChecksAreTyped ==
  ASSUME NEW f \in Files, installed \in BOOLEAN, NEW v \in Checks(f)
  PROVE  v \in Verifications /\ (installed /\ v.passed => f = Clean)
<1>1. Clean \in Counts
  BY AgentAssumption DEF Clean, Counts
<1>2. Failed \in Verifications /\ Skipped \in Verifications
  BY <1>1 DEF Failed, Skipped, Result, Verifications
<1>3. f # Unreadable => Found(f) \in Verifications
  BY DEF Files, Found, Result, Verifications
<1>4. \/ v = Skipped /\ ~installed
      \/ v = Failed
      \/ v = Found(f) /\ f # Unreadable
  BY DEF Checks
<1>5. v \in Verifications
  BY <1>2, <1>3, <1>4
<1>6. installed /\ v.passed => f = Clean
  <2>1. CASE v = Found(f)
    <3>1. v.passed = (f = Clean)
      BY <2>1 DEF Found, Result
    <3> QED
      BY <3>1
  <2>2. CASE v = Failed
    BY <2>2 DEF Failed, Result
  <2> QED
    BY <1>4, <2>1, <2>2
<1> QED
  BY <1>5, <1>6

-----------------------------------------------------------------------------
(* Types.                                                                  *)

LEMMA InitTypes == Init => TypeOK /\ Budgets
<1> SUFFICES ASSUME Init PROVE TypeOK /\ Budgets
  OBVIOUS
<1>1. Clean \in Counts
  BY AgentAssumption DEF Clean, Counts
<1>2. verif \in Verifications
  BY <1>1 DEF Init, Skipped, Result, Verifications
<1>3. trace \in [status : Verdicts \cup {"in_progress"}, passed : BOOLEAN]
  BY DEF Init
<1>4. family \in [Families -> Nat] /\ \A f \in Families : family[f] = 0
  BY DEF Init
<1>5. output \in Files /\ verdict \in Verdicts
  BY DEF Init, Files, Verdicts
<1>6. /\ installed \in BOOLEAN /\ file \in Files /\ copy \in BOOLEAN /\ pc = "start"
      /\ rounds = 0 /\ calls = 0 /\ mutating \in BOOLEAN /\ attempts = 0 /\ blocked = {}
  BY DEF Init
<1>7. TypeOK
  BY <1>2, <1>3, <1>4, <1>5, <1>6, AgentAssumption DEF TypeOK
<1>8. Budgets
  BY <1>4, AgentAssumption DEF Init, Budgets, BudgetsHold
<1> QED
  BY <1>7, <1>8

\* The way a call leaves the answer.
LEMMA SpendTypes ==
  ASSUME TypeOK, Budgets, Spend
  PROVE  /\ calls' \in 0..MaxCalls /\ pc' \in {"model", "turn"}
         /\ pc' = "turn" => calls' \in 1..MaxCalls
  BY AgentAssumption DEF TypeOK, Budgets, Spend

LEMMA BlockedTypes ==
  ASSUME TypeOK, NEW t \in Tools, NEW before \in Verifications,
         NEW after, NEW ok, Account(t, before, after, ok)
  PROVE  blocked' \subseteq Tools \X Counts
<1>1. Signature(t, before) \in Tools \X Counts
  BY DEF Signature, Verifications
<1> QED
  BY <1>1 DEF TypeOK, Account

LEMMA FamilyTypes ==
  ASSUME TypeOK, Budgets, NEW t \in Tools, NEW before, NEW after, NEW ok,
         ~FamilyExhausted(t), Account(t, before, after, ok)
  PROVE  /\ family' \in [Families -> Nat]
         /\ \A f \in Families : family'[f] <= MaxPerFamily
<1>1. CASE FamilyOf[t] = NoFamily
  BY <1>1 DEF TypeOK, Budgets, BudgetsHold, Account
<1>2. CASE FamilyOf[t] # NoFamily
  <2>1. FamilyOf[t] \in Families
    BY <1>2 DEF Families
  <2>2. family[FamilyOf[t]] < MaxPerFamily
    BY <1>2, <2>1, AgentAssumption DEF FamilyExhausted, TypeOK
  <2>3. family' = [family EXCEPT ![FamilyOf[t]] = family[FamilyOf[t]] + 1]
    BY <1>2 DEF Account
  <2> QED
    BY <2>1, <2>2, <2>3, AgentAssumption DEF TypeOK, Budgets, BudgetsHold
<1> QED
  BY <1>1, <1>2

LEMMA NextTypes == TypeOK /\ Budgets /\ [Next]_vars => (TypeOK /\ Budgets)'
<1> SUFFICES ASSUME TypeOK, Budgets, [Next]_vars PROVE (TypeOK /\ Budgets)'
  OBVIOUS
<1> USE AgentAssumption
<1>1. CASE Baseline
  <2>1. verif' \in Verifications
    BY <1>1, ChecksAreTyped DEF Baseline, TypeOK
  <2>2. /\ trace' \in [status : Verdicts \cup {"in_progress"}, passed : BOOLEAN]
        /\ output' \in Files /\ copy' \in BOOLEAN
        /\ pc' \in {"model", "returned", "raised"}
    <3>1. CASE pc' = "raised" /\ UNCHANGED <<copy, verif, result>>
      BY <3>1 DEF TypeOK, result
    <3>2. CASE Return("fixed", TRUE)
      BY <3>2 DEF TypeOK, Return, Verdicts
    <3>3. CASE pc' = "model" /\ UNCHANGED <<copy, result>>
      BY <3>3 DEF TypeOK, result
    <3> QED
      BY <1>1, <3>1, <3>2, <3>3 DEF Baseline
  <2> QED
    BY <1>1, <2>1, <2>2 DEF Baseline, TypeOK, Budgets, BudgetsHold, budget, Ended
<1>2. CASE GiveUp
  BY <1>2 DEF GiveUp, TypeOK, Budgets, BudgetsHold, Verdicts, budget, result
<1>3. CASE Ask
  <2>1. /\ UNCHANGED <<installed, file, verif, attempts, family, blocked, verdict, trace, output>>
        /\ pc' \in {"model", "turn", "raised"} /\ copy' \in BOOLEAN
    BY <1>3 DEF Ask, Raise, TypeOK, budget, result
  <2>2. rounds < MaxToolRounds /\ attempts < MaxFixAttempts
    BY <1>3 DEF Ask, Exhausted, TypeOK
  <2>3. rounds' \in {rounds, rounds + 1} /\ mutating' \in BOOLEAN
    BY <1>3 DEF Ask, NextRound, TypeOK
  <2>4. calls' \in 0..MaxCalls /\ (pc' = "turn" => calls' \in 1..MaxCalls)
    BY <1>3 DEF Ask, Raise, TypeOK
  <2>5. TypeOK'
    BY <2>1, <2>2, <2>3, <2>4 DEF TypeOK, Ended
  <2> QED
    BY <2>1, <2>2, <2>3, <2>4, <2>5 DEF TypeOK, Budgets, BudgetsHold
<1>4. CASE Finish
  BY <1>4 DEF Finish, TypeOK, Budgets, BudgetsHold, budget, result
<1>5. CASE CheckCall
  <2>1. verif' \in Verifications
    BY <1>5, ChecksAreTyped DEF CheckCall, TypeOK
  <2> QED
    BY <1>5, <2>1, SpendTypes DEF CheckCall, TypeOK, Budgets, BudgetsHold, budget, result, Spend
<1>6. CASE OtherCall
  <2>1. CASE Spend /\ mutating' \in {mutating, TRUE} /\ UNCHANGED <<copy, result>>
    BY <1>6, <2>1, SpendTypes
    DEF OtherCall, TypeOK, Budgets, BudgetsHold, budget, result, Spend
  <2>2. CASE pc = "turn" /\ Raise /\ UNCHANGED <<calls, mutating>>
    BY <1>6, <2>2 DEF OtherCall, Raise, TypeOK, Budgets, BudgetsHold, budget, result, Ended
  <2> QED
    BY <1>6, <2>1, <2>2 DEF OtherCall
<1>7. CASE Conclude
  <2>1. /\ trace' \in [status : Verdicts \cup {"in_progress"}, passed : BOOLEAN]
        /\ output' \in Files /\ copy' \in BOOLEAN
        /\ pc' \in {"returned", "raised"}
    <3>1. CASE Raise
      BY <3>1 DEF Raise, TypeOK, result
    <3>2. CASE \E v \in Checks(file) : Return(FinalStatus(v), v.passed)
      <4>1. PICK v \in Checks(file) : Return(FinalStatus(v), v.passed)
        BY <3>2
      <4>2. v.passed \in BOOLEAN
        BY ChecksAreTyped DEF TypeOK, Verifications
      <4>3. FinalStatus(v) \in Verdicts
        BY DEF FinalStatus, Verdicts, TypeOK
      <4> QED
        BY <4>1, <4>2, <4>3 DEF Return, TypeOK
    <3> QED
      BY <1>7, <3>1, <3>2 DEF Conclude
  <2> QED
    BY <1>7, <2>1 DEF Conclude, TypeOK, Budgets, BudgetsHold, budget, Ended
<1>8. ASSUME NEW t \in Tools, Refuse(t) PROVE (TypeOK /\ Budgets)'
  BY <1>8, SpendTypes DEF Refuse, TypeOK, Budgets, BudgetsHold, budget, result, Spend
<1>9. ASSUME NEW t \in Tools, Mutate(t) PROVE (TypeOK /\ Budgets)'
  <2>1. PICK before \in Checks(file), after \in Checks(file'), ok \in BOOLEAN :
             Account(t, before, after, ok) /\ Show(after) /\ Settle(after)
    BY <1>9 DEF Mutate
  <2>2. file' \in Files /\ installed' \in BOOLEAN /\ ~mutating /\ mutating' = TRUE
    BY <1>9 DEF Mutate, FirstMutation, TypeOK
  <2>3. before \in Verifications /\ after \in Verifications
    BY <2>2, ChecksAreTyped DEF TypeOK
  <2>4. verif' \in Verifications
    BY <2>1, <2>3 DEF Show
  <2>5. blocked' \subseteq Tools \X Counts
    BY <2>1, <2>3, BlockedTypes
  <2>6. family' \in [Families -> Nat] /\ \A f \in Families : family'[f] <= MaxPerFamily
    BY <1>9, <2>1, FamilyTypes DEF Mutate
  <2>7. attempts' \in Nat /\ attempts' <= MaxFixAttempts
    BY <1>9, <2>1, <2>2 DEF Mutate, Account, TypeOK, Budgets
  <2>8. /\ calls' \in 0..MaxCalls /\ pc' \in {"model", "turn", "closing"}
        /\ pc' = "turn" => calls' \in 1..MaxCalls
        /\ verdict' \in Verdicts
    BY <2>1, SpendTypes DEF Settle, TypeOK, Verdicts
  <2> QED
    BY <1>9, <2>2, <2>4, <2>5, <2>6, <2>7, <2>8
    DEF Mutate, TypeOK, Budgets, BudgetsHold, result, Ended
<1>10. CASE UNCHANGED vars
  BY <1>10 DEF vars, TypeOK, Budgets, BudgetsHold, budget, result
<1> QED
  BY <1>1, <1>2, <1>3, <1>4, <1>5, <1>6, <1>7, <1>8, <1>9, <1>10 DEF Next

\* The types hold, and so do the budgets, for every budget, set of tools and answer
\* of the model: what run() promises its caller about cost.
THEOREM AgentTyping == Spec => [](TypeOK /\ Budgets)
<1>1. Init => TypeOK /\ Budgets
  BY InitTypes
<1>2. TypeOK /\ Budgets /\ [Next]_vars => (TypeOK /\ Budgets)'
  BY NextTypes
<1> QED
  BY <1>1, <1>2, PTL DEF Spec

\* Mutations, mutations of a family and rounds never exceed their budgets.
THEOREM AgentBudgets == Spec => []BudgetsHold
<1>1. TypeOK /\ Budgets => BudgetsHold
  BY DEF Budgets
<1> QED
  BY <1>1, AgentTyping, PTL

-----------------------------------------------------------------------------
(* What the trace says, and what the prompt shows.                         *)

\* A trace that says "fixed" or passed comes with a conformant PDF.
THEOREM AgentFixedIsConformant == Spec => []FixedIsConformant
<1>1. Init => FixedIsConformant
  BY DEF Init, FixedIsConformant
<1>2. TypeOK /\ FixedIsConformant /\ [Next]_vars => FixedIsConformant'
  <2> SUFFICES ASSUME TypeOK, FixedIsConformant, [Next]_vars PROVE FixedIsConformant'
    OBVIOUS
  <2>1. CASE Baseline
    <3>1. installed' = installed
      BY <2>1 DEF Baseline
    <3>2. ASSUME NEW v \in Checks(file), v.passed, Return("fixed", TRUE)
          PROVE  FixedIsConformant'
      BY <3>1, <3>2, ChecksAreTyped DEF TypeOK, Return, FixedIsConformant
    <3> QED
      BY <2>1, <3>1, <3>2 DEF Baseline, FixedIsConformant
  <2>2. CASE Conclude
    <3>1. installed' = installed
      BY <2>2 DEF Conclude
    <3>2. ASSUME NEW v \in Checks(file), Return(FinalStatus(v), v.passed)
          PROVE  FixedIsConformant'
      BY <3>1, <3>2, ChecksAreTyped DEF TypeOK, Return, FinalStatus, FixedIsConformant
    <3> QED
      BY <2>2, <3>1, <3>2 DEF Conclude, Raise, FixedIsConformant
  <2>3. CASE GiveUp \/ Ask \/ Finish \/ CheckCall \/ OtherCall \/ \E t \in Tools : Refuse(t)
    <3>1. pc' # "returned"
      BY <2>3 DEF GiveUp, Ask, Raise, Finish, CheckCall, OtherCall, Refuse, Spend
    <3> QED
      BY <3>1 DEF FixedIsConformant
  <2>4. CASE \E t \in Tools : Mutate(t)
    <3>1. pc' # "returned"
      BY <2>4 DEF Mutate, Settle, Spend
    <3> QED
      BY <3>1 DEF FixedIsConformant
  <2>5. CASE UNCHANGED vars
    BY <2>5 DEF vars, result, FixedIsConformant
  <2> QED
    BY <2>1, <2>2, <2>3, <2>4, <2>5 DEF Next
<1> QED
  BY <1>1, <1>2, AgentTyping, PTL DEF Spec

\* The verification the model is shown is always one of the file it works on.
THEOREM AgentPromptShowsThisFile == Spec => []PromptShowsThisFile
<1>1. Init => PromptShowsThisFile
  BY DEF Init, PromptShowsThisFile
<1>2. PromptShowsThisFile /\ [Next]_vars => PromptShowsThisFile'
  <2> SUFFICES ASSUME PromptShowsThisFile, [Next]_vars PROVE PromptShowsThisFile'
    OBVIOUS
  <2>1. CASE Baseline
    BY <2>1 DEF Baseline, Return, Checks, PromptShowsThisFile
  <2>2. CASE GiveUp \/ Finish \/ Conclude
    BY <2>2 DEF GiveUp, Finish, Conclude, Return, Raise, PromptShowsThisFile
  <2>3. CASE Ask \/ OtherCall
    <3>1. UNCHANGED <<installed, file, verif>> /\ pc \in {"model", "turn"}
      BY <2>3 DEF Ask, OtherCall, Spend
    <3> QED
      BY <3>1 DEF Checks, PromptShowsThisFile
  <2>4. CASE CheckCall
    BY <2>4 DEF CheckCall, Spend, Checks, PromptShowsThisFile
  <2>5. ASSUME NEW t \in Tools, Refuse(t) PROVE PromptShowsThisFile'
    BY <2>5 DEF Refuse, Spend, Checks, PromptShowsThisFile
  <2>6. ASSUME NEW t \in Tools, Mutate(t) PROVE PromptShowsThisFile'
    <3>1. verif' \in Checks(file') /\ installed' = installed
      BY <2>6 DEF Mutate, Show
    <3> QED
      BY <3>1 DEF Checks, PromptShowsThisFile
  <2>7. CASE UNCHANGED vars
    BY <2>7 DEF vars, Checks, PromptShowsThisFile
  <2> QED
    BY <2>1, <2>2, <2>3, <2>4, <2>5, <2>6, <2>7 DEF Next
<1> QED
  BY <1>1, <1>2, PTL DEF Spec

\* Once the loop is entered, every way out of it removes the working copy.
THEOREM AgentCopyIsRemoved == Spec => []CopyIsRemoved
<1>1. Init => CopyIsRemoved /\ (pc = "start" => rounds = 0)
  BY DEF Init, CopyIsRemoved
<1>2. ASSUME CopyIsRemoved, pc = "start" => rounds = 0, [Next]_vars
      PROVE  (CopyIsRemoved /\ (pc = "start" => rounds = 0))'
  <2>1. CASE Baseline
    BY <1>2, <2>1 DEF Baseline, Return, CopyIsRemoved
  <2>2. CASE GiveUp \/ Ask \/ Finish \/ CheckCall \/ OtherCall \/ Conclude
    BY <1>2, <2>2
    DEF GiveUp, Ask, Finish, CheckCall, OtherCall, Conclude, Return, Raise, Spend, CopyIsRemoved
  <2>3. ASSUME NEW t \in Tools, Refuse(t) \/ Mutate(t)
        PROVE  (CopyIsRemoved /\ (pc = "start" => rounds = 0))'
    BY <2>3 DEF Refuse, Mutate, Settle, Spend, CopyIsRemoved
  <2>4. CASE UNCHANGED vars
    BY <1>2, <2>4 DEF vars, CopyIsRemoved
  <2> QED
    BY <1>2, <2>1, <2>2, <2>3, <2>4 DEF Next
<1> QED
  BY <1>1, <1>2, PTL DEF Spec

-----------------------------------------------------------------------------
(* Progress.                                                               *)

\* The steps left in the round: a turn takes one for each call it has left.
Left ==
  CASE pc = "turn" -> calls + 2 [] pc = "start" -> 3 [] pc = "model" -> 2
    [] pc = "closing" -> 1 [] OTHER -> 0

\* More steps than this the run cannot take.
Fuel == (MaxToolRounds - rounds) * (MaxCalls + 3) + Left

FuelBurns == [](Fuel \in Nat) /\ [][Fuel' < Fuel]_vars

\* Fuel only falls: within the round, or by the round that begins.
LEMMA RoundOrLeft ==
  ASSUME NEW R \in Nat, NEW C \in Nat, NEW r \in Nat, NEW q \in Nat,
         NEW x \in 0..(C + 2), NEW y \in 0..(C + 2), r <= R, q <= R,
         q > r \/ (q = r /\ y < x)
  PROVE  /\ (R - r) * (C + 3) + x \in Nat
         /\ (R - q) * (C + 3) + y \in Nat
         /\ (R - q) * (C + 3) + y < (R - r) * (C + 3) + x
<1>1. \A m, k \in Nat : m * k \in Nat
  OBVIOUS
<1>2. R - r \in Nat /\ R - q \in Nat /\ C + 3 \in Nat
  OBVIOUS
<1>3. \A m, n, k \in Nat : m < n => m * k + k <= n * k
  <2>1. \A m, d, k \in Nat : (m + 1 + d) * k = m * k + k + d * k
    OBVIOUS
  <2>. SUFFICES ASSUME NEW m \in Nat, NEW n \in Nat, NEW k \in Nat, m < n
                PROVE  m * k + k <= n * k
    OBVIOUS
  <2>2. n - m - 1 \in Nat /\ m + 1 + (n - m - 1) = n
    OBVIOUS
  <2>3. n * k = m * k + k + (n - m - 1) * k
    BY <2>1, <2>2
  <2>. QED
    BY <1>1, <2>2, <2>3
<1>4. CASE q = r /\ y < x
  BY <1>1, <1>2, <1>4
<1>5. CASE q > r
  <2>1. R - q < R - r
    BY <1>5
  <2>2. (R - q) * (C + 3) + (C + 3) <= (R - r) * (C + 3)
    BY <1>2, <1>3, <2>1
  <2>3. (R - q) * (C + 3) \in Nat /\ (R - r) * (C + 3) \in Nat
    BY <1>1, <1>2
  <2>. QED
    BY <2>2, <2>3
<1>. QED
  BY <1>4, <1>5

\* Every step leaves less of the round, or begins the next.
LEMMA EveryStepGoesOn ==
  ASSUME TypeOK, Budgets, Next
  PROVE  rounds' > rounds \/ (rounds' = rounds /\ Left' < Left)
<1>. USE DEF TypeOK
<1>0. Left \in Nat
  BY DEF Left
<1>1. CASE Baseline
  <2>1. pc = "start" /\ pc' \in {"raised", "returned", "model"} /\ rounds' = rounds
    BY <1>1 DEF Baseline, Return
  <2>. QED
    BY <2>1 DEF Left
<1>2. CASE GiveUp
  BY <1>2 DEF GiveUp, Left
<1>3. CASE Ask
  <2>1. CASE Raise
    BY <1>3, <2>1 DEF Ask, Raise, Left
  <2>2. CASE rounds' = rounds + 1
    BY <2>2
  <2>. QED
    BY <1>3, <2>1, <2>2 DEF Ask, NextRound, Raise, Left
<1>4. CASE Finish
  BY <1>4 DEF Finish, Left
<1>5. ASSUME Spend PROVE Left' < Left
  <2>1. pc = "turn" /\ calls \in 1..MaxCalls /\ calls' = calls - 1
    BY <1>5 DEF Spend, Budgets
  <2>2. Left = calls + 2
    BY <2>1 DEF Left
  <2>3. pc' = "turn" \/ pc' = "model"
    BY <1>5 DEF Spend
  <2>4. Left' \in {calls' + 2, 2}
    BY <2>3 DEF Left
  <2>. QED
    BY <2>1, <2>2, <2>4, AgentAssumption
<1>6. CASE CheckCall
  BY <1>5, <1>6 DEF CheckCall
<1>7. CASE OtherCall
  <2>1. CASE pc = "turn" /\ Raise
    BY <1>7, <2>1 DEF OtherCall, Raise, Left
  <2>. QED
    BY <1>5, <1>7, <2>1 DEF OtherCall
<1>8. CASE Conclude
  BY <1>8 DEF Conclude, Return, Raise, Left
<1>9. ASSUME NEW t \in Tools, Refuse(t)
      PROVE  rounds' = rounds /\ Left' < Left
  BY <1>5, <1>9 DEF Refuse
<1>10. ASSUME NEW t \in Tools, Mutate(t)
       PROVE  rounds' = rounds /\ Left' < Left
  <2>1. pc = "turn" /\ rounds' = rounds /\ (Spend \/ pc' = "closing")
    BY <1>10 DEF Mutate, Settle
  <2>2. pc' = "closing" => Left' < Left
    BY <2>1 DEF Left
  <2>. QED
    BY <1>5, <2>1, <2>2
<1>. QED
  BY <1>1, <1>2, <1>3, <1>4, <1>6, <1>7, <1>8, <1>9, <1>10 DEF Next

\* Whatever the model answers and however often a mutation is refused, the run has
\* fewer steps left after every step: it makes at most MaxToolRounds rounds of
\* MaxCalls calls each, and then the few steps out of the loop.
THEOREM AgentRunsOut == Spec => FuelBurns
<1>1. TypeOK /\ Budgets => Left \in 0..(MaxCalls + 2) /\ rounds \in Nat /\ rounds <= MaxToolRounds
  BY AgentAssumption DEF TypeOK, Budgets, BudgetsHold, Left
<1>2. TypeOK /\ Budgets => Fuel \in Nat
  <2>1. \A m, n, x \in Nat : m * (n + 3) + x \in Nat
    OBVIOUS
  <2>2. TypeOK /\ Budgets => MaxToolRounds - rounds \in Nat /\ MaxCalls \in Nat /\ Left \in Nat
    BY <1>1, AgentAssumption
  <2>. QED
    BY <2>1, <2>2 DEF Fuel
<1>3. TypeOK /\ Budgets /\ (TypeOK /\ Budgets)' /\ Next => Fuel' < Fuel
  <2>. SUFFICES ASSUME TypeOK, Budgets, (TypeOK /\ Budgets)', Next
                PROVE  Fuel' < Fuel
    OBVIOUS
  <2>1. Left \in 0..(MaxCalls + 2) /\ rounds \in Nat /\ rounds <= MaxToolRounds
    BY <1>1
  <2>2. Left' \in 0..(MaxCalls + 2) /\ rounds' \in Nat /\ rounds' <= MaxToolRounds
    BY AgentAssumption DEF TypeOK, Budgets, BudgetsHold, Left
  <2>3. rounds' > rounds \/ (rounds' = rounds /\ Left' < Left)
    BY EveryStepGoesOn
  <2>4. MaxToolRounds \in Nat /\ MaxCalls \in Nat
    BY AgentAssumption
  <2>. QED
    BY <2>1, <2>2, <2>3, <2>4, RoundOrLeft DEF Fuel
<1>. QED
  BY <1>2, <1>3, AgentTyping, PTL DEF Spec, FuelBurns
=============================================================================
