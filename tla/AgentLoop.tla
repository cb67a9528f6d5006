------------------------------- MODULE AgentLoop -------------------------------
(***************************************************************************)
(* One run of the closed-loop PDF fixer: a model inspects a working copy   *)
(* through read-only tools and changes it through mutating ones, under a   *)
(* budget of mutations, of mutations per family and of tool rounds.        *)
(*                                                                         *)
(* A PDF is what veraPDF finds in it: how often each rule is violated, or  *)
(* nothing at all because it cannot be read.  A tool call is a tool with   *)
(* its arguments.                                                          *)
(***************************************************************************)
EXTENDS Naturals, Functions

CONSTANTS
  Rules,       \* veraPDF rules
  MaxCount,    \* bound: violations of one rule
  Unreadable,  \* a PDF that veraPDF cannot process
  Tools,       \* mutating calls
  FamilyOf,    \* FamilyOf[t]: the family t is counted under, NoFamily for code
  NoFamily,
  MaxFixAttempts, MaxPerFamily, MaxToolRounds,  \* AgentLoopConfig
  MaxCalls     \* bound: tool calls of one answer

Counts == [Rules -> 0..MaxCount]
Clean  == [r \in Rules |-> 0]
Files  == Counts \cup {Unreadable}

ASSUME AgentAssumption ==
  /\ MaxCount \in Nat /\ Unreadable \notin Counts
  /\ MaxFixAttempts \in Nat /\ MaxPerFamily \in Nat
  /\ MaxToolRounds \in Nat /\ MaxCalls \in Nat \ {0}

VARIABLES
  installed,  \* a veraPDF binary was found
  pc,
  file,       \* the working copy's content
  copy,       \* the working copy exists
  verif,      \* current_verification, as the next prompt shows it
  rounds, calls, mutating,  \* _round, calls left in the answer, mutating_seen
  attempts,   \* _fix_attempts
  family,     \* _family_attempts
  blocked,    \* _blocked_mutation_signatures
  verdict,    \* finish_payload["status"]
  trace,      \* what run() returns
  output      \* content of output_path

budget == <<attempts, family, blocked>>
result == <<trace, output>>
vars == <<installed, pc, file, copy, verif, rounds, calls, mutating, budget, verdict, result>>

-----------------------------------------------------------------------------
(* Vocabulary.                                                             *)

\* finish takes any string; "other" stands for those nothing is compared with.
Verdicts == {"fixed", "manual_review", "other"}
Families == {FamilyOf[t] : t \in Tools} \ {NoFamily}
Ended    == {"returned", "raised"}

Result(checked, passed, counts) == [checked |-> checked, passed |-> passed, counts |-> counts]

\* summarize_verapdf_result: a run of veraPDF that fails reports no violations.
Failed  == Result(TRUE, FALSE, Clean)
Skipped == Result(FALSE, TRUE, Clean)
Found(f) == Result(TRUE, f = Clean, f)

\* Timeouts, a crash or unparsable output may hit any check.
Checks(f) ==
  IF ~installed THEN {Skipped}
  ELSE {Failed} \cup (IF f = Unreadable THEN {} ELSE {Found(f)})

\* _verification_delta
Fewer(after, before) == SumFunction(after.counts) < SumFunction(before.counts)

Init ==
  /\ installed \in BOOLEAN /\ file \in Files
  /\ pc = "start" /\ copy = TRUE /\ verif = Skipped
  /\ rounds = 0 /\ calls = 0 /\ mutating = FALSE
  /\ attempts = 0 /\ family = [f \in Families |-> 0] /\ blocked = {}
  /\ verdict = "manual_review"
  /\ trace = [status |-> "in_progress", passed |-> FALSE] /\ output = Unreadable

-----------------------------------------------------------------------------
(* The way in and the way out.                                             *)

Return(status, passed) ==
  /\ trace' = [status |-> status, passed |-> passed]
  /\ output' = file
  /\ pc' = "returned" /\ copy' = FALSE

\* finally: working_path.unlink(missing_ok=True)
Raise == pc' = "raised" /\ copy' = FALSE /\ UNCHANGED result

\* The baseline stands before the try: what raises here leaves the copy behind.
Baseline ==
  /\ pc = "start"
  /\ \/ pc' = "raised" /\ UNCHANGED <<copy, verif, result>>
     \/ \E v \in Checks(file) :
          /\ verif' = v
          /\ IF v.passed THEN Return("fixed", TRUE)
             ELSE pc' = "model" /\ UNCHANGED <<copy, result>>
  /\ UNCHANGED <<installed, file, rounds, calls, mutating, budget, verdict>>

\* The for statement and the budget check ahead of every model call.
Exhausted == rounds >= MaxToolRounds \/ attempts >= MaxFixAttempts

GiveUp ==
  /\ pc = "model" /\ Exhausted
  /\ pc' = "closing" /\ verdict' = "manual_review"
  /\ UNCHANGED <<installed, file, copy, verif, rounds, calls, mutating, budget, result>>

\* Defect: what was asked for is what the trace says.
FinalStatus_AsAsked(v) == verdict

FinalStatus(v) == IF verdict = "fixed" /\ ~v.passed THEN "manual_review" ELSE verdict

\* The last check overrules "fixed"; the copy to output_path may raise.
Conclude ==
  /\ pc = "closing"
  /\ \/ \E v \in Checks(file) : Return(FinalStatus(v), v.passed)
     \/ Raise
  /\ UNCHANGED <<installed, file, verif, rounds, calls, mutating, budget, verdict>>

-----------------------------------------------------------------------------
(* One round.                                                              *)

\* Defect: rounds are counted by the mutations they made.
NextRound_Free == UNCHANGED rounds

\* for _round in range(max_tool_rounds)
NextRound == rounds' = rounds + 1

\* The backend raises, answers in prose - it is reminded of the tools - or asks for
\* tools.
Ask ==
  /\ pc = "model" /\ ~Exhausted
  /\ \/ Raise /\ UNCHANGED <<rounds, calls, mutating>>
     \/ NextRound /\ UNCHANGED <<pc, copy, calls, mutating, result>>
     \/ /\ pc' = "turn" /\ NextRound /\ mutating' = FALSE
        /\ calls' \in 1..MaxCalls
        /\ UNCHANGED <<copy, result>>
  /\ UNCHANGED <<installed, file, verif, budget, verdict>>

\* One call of the answer is dealt with; the round ends with the last one.
Spend ==
  /\ pc = "turn"
  /\ calls' = calls - 1
  /\ pc' = IF calls = 1 THEN "model" ELSE "turn"

Finish ==
  /\ pc = "turn"
  /\ pc' = "closing" /\ verdict' \in Verdicts /\ calls' = 0
  /\ UNCHANGED <<installed, file, copy, verif, rounds, mutating, budget, result>>

CheckCall ==
  /\ Spend
  /\ \E v \in Checks(file) : verif' = IF v.checked THEN v ELSE verif
  /\ UNCHANGED <<installed, file, copy, rounds, mutating, budget, verdict, result>>

\* Inspection of the copy, an unknown tool, arguments that are no JSON, a second
\* mutating call: an answer for the model, or an exception of the inspection.
OtherCall ==
  /\ \/ Spend /\ mutating' \in {mutating, TRUE} /\ UNCHANGED <<copy, result>>
     \/ pc = "turn" /\ Raise /\ UNCHANGED <<calls, mutating>>
  /\ UNCHANGED <<installed, file, verif, rounds, budget, verdict>>

\* Defect: several mutations may share an answer.
FirstMutation_Any == TRUE

\* One mutating call per answer; it uses up the turn even when it is refused.
FirstMutation == ~mutating

FamilyExhausted(t) ==
  FamilyOf[t] # NoFamily /\ family[FamilyOf[t]] >= MaxPerFamily

\* _mutation_signature: the call and what the check before it reported.
Signature(t, v) == <<t, v.counts>>

Refuse(t) ==
  /\ Spend /\ FirstMutation
  /\ mutating' = TRUE
  /\ FamilyExhausted(t) \/ \E v \in Checks(file) : Signature(t, v) \in blocked
  /\ UNCHANGED <<installed, file, copy, verif, rounds, budget, verdict, result>>

\* The call is counted; its signature is blocked unless it helped.
Account(t, before, after, ok) ==
  LET s == Signature(t, before)
  IN  /\ attempts' = attempts + 1
      /\ family' = IF FamilyOf[t] = NoFamily THEN family
                   ELSE [family EXCEPT ![FamilyOf[t]] = @ + 1]
      /\ blocked' = IF ok /\ Fewer(after, before) THEN blocked \ {s} ELSE blocked \cup {s}

\* A verification that passed ends the run, whatever calls the answer has left.
Settle(after) ==
  /\ IF after.passed THEN pc' = "closing" /\ calls' = 0 /\ verdict' = "fixed"
     ELSE Spend /\ UNCHANGED verdict

\* Defect: current_verification is left to check_verapdf.
Show_Nothing(after) == UNCHANGED verif

Show(after) == verif' = after

\* The tool may make of the copy anything, even something unreadable, whether it
\* succeeds or not: code that raises half way is saved with what it had done.
Mutate(t) ==
  /\ pc = "turn" /\ FirstMutation /\ ~FamilyExhausted(t)
  /\ mutating' = TRUE
  /\ file' \in Files
  /\ \E before \in Checks(file), after \in Checks(file'), ok \in BOOLEAN :
       /\ Signature(t, before) \notin blocked
       /\ Account(t, before, after, ok)
       /\ Show(after)
       /\ Settle(after)
  /\ UNCHANGED <<installed, copy, rounds, result>>

Next ==
  \/ Baseline \/ GiveUp \/ Ask \/ Finish \/ CheckCall \/ OtherCall \/ Conclude
  \/ \E t \in Tools : Refuse(t) \/ Mutate(t)

Spec == Init /\ [][Next]_vars

\* run() is one coroutine: model calls, veraPDF runs (120 s) and tools end, and
\* nothing else keeps it from its next statement.
FairSpec == Spec /\ WF_vars(Next)

-----------------------------------------------------------------------------
(* Properties.                                                             *)

Verifications == [checked : BOOLEAN, passed : BOOLEAN, counts : Counts]

TypeOK ==
  /\ installed \in BOOLEAN /\ file \in Files /\ copy \in BOOLEAN
  /\ pc \in {"start", "model", "turn", "closing"} \cup Ended
  /\ verif \in Verifications
  /\ rounds \in Nat /\ calls \in 0..MaxCalls /\ mutating \in BOOLEAN
  /\ attempts \in Nat /\ family \in [Families -> Nat]
  /\ blocked \subseteq Tools \X Counts
  /\ verdict \in Verdicts
  /\ trace \in [status : Verdicts \cup {"in_progress"}, passed : BOOLEAN]
  /\ output \in Files

\* The budget is looked at once per round (agent_loop.py:953), yet it is never
\* overrun, because an answer gets at most one mutation through; nor is that of
\* a family or of the rounds.
BudgetsHold ==
  /\ attempts <= MaxFixAttempts
  /\ \A f \in Families : family[f] <= MaxPerFamily
  /\ rounds <= MaxToolRounds

\* Whoever asked for "fixed" - the model, or a check that passed before the last
\* calls of the answer - with veraPDF at hand the PDF delivered is conformant
\* when the trace says so (agent_loop.py:1056).
FixedIsConformant ==
  pc = "returned" /\ installed /\ (trace.status = "fixed" \/ trace.passed)
    => output = Clean /\ trace.passed

\* The verification in the next prompt is one of the file as it is now, never of
\* an earlier version (agent_loop.py:1027-1030).
PromptShowsThisFile == pc \in {"model", "turn"} => verif \in Checks(file)

\* Once the loop is entered, no way out of it leaves the working copy in the
\* temporary directory (agent_loop.py:1072).
CopyIsRemoved ==
  /\ pc = "returned" => ~copy
  /\ pc = "raised" /\ rounds > 0 => ~copy

\* Whatever the model answers, the run ends.
RunEnds == <>(pc \in Ended)
=============================================================================
