----------------------------- MODULE MCAgentLoop ------------------------------
(* Two rules, two fixes of one family and a call of run_pikepdf_code.         *)
EXTENDS AgentLoop, TLC

CONSTANTS r1, r2, fixA, fixB, code, tables

TwoRules == {r1, r2}
ThreeTools == {fixA, fixB, code}
OneFamily == (fixA :> tables) @@ (fixB :> tables) @@ (code :> NoFamily)
=============================================================================
