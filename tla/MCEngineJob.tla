----------------------------- MODULE MCEngineJob -----------------------------
(* Model checking of EngineJob: every kind of job, or some of them.         *)
EXTENDS EngineJob

EveryKind == AllKinds
UncheckedKinds == {"office", "html"}
=============================================================================
