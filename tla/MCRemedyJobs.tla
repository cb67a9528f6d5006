---------------------------- MODULE MCRemedyJobs ----------------------------
(* Instances of RemedyJobs for TLC.                                        *)
EXTENDS RemedyJobsInv, TLC

\* Neither ids nor worker tasks are told apart by the code.
Symmetry == Permutations(Jobs) \cup Permutations(Workers)
=============================================================================
