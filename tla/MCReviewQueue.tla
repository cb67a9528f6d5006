---------------------------- MODULE MCReviewQueue -----------------------------
EXTENDS ReviewQueue, TLC

CONSTANTS d1, d2, ann, bob, m1

TwoDocs == {d1, d2}
TwoReviewers == {ann, bob}
OneMeasurement == {m1}
Symmetric == Permutations(TwoDocs) \cup Permutations(TwoReviewers)
=============================================================================
