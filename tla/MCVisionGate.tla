----------------------------- MODULE MCVisionGate -----------------------------
(* Two providers share node n1; pA rotates over both nodes, one request at a  *)
(* time each; pB knows n1 only and allows two.                                *)
EXTENDS VisionGate, TLC

CONSTANTS c1, c2, c3, pA, pB, n1, n2

ThreeCallers == {c1, c2, c3}
TwoProviders == {pA, pB}
TwoNodes == {n1, n2}
RotationPQ == (pA :> <<n1, n2>>) @@ (pB :> <<n1>>)
LimitPQ == (pA :> 1) @@ (pB :> 2)
ChainPQ == <<pA, pB>>
=============================================================================
