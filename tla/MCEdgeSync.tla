----------------------------- MODULE MCEdgeSync -----------------------------
(* Instances of EdgeSync for TLC. *)
EXTENDS EdgeSync

CONSTANTS e1, e2

TwoEdges == <<e1, e2>>
OneEdge == <<e1>>
=============================================================================
