------------------------------ MODULE MCApproval ------------------------------
(* Approval on small workflows.                                            *)
EXTENDS Approval, TLC

CONSTANTS g1, g2, g3

\* All gates in one layer; g3 behind the others.
FlatDepth == [g \in Gates |-> 0]
DeepDepth == [g \in Gates |-> IF g = g3 THEN 1 ELSE 0]

Symmetry == Permutations(Handlers)
=============================================================================
