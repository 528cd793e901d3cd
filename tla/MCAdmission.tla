----------------------------- MODULE MCAdmission -----------------------------
(* Admission of a few requests to a workspace with two agents and a node.    *)
EXTENDS Admission

CONSTANTS a1, a2, n1

\* A relay with a repetition, a node first, nobody.
Written == {<<a1, n1, a1, a2>>, <<n1, a2>>, <<>>}
=============================================================================
