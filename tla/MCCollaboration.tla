--------------------------- MODULE MCCollaboration ---------------------------
(* Collaboration on a chain of three hops and a plan of three sub-tasks.     *)
EXTENDS Collaboration
=============================================================================
