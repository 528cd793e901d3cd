----------------------------- MODULE MCTaskLease -----------------------------
(* TaskLease on small sets of executors, sweeps and handlers.              *)
EXTENDS TaskLease, TLC

\* Orchestrators are interchangeable: no action names one.
Symmetry == Permutations(Orchestrators)
=============================================================================
