----------------------------- MODULE MCTaskQueue -----------------------------
(* TaskQueue on small sets of tasks and consumers.                         *)
EXTENDS TaskQueue, TLC

\* Consumers are interchangeable, and so are tasks.
Symmetry == Permutations(Consumers) \cup Permutations(Tasks)
=============================================================================
