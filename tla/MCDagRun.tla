------------------------------- MODULE MCDagRun -------------------------------
(* DagRun on all templates of three nodes, up to the names of the nodes.   *)
EXTENDS DagRun

CONSTANTS n1, n2, n3

All == [Nodes -> SUBSET (Nodes \cup {Unknown})]

\* Nodes depend on nodes before them only: what can be sorted, can be written
\* like this.
Ordered ==
    {t \in All : /\ t[n1] \subseteq {Unknown}
                 /\ t[n2] \subseteq {n1, Unknown}
                 /\ t[n3] \subseteq {n1, n2, Unknown}}

\* Some nodes wait for each other.
Tangled ==
    {t \in All : \E S \in SUBSET Nodes : S # {} /\ \A n \in S : t[n] \cap S # {}}

EveryTemplate == Ordered \cup Tangled
=============================================================================
