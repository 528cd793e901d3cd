------------------------------ MODULE MCConsole ------------------------------
(* Console with three users, two custom models and a model of models.yaml, and   *)
(* two instances with a client each, and two plugins with a tool in common.        *)
EXTENDS Console, TLC

CONSTANTS p1, p2, m1, m2, y1, i1, i2, b1, b2, q1, q2, t1, t2

OneAlias == [a \in Aliases |-> [provider |-> p1, fallback |-> p2]]

\* Towards each other, towards themselves, and towards the catalogue.
Combinations ==
    {[provider |-> p1, fallback |-> ref] : ref \in {m1, m2, NoRef}} \cup
    {[provider |-> p2, fallback |-> y1]}

HomeOf == (b1 :> i1) @@ (b2 :> i2)

\* The second plugin may come with something else.
Offers ==
    {(q1 :> [object |-> TRUE, tools |-> {t1}]) @@
     (q2 :> [object |-> o, tools |-> IF o THEN {t1, t2} ELSE {}]) : o \in BOOLEAN}

Symmetry == Permutations(Users) \cup Permutations(Tokens)
=============================================================================
