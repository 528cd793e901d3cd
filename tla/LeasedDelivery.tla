---------------------------- MODULE LeasedDelivery ----------------------------
(***************************************************************************)
(* What the persistent queue promises, without leases, clocks or crashes:  *)
(* an item is in the hands of one bearer at a time, only that bearer puts  *)
(* it back or settles it, it is handed out a bounded number of times, and  *)
(* what is settled stays settled.                                          *)
(***************************************************************************)
EXTENDS Integers

CONSTANTS Items, Bearers, Nobody, Budget

VARIABLES
    stage,   \* of each item: "none", "open", "held" or "done"
    bearer,  \* who holds it
    handed   \* how often it has been handed out

vars == <<stage, bearer, handed>>

Init ==
    /\ stage = [i \in Items |-> "none"]
    /\ bearer = [i \in Items |-> Nobody]
    /\ handed = [i \in Items |-> 0]

Offer(i) ==
    /\ stage[i] = "none"
    /\ stage' = [stage EXCEPT ![i] = "open"]
    /\ UNCHANGED <<bearer, handed>>

Hand(i, b) ==
    /\ stage[i] = "open" /\ handed[i] < Budget
    /\ stage' = [stage EXCEPT ![i] = "held"]
    /\ bearer' = [bearer EXCEPT ![i] = b]
    /\ handed' = [handed EXCEPT ![i] = @ + 1]

\* The bearer lets go: it puts the item back, or settles it for good.
LetGo(i, to) ==
    /\ stage[i] = "held"
    /\ stage' = [stage EXCEPT ![i] = to]
    /\ bearer' = [bearer EXCEPT ![i] = Nobody]
    /\ UNCHANGED handed

Next ==
    \E i \in Items :
        \/ Offer(i)
        \/ \E b \in Bearers : Hand(i, b)
        \/ LetGo(i, "open") \/ LetGo(i, "done")

Spec == Init /\ [][Next]_vars
=============================================================================
