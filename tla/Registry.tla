------------------------------ MODULE Registry ------------------------------
(* What a registry map promises: a set that changes by one entry at a time. *)

CONSTANT Item
VARIABLE registered

Init == registered = {}

Add(x) ==
    /\ x \notin registered
    /\ registered' = registered \cup {x}

Remove(x) ==
    /\ x \in registered
    /\ registered' = registered \ {x}

Next == \E x \in Item : Add(x) \/ Remove(x)

Spec == Init /\ [][Next]_registered
=============================================================================
