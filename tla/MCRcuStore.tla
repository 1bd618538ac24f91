---------------------------- MODULE MCRcuStore ------------------------------
(* RcuStore for TLC: every reader's task has the first item as its comm and *)
(* as its uid.                                                              *)
EXTENDS RcuStore, TLC

CONSTANTS a, b

MCKey == [r \in Reader |-> [k \in Kind |-> a]]

\* Writers are interchangeable, and so are addresses.
Symmetry == Permutations(Writer) \cup Permutations(Map)

\* Only the user map is updated; the readers still look into both.
UsersOnly == \A w \in Writer : request'[w] # NoRequest => request'[w].kind = "user"

UsersSpec == Init /\ [][Next /\ UsersOnly]_vars /\ Fairness
=============================================================================
