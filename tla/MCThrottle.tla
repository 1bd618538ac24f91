----------------------------- MODULE MCThrottle -----------------------------
(* Instances of Throttle for TLC. *)
EXTENDS Throttle, TLC

\* Threads are interchangeable, and so are slab objects.
Symmetry == Permutations(Thread) \cup Permutations(Elem)

\* The environments of FairSpec in which nobody turns the monitor off, so
\* that blocked callers depend on the epoch timer alone.
OnSpec == Init /\ [][Next /\ ~TurnOff]_vars /\ Fairness
=============================================================================
