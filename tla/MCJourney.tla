----------------------------- MODULE MCJourney -----------------------------
EXTENDS Journey, TLC

CONSTANTS first, t1, t2, t3

\* Tasks that clicks start are interchangeable.
AnyTask == Permutations(Tasks \ {First})

\* Bound: two changes in all, to one stock or to two.
Room == \A s, u \in Sessions : s # u => changes[s] + changes[u] <= 2

MCSpec == Init /\ [][Next /\ Room']_vars
=============================================================================
