------------------------------- MODULE MCSession -------------------------------
(* SessionLifecycle on small sets of engines, budgets, requests and attempts. *)
EXTENDS SessionLifecycle, FiniteSets, TLC

CONSTANTS e1, e2, e3, b1, b2, a1, a2, r1

Symmetry == Permutations(Engines) \cup Permutations(Budgets)
            \cup Permutations(ApiCalls) \cup Permutations(Attempts)

\* Bound: two requests or attempts overlap, not three, and the database falls
\* behind by two updates at most.
Overlap == Cardinality({p \in Procs : ~Idle(p)}) <= 2 /\ Len(writes) <= 2
=============================================================================
