---------------------------- MODULE MCSubscriber ----------------------------
(* Callers, IMSIs and numbers for checking Identity with TLC.               *)
EXTENDS Identity, TLC

CONSTANTS c1, c2, i1, i2, n1, n2

TwoCallers == {c1, c2}
TwoImsis   == {i1, i2}
TwoNumbers == {n1, n2}

\* No action or property tells callers, IMSIs or numbers apart.
Symmetry ==
    Permutations(TwoCallers) \cup Permutations(TwoImsis)
        \cup Permutations(TwoNumbers)
\* The answer of the last call decides nothing that follows; the property that
\* reads an answer reads it in the step that gives it.
WithoutAnswer == <<dbVars, pc, job, mutationMu, natives, observers>>
=============================================================================
