---------------------------- MODULE MCPolicyEngine ----------------------------
(* Instances of PolicyEngine for TLC. *)
EXTENDS PolicyEngine

CONSTANTS r1, r2, e1, e2

TwoReloads == {r1, r2}
MCEvals == {e1, e2}

\* Edit 2 does not compile on its own, and file 2 as it was does not compile
\* with file 1 as the third edit leaves it.
MCCompiling ==
    {p \in Policy \ {NoFiles} : 2 \notin {p[f] : f \in Files} /\ ~(p[1] = 3 /\ p[2] = 1)}
=============================================================================
