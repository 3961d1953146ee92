----------------------------- MODULE MCGovernor -----------------------------
(***************************************************************************)
(* An instance of Governor: a critical tier and a sheddable tier for one   *)
(* task each, with more envelopes in the second than racing submissions    *)
(* may take past its limits, and estimates that just fit the first.        *)
(***************************************************************************)
EXTENDS Governor, TLC

CONSTANTS p0, p2, k1, k2, k3, k4, k5, k6

MCMaxConcurrent == (p0 :> 1) @@ (p2 :> 1)
MCMaxTokens     == (p0 :> 2) @@ (p2 :> 2)
MCMaxRss        == (p0 :> 2) @@ (p2 :> 2)
MCTierOf == [k \in Task |-> IF k \in {k1, k2} THEN p0 ELSE p2]
MCRss    == [k \in Task |-> 1]
MCTokens == [k \in Task |-> IF k \in {k1, k2} THEN 2 ELSE 1]

Symmetry == Permutations({k1, k2}) \union Permutations({k3, k4, k5, k6})
=============================================================================
