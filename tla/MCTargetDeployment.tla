------------------------- MODULE MCTargetDeployment -------------------------
(* An instance of TargetDeployment: two applications, of which one may be     *)
(* reserved again while it is activated, and two connections.                *)
EXTENDS TargetDeployment, TLC

CONSTANTS a1, a2, k1, k2, c1, c2, d1, d2

TwoApps    == {a1, a2}
TwoKeys    == {k1, k2}
TwoConns   == {c1, c2}
TwoDigests == {d1, d2}

Symmetry == Permutations(TwoApps) \cup Permutations(TwoKeys)
            \cup Permutations(TwoConns) \cup Permutations(TwoDigests)

=============================================================================
