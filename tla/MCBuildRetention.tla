--------------------------- MODULE MCBuildRetention ---------------------------
(* BuildRetention on small instances.                                        *)
EXTENDS BuildRetention

CONSTANTS r1, r2

TwoRequests == {r1, r2}

=============================================================================
