---------------------------- MODULE MCNestedLease ----------------------------
(* Instances of NestedLease: one job, or two of one runner that follow each   *)
(* other, and a second request that competes with the first, nested or in    *)
(* the FIFO.                                                                *)
EXTENDS NestedLease

CONSTANTS j1, j2, r1, r2

OneJob      == {j1}
TwoJobs     == {j1, j2}
TwoRequests == {r1, r2}

=============================================================================
