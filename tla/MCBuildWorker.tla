---------------------------- MODULE MCBuildWorker ----------------------------
(* BuildWorker on a small instance; r2 is the nested request.                *)
EXTENDS BuildWorker

CONSTANTS r1, r2, o1, d1, w1, w2, t1, t2

TwoRequests == {r1, r2}
OneNested   == {r2}
OneOwner    == {o1}
OneDigest   == {d1}
TwoWorkers  == {w1, w2}
TwoTokens   == {t1, t2}

=============================================================================
