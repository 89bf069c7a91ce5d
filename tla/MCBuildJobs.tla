---------------------------- MODULE MCBuildJobs ----------------------------
(* BuildJobs on small instances.                                            *)
EXTENDS BuildJobs, TLC

CONSTANTS r1, r2, r3, o1, d1, w1, w2, t1, t2, t3

ThreeRequests == {r1, r2, r3}
OneNested     == {r3}
OneOwner      == {o1}
OneDigest     == {d1}
TwoWorkers    == {w1, w2}
ThreeTokens   == {t1, t2, t3}

\* Interchangeable values; r3 is apart because it is the nested request.
PairSymmetry ==
  Permutations({r1, r2}) \cup Permutations({w1, w2}) \cup Permutations({t1, t2, t3})

=============================================================================
