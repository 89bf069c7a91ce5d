------------------------------ MODULE MCHostSlot ------------------------------
(* HostSlot on small instances: two of each kind let like compete with like. *)
EXTENDS HostSlot

CONSTANTS p1, p2, m1, m2, s1, s2

OneProducer    == {p1}
TwoProducers   == {p1, p2}
OneMaintainer  == {m1}
TwoMaintainers == {m1, m2}
OneScheduler   == {s1}
TwoSchedulers  == {s1, s2}

=============================================================================
