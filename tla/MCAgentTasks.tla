----------------------------- MODULE MCAgentTasks -----------------------------
(* An instance of AgentTasks: a task of one of three kinds, which its worker  *)
(* may run twice.                                                           *)
EXTENDS AgentTasks

CONSTANTS a, w1

OneTask   == {a}
OneWorker == {w1}

ThreeKinds == {[interval |-> "event", persistence |-> "conversation", failure_limit |-> 0],
               [interval |-> "repeat", persistence |-> "fresh", failure_limit |-> 1],
               [interval |-> "once", persistence |-> "checkpoint", failure_limit |-> 1]}

=============================================================================
