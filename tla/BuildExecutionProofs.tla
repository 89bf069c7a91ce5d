------------------------- MODULE BuildExecutionProofs -------------------------
(***************************************************************************)
(* Safety of one supervised build, for any bound on its descendants.  The    *)
(* coordinator decides on what it read some steps ago; what the proof needs  *)
(* is that the observations it acts on cannot become untrue.                 *)
(***************************************************************************)
EXTENDS BuildExecution, TLAPS

\* The states a unit, once launched, reaches and does not leave for running.
Ended == {"exited", "inactive", "failed", "absent"}

\* What the coordinator remembers of an ended unit or a finished main process
\* is still so when it acts on it.
ObservationStands ==
  pc \in {"decide", "settle"} =>
    /\ fields.unit \in Ended => unit \in Ended
    /\ fields.unit \in {"exited", "inactive"} => unit \in {"exited", "inactive", "absent"}
    /\ fields.unit = "absent" => unit = "absent"
    /\ fields.main = "ok" => main = "ok"

\* A reason and an outcome are only there when the coordinator can hold them.
OutcomeIsFinal ==
  /\ result # None => pc = "returned"
  /\ reason = "cancelled" => cancelled

SupervisionInv ==
  /\ TypeOK
  /\ ObservationStands
  /\ OutcomeIsFinal
  /\ OutcomeMeansStopped
  /\ SuccessIsReal
  /\ CancelledIsAsked

-----------------------------------------------------------------------------

\* The initial states, a previous attempt's leftovers included, satisfy the
\* inductive invariant.
LEMMA InitSupervision == Init => SupervisionInv
<1> SUFFICES ASSUME Init PROVE SupervisionInv
  OBVIOUS
<1>1. TypeOK
  BY BuildExecutionAssumption
  DEF Init, TypeOK, UnitStates, Supervised, Finished, None, Unseen
<1>2. ObservationStands /\ OutcomeIsFinal
  BY DEF Init, ObservationStands, OutcomeIsFinal, None
<1>3. OutcomeMeansStopped /\ SuccessIsReal /\ CancelledIsAsked
  BY DEF Init, OutcomeMeansStopped, SuccessIsReal, CancelledIsAsked, None
<1>. QED  BY <1>1, <1>2, <1>3 DEF SupervisionInv

\* What the processes do by themselves: a process can only be added to a
\* running unit, and none of them turns an ended unit back.
LEMMA ProcessesKeep ==
  ASSUME SupervisionInv, Processes
  PROVE  SupervisionInv'
<1> USE BuildExecutionAssumption
    DEF SupervisionInv, TypeOK, UnitStates, Supervised, Finished, None, Populated,
        ObservationStands, OutcomeIsFinal, OutcomeMeansStopped, SuccessIsReal,
        CancelledIsAsked, Ended, wishes, loop
<1>1. CASE Fork
  BY <1>1 DEF Fork
<1>2. CASE ChildExits
  BY <1>2 DEF ChildExits
<1>3. CASE \E status \in {"ok", "bad"} : MainExits(status)
  BY <1>3 DEF MainExits
<1>. QED  BY <1>1, <1>2, <1>3 DEF Processes

\* What systemd does by itself only moves a unit towards its end.
LEMMA SystemdKeeps ==
  ASSUME SupervisionInv, Systemd \/ OutOfMemory
  PROVE  SupervisionInv'
<1> USE DEF SupervisionInv, TypeOK, UnitStates, Supervised, Finished, None, Populated,
        ObservationStands, OutcomeIsFinal, OutcomeMeansStopped, SuccessIsReal,
        CancelledIsAsked, Ended, wishes, loop
<1>1. CASE UnitExits
  BY <1>1 DEF UnitExits
<1>2. CASE RuntimeExceeded
  BY <1>2 DEF RuntimeExceeded
<1>3. CASE UnitStops
  BY <1>3 DEF UnitStops
<1>4. CASE UnitUnloads
  BY <1>4 DEF UnitUnloads
<1>5. CASE OutOfMemory
  BY <1>5 DEF OutOfMemory
<1>. QED  BY <1>1, <1>2, <1>3, <1>4, <1>5 DEF Systemd

\* The coordinator's steps: an outcome is returned only on an ended unit whose
\* cgroup was read empty.
LEMMA CoordinatorKeeps ==
  ASSUME SupervisionInv, Coordinator \/ Unconfirmed
  PROVE  SupervisionInv'
<1> USE DEF SupervisionInv, TypeOK, UnitStates, Supervised, Finished, None, Populated,
        ObservationStands, OutcomeIsFinal, OutcomeMeansStopped, SuccessIsReal,
        CancelledIsAsked, Ended, wishes, system, Raise, Return
<1>1. CASE Precheck
  BY <1>1 DEF Precheck
<1>2. CASE Launch
  BY <1>2 DEF Launch, LaunchUnit
<1>3. CASE Observe
  BY <1>3 DEF Observe
<1>4. CASE Gone
  BY <1>4 DEF Gone, Stopped
<1>5. CASE Decide
  BY <1>5 DEF Decide, StopFor, StopUnit
<1>6. CASE Settle
  <2>1. CASE ~Settled
    BY <1>6, <2>1 DEF Settle
  <2>2. CASE Settled /\ reason # None
    BY <1>6, <2>2 DEF Settle, Settled, Stopped
  <2>3. CASE Settled /\ reason = None
    BY <1>6, <2>3 DEF Settle, Settled, Succeeded, StopUnit
  <2>. QED  BY <2>1, <2>2, <2>3
<1>7. CASE Unconfirmed
  BY <1>7 DEF Unconfirmed, StopUnit
<1>. QED  BY <1>1, <1>2, <1>3, <1>4, <1>5, <1>6, <1>7 DEF Coordinator

\* A cancellation or the deadline can come at any moment.
LEMMA WishesKeep ==
  ASSUME SupervisionInv, RequestCancel \/ Deadline \/ UNCHANGED vars
  PROVE  SupervisionInv'
<1> USE DEF SupervisionInv, TypeOK, UnitStates, Supervised, Finished, None, Populated,
        ObservationStands, OutcomeIsFinal, OutcomeMeansStopped, SuccessIsReal,
        CancelledIsAsked, Ended, system, wishes, loop
<1>1. CASE RequestCancel
  BY <1>1 DEF RequestCancel
<1>2. CASE Deadline
  BY <1>2 DEF Deadline
<1>3. CASE UNCHANGED vars
  BY <1>3 DEF vars
<1>. QED  BY <1>1, <1>2, <1>3

\* The inductive invariant holds in every reachable state, although the
\* coordinator acts on observations of run_systemd_build that may be stale.
THEOREM Supervision == Spec => []SupervisionInv
<1>1. Init => SupervisionInv
  BY InitSupervision
<1>2. SupervisionInv /\ [Next]_vars => SupervisionInv'
  BY ProcessesKeep, SystemdKeeps, CoordinatorKeeps, WishesKeep DEF Next
<1>. QED  BY <1>1, <1>2, PTL DEF Spec

\* run_systemd_build returns an outcome only when nothing of the build runs any
\* more, so its caller may free the host.
THEOREM NoOutcomeWhileRunning == Spec => []OutcomeMeansStopped
<1>1. SupervisionInv => OutcomeMeansStopped
  BY DEF SupervisionInv
<1>. QED  BY <1>1, Supervision, PTL

\* A success is never invented: not from a stop, an out-of-memory kill or an
\* expired runtime that races with the main process's exit.
THEOREM SuccessIsEarned == Spec => []SuccessIsReal
<1>1. SupervisionInv => SuccessIsReal
  BY DEF SupervisionInv
<1>. QED  BY <1>1, Supervision, PTL

\* A cancelled outcome always follows a recorded cancellation.
THEOREM CancelledOnlyOnRequest == Spec => []CancelledIsAsked
<1>1. SupervisionInv => CancelledIsAsked
  BY DEF SupervisionInv
<1>. QED  BY <1>1, Supervision, PTL

=============================================================================
