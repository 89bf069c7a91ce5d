---------------------------- MODULE BuildExecution ----------------------------
(***************************************************************************)
(* The supervision of one admitted build (lib/build_execution.py,           *)
(* run_systemd_build): a coordinator that polls a transient systemd unit,   *)
(* stops it on cancellation, deadline or failure, and reports an outcome    *)
(* only once the unit's cgroup is empty.  Everything else raises, which     *)
(* leaves the claim running and the capacity held.                          *)
(*                                                                         *)
(* The unit is external: what systemd does with the properties the code     *)
(* gives it (Type=exec, ExitType=cgroup, RemainAfterExit=yes, RuntimeMaxSec, *)
(* KillMode=control-group) and what the processes inside do by themselves.   *)
(*                                                                         *)
(* An operator marked "Mutant" is a plausible bug in the definition that    *)
(* follows it, there to show that some property would notice.               *)
(***************************************************************************)
EXTENDS Naturals

CONSTANT MaxProcesses  \* bound on descendants, TasksMax in the code

ASSUME BuildExecutionAssumption == MaxProcesses \in Nat

VARIABLES
  unit,       \* the unit's state, one of UnitStates
  main,       \* the unit's main process: none, running, ok or bad
  children,   \* its descendants in the cgroup
  cancelled,  \* a cancellation was recorded in the ledger
  late,       \* the coordinator's deadline has passed
  pc,         \* where the coordinator stands
  fields,     \* the last observation of the unit
  reason,     \* why the coordinator stopped the unit
  result      \* what it returned

system == <<unit, main, children>>
wishes == <<cancelled, late>>
loop   == <<pc, fields, reason, result>>
vars   == <<system, wishes, loop>>

UnitStates ==
  {"absent",                \* not-found
   "running",
   "exited",                \* active (exited): RemainAfterExit
   "stopping", "aborting",  \* deactivating, on request or by systemd itself
   "inactive", "failed"}

\* The cgroup's population, which counts every descendant.
Populated == main = "running" \/ children > 0

None     == "none"
Unseen   == [unit |-> "absent", main |-> "none"]
Supervised == {"observe", "decide", "settle"}
Finished   == {"returned", "raised"}

-----------------------------------------------------------------------------
(* The unit.                                                                *)

\* systemd-run with Type=exec returns once the main process runs.
LaunchUnit ==
  /\ unit' = "running"
  /\ main' = "running"
  /\ UNCHANGED children

\* systemctl --no-block stop.
StopUnit ==
  /\ unit' = CASE unit = "running" -> "stopping"
               [] unit = "exited"  -> "inactive"
               [] OTHER            -> unit
  /\ UNCHANGED <<main, children>>

Fork ==
  /\ Populated
  /\ unit = "running"
  /\ children < MaxProcesses
  /\ children' = children + 1
  /\ UNCHANGED <<unit, main, wishes, loop>>

ChildExits ==
  /\ children > 0
  /\ children' = children - 1
  /\ UNCHANGED <<unit, main, wishes, loop>>

MainExits(status) ==
  /\ main = "running"
  /\ main' = status
  /\ UNCHANGED <<unit, children, wishes, loop>>

\* ExitType=cgroup: the service ends with its last process.
UnitExits ==
  /\ unit = "running"
  /\ ~Populated
  /\ unit' = IF main = "ok" THEN "exited" ELSE "failed"
  /\ UNCHANGED <<main, children, wishes, loop>>

\* RuntimeMaxSec, systemd's own deadline.
RuntimeExceeded ==
  /\ unit = "running"
  /\ late
  /\ unit' = "aborting"
  /\ UNCHANGED <<main, children, wishes, loop>>

\* A process hits MemoryMax: the unit fails even if its main process did not.
OutOfMemory ==
  /\ unit = "running"
  /\ Populated
  /\ unit' = "aborting"
  /\ UNCHANGED <<main, children, wishes, loop>>

\* A stop ends when everything was killed, or when even SIGKILL did not help:
\* then the unit fails and its processes are left in the cgroup.
UnitStops ==
  /\ \/ unit = "stopping" /\ ~Populated /\ unit' \in {"inactive", "failed"}
     \/ unit = "stopping" /\ Populated /\ unit' = "failed"
     \/ unit = "aborting" /\ unit' = "failed"
  /\ UNCHANGED <<main, children, wishes, loop>>

\* An inactive transient unit is collected.
UnitUnloads ==
  /\ unit = "inactive"
  /\ unit' = "absent"
  /\ UNCHANGED <<main, children, wishes, loop>>

-----------------------------------------------------------------------------
(* The coordinator.                                                         *)

Raise == pc' = "raised" /\ UNCHANGED <<fields, reason, result>>

Return(outcome) ==
  /\ pc' = "returned"
  /\ result' = outcome
  /\ UNCHANGED <<fields, reason>>

Stopped == IF reason = "cancelled" THEN "cancelled" ELSE "failed"

\* An earlier attempt's unit or processes must be gone; a cancellation known
\* before the launch dispatches nothing.
Precheck ==
  /\ pc = "start"
  /\ IF unit # "absent" \/ Populated THEN Raise
     ELSE IF cancelled THEN Return("cancelled")
     ELSE pc' = "launch" /\ UNCHANGED <<fields, reason, result>>
  /\ UNCHANGED <<system, wishes>>

\* A launch that is not confirmed raises, whether or not the unit exists.
Launch ==
  /\ pc = "launch"
  /\ \/ LaunchUnit /\ pc' = "observe"
     \/ LaunchUnit /\ pc' = "raised"
     \/ UNCHANGED system /\ pc' = "raised"
  /\ UNCHANGED <<wishes, fields, reason, result>>

Observe ==
  /\ pc = "observe"
  /\ fields' = [unit |-> unit, main |-> main]
  /\ pc' = "decide"
  /\ UNCHANGED <<system, wishes, reason, result>>

\* The unit is gone.  Only a stop of ours explains that, and its cgroup may
\* outlive it.
Gone ==
  /\ pc = "decide"
  /\ fields.unit = "absent"
  /\ IF reason = None THEN Raise
     ELSE IF Populated THEN pc' = "observe" /\ UNCHANGED <<fields, reason, result>>
     ELSE Return(Stopped)
  /\ UNCHANGED <<system, wishes>>

\* Mutant: a cancellation is only read before the launch.
StopForTrouble ==
  IF late THEN "timeout" ELSE IF fields.main = "bad" THEN "command-failed" ELSE None

StopFor ==
  IF cancelled THEN "cancelled"
  ELSE IF late THEN "timeout"
  ELSE IF fields.main = "bad" THEN "command-failed"
  ELSE None

\* The first reason to stop is final, and the stop is requested once.
Decide ==
  /\ pc = "decide"
  /\ fields.unit # "absent"
  /\ IF reason = None /\ StopFor # None
       THEN reason' = StopFor /\ StopUnit
       ELSE UNCHANGED <<reason, system>>
  /\ pc' = "settle"
  /\ UNCHANGED <<wishes, fields, result>>

\* Mutant: the state of the unit is taken for the state of its processes.
SettledUnit == fields.unit \in {"exited", "inactive", "failed"}

\* A terminal observation, and the cgroup read after it is empty.
Settled == fields.unit \in {"exited", "inactive", "failed"} /\ ~Populated

\* Mutant: an empty cgroup is taken for a success.
SucceededUnasked == TRUE

\* Result=success with the main process exited with status 0.
Succeeded == fields.unit \in {"exited", "inactive"} /\ fields.main = "ok"

\* An unstopped unit is unloaded and its exit status is the outcome.
Settle ==
  /\ pc = "settle"
  /\ IF ~Settled
       THEN pc' = "observe" /\ UNCHANGED <<system, fields, reason, result>>
     ELSE IF reason # None
       THEN Return(Stopped) /\ UNCHANGED system
     ELSE
       /\ StopUnit
       /\ Return(IF Succeeded THEN "succeeded" ELSE "failed")
  /\ UNCHANGED wishes

\* A probe, a stop or the cancellation status could not be confirmed; a stop
\* may have been carried out all the same.
Unconfirmed ==
  /\ pc \in Supervised
  /\ pc' = "raised"
  /\ StopUnit \/ UNCHANGED system
  /\ UNCHANGED <<wishes, fields, reason, result>>

-----------------------------------------------------------------------------

RequestCancel ==
  /\ ~cancelled
  /\ cancelled' = TRUE
  /\ UNCHANGED <<system, late, loop>>

Deadline ==
  /\ pc \in Supervised
  /\ ~late
  /\ late' = TRUE
  /\ UNCHANGED <<system, cancelled, loop>>

\* An earlier attempt may have left its unit, or only its processes.
Init ==
  /\ \/ unit = "absent" /\ main = "none"
     \/ unit = "running" /\ main = "running"
     \/ unit = "failed" /\ main = "bad"
  /\ children \in 0 .. MaxProcesses
  /\ cancelled = FALSE
  /\ late = FALSE
  /\ pc = "start"
  /\ fields = Unseen
  /\ reason = None
  /\ result = None

Coordinator == Precheck \/ Launch \/ Observe \/ Gone \/ Decide \/ Settle

Processes ==
  \/ Fork \/ ChildExits
  \/ \E status \in {"ok", "bad"} : MainExits(status)

Systemd == UnitExits \/ RuntimeExceeded \/ UnitStops \/ UnitUnloads

Next ==
  \/ Coordinator \/ Unconfirmed
  \/ Processes \/ Systemd \/ OutOfMemory
  \/ RequestCancel \/ Deadline

\* The coordinator polls on, systemd carries out a stop, and processes that
\* are being killed die.  Nothing makes a build end by itself.
Fairness ==
  /\ WF_vars(Coordinator)
  /\ WF_vars(Systemd)
  /\ WF_vars(unit # "running" /\ (ChildExits \/ MainExits("bad")))

Spec == Init /\ [][Next]_vars
FairSpec == Spec /\ Fairness

-----------------------------------------------------------------------------
(* Properties.                                                              *)

\* Types of the variables.
TypeOK ==
  /\ unit \in UnitStates
  /\ main \in {"none", "running", "ok", "bad"}
  /\ children \in 0 .. MaxProcesses
  /\ cancelled \in BOOLEAN /\ late \in BOOLEAN
  /\ pc \in {"start", "launch"} \cup Supervised \cup Finished
  /\ fields \in [unit : UnitStates, main : {"none", "running", "ok", "bad"}]
  /\ reason \in {None, "cancelled", "timeout", "command-failed"}
  /\ result \in {None, "succeeded", "failed", "cancelled"}

\* An outcome means that nothing of the build runs any more, although the
\* unit's state and the cgroup's population are read at different times: the
\* caller passes it on as work_stopped=True and frees the host.
OutcomeMeansStopped ==
  result # None => ~Populated /\ unit \notin {"running", "stopping", "aborting"}

\* Success is only reported of a build whose main process succeeded and that
\* neither the coordinator nor systemd's own deadline stopped.
SuccessIsReal ==
  result = "succeeded" => main = "ok" /\ reason = None /\ unit \in {"inactive", "absent"}

\* A cancelled outcome follows a recorded cancellation, whatever else ended
\* the build at the same time.
CancelledIsAsked == result = "cancelled" => cancelled

\* A supervised build ends: if it is cancelled or overdue, and also, without
\* waiting for the deadline, if its helper failed although descendants keep the
\* unit running.
Ends ==
  /\ ((cancelled \/ late) /\ pc \in Supervised) ~> (pc \in Finished)
  /\ (main = "bad" /\ pc \in Supervised) ~> (pc \in Finished)

=============================================================================
