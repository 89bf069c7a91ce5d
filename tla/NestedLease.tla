------------------------------ MODULE NestedLease ------------------------------
(***************************************************************************)
(* Managed builds inside GitHub Actions jobs.  The guardian of a running job *)
(* (lib/github_runner_queue.py) holds the host's capacity lock and lends it  *)
(* over a socket (lib/build_runner_lease.py) to the build service, for one   *)
(* exact request at a time that the service kept as nested evidence          *)
(* (lib/build_nested.py); everything else the service builds under a slot of *)
(* its own (common/service_tools/build_host.py, run_worker).                 *)
(*                                                                         *)
(* The capacity lock is a flock of an open file description: it is held as   *)
(* long as any process has a descriptor of it.  Acquisition with its checks  *)
(* is one step here, HostSlot has its interleavings.  A job in the ledger is *)
(* reduced to its state (BuildJobs), a run of run_next to its claim, its     *)
(* build and its end (BuildWorker).  Tokens, digests, peers and cgroups are  *)
(* what they tell apart: which job a request belongs to.                     *)
(*                                                                         *)
(* An operator marked "Mutant" is a plausible bug in the definition that     *)
(* follows it, there to show that some property would notice.                *)
(***************************************************************************)
EXTENDS Naturals, Sequences, FiniteSets

CONSTANTS
  Jobs,       \* Actions jobs, assigned to one runner one after the other
  Requests,   \* build requests
  MaxFaults,  \* bound on process deaths, for model checking only
  Fifo,       \* the service's own lease
  None        \* no job, no request, no lease

ASSUME NestedLeaseAssumption ==
  /\ Fifo \notin Jobs /\ None \notin Jobs \cup Requests \cup {Fifo}
  /\ MaxFaults \in Nat

VARIABLES
  marker,    \* slot.lock is not empty: a lease is held or needs recovery
  drained,   \* the drain file exists
  holders,   \* <<lease, process>>: who has a descriptor of a lease's flock
  parent,    \* the worker process of each Actions job
  orphans,   \* jobs with processes left in the runner's cgroup
  guardian,  \* the guardian of each job, GuardianBroker
  mail,      \* the messages on the way between borrower and guardian
  client,    \* how far the submission of a nested request has come
  proof,     \* the job a nested request belongs to
  job,       \* the state of each request in the ledger
  work,      \* <<lease, request>>: builds that execute
  service,   \* where run_worker stands
  faults     \* process deaths so far

slot     == <<marker, drained, holders>>
runner   == <<parent, orphans>>
loans    == <<guardian, mail>>
requests == <<client, proof>>
ledger   == <<job, work>>
vars     == <<slot, runner, loans, requests, ledger, service, faults>>

Running   == {r \in Requests : job[r] \in {"running", "cancelling"}}
Records   == {r \in Requests : client[r] = "recorded"}
Serving(j) == guardian[j].at = "serving"

NoGuardian == [at |-> "none", exited |-> FALSE, requests |-> {}, borrower |-> None,
               uncertain |-> FALSE]
NoMail     == [stopped |-> FALSE, replies |-> <<>>]
Stopped    == [at |-> "down", records |-> {}, request |-> None, lease |-> None,
               handled |-> FALSE]

Without(process) == {h \in holders : h[2] # process}

-----------------------------------------------------------------------------
(* The Actions job and its orphans.                                         *)

\* The listener starts a worker when the previous one is gone.
Assign(j) ==
  /\ parent[j] = "none"
  /\ \A i \in Jobs : parent[i] \in {"none", "exited"}
  /\ parent' = [parent EXCEPT ![j] = "waiting"]
  /\ UNCHANGED <<slot, orphans, loans, requests, ledger, service, faults>>

\* acquire_job_slot: the hook marks the slot and hands it to a guardian.
Acquire(j) ==
  /\ parent[j] = "waiting"
  /\ ~drained /\ ~marker /\ holders = {}
  /\ parent' = [parent EXCEPT ![j] = "running"]
  /\ guardian' = [guardian EXCEPT ![j].at = "serving"]
  /\ marker' = TRUE
  /\ holders' = {<<j, "guardian">>}
  /\ UNCHANGED <<drained, orphans, mail, requests, ledger, service, faults>>

\* The guardian did not start: the marker stays, the job is denied.
HandoffFails(j) ==
  /\ parent[j] = "waiting"
  /\ ~drained /\ ~marker /\ holders = {}
  /\ faults < MaxFaults /\ faults' = faults + 1
  /\ parent' = [parent EXCEPT ![j] = "exited"]
  /\ marker' = TRUE
  /\ UNCHANGED <<drained, holders, orphans, loans, requests, ledger, service>>

\* Drained, expired, or in need of recovery: the job is denied.
Deny(j) ==
  /\ parent[j] = "waiting"
  /\ parent' = [parent EXCEPT ![j] = "exited"]
  /\ UNCHANGED <<slot, orphans, loans, requests, ledger, service, faults>>

\* The job ends, is cancelled or dies; processes of it may stay.
ParentExits(j) ==
  /\ parent[j] = "running"
  /\ parent' = [parent EXCEPT ![j] = "exited"]
  /\ orphans' \in {orphans, orphans \cup {j}}
  /\ UNCHANGED <<slot, loans, requests, ledger, service, faults>>

OrphanEnds(j) ==
  /\ j \in orphans
  /\ orphans' = orphans \ {j}
  /\ UNCHANGED <<slot, parent, loans, requests, ledger, service, faults>>

-----------------------------------------------------------------------------
(* The guardian, hold_job_slot.                                             *)

\* Its descriptors close; unless it was killed, its worker dies with it.
GuardianLeaves(j, spared) ==
  /\ guardian' = [guardian EXCEPT ![j].at = "gone"]
  /\ holders' = holders \ {<<j, "guardian">>}
  /\ IF spared \/ parent[j] # "running"
     THEN UNCHANGED parent
     ELSE parent' = [parent EXCEPT ![j] = "exited"]
  /\ UNCHANGED <<drained, orphans, mail, requests, ledger, service>>

Noticed(j) == [guardian EXCEPT ![j].exited = TRUE]

\* A borrower that is gone makes the notification fail, and the guardian with it.
NoticeParent(j) ==
  /\ Serving(j) /\ ~guardian[j].exited
  /\ parent[j] = "exited"
  /\ IF guardian[j].borrower # None /\ <<j, "service">> \notin holders
     THEN GuardianLeaves(j, FALSE) /\ UNCHANGED <<marker, faults>>
     ELSE /\ guardian' = Noticed(j)
          /\ mail' = IF guardian[j].borrower = None THEN mail
                     ELSE [mail EXCEPT ![j].replies = Append(@, "cancel")]
          /\ UNCHANGED <<slot, runner, requests, ledger, service, faults>>

\* accept, "borrow".
Lend(j) ==
  /\ Serving(j) /\ ~guardian[j].exited /\ ~guardian[j].uncertain
  /\ guardian[j].borrower = None
  /\ service.at = "asking" /\ service.request \in guardian[j].requests
  /\ <<j, "service">> \notin holders
  /\ guardian' = [guardian EXCEPT ![j].borrower = service.request]
  /\ mail' = [mail EXCEPT ![j] = NoMail]
  /\ holders' = holders \cup {<<j, "service">>}
  /\ UNCHANGED <<marker, drained, runner, requests, ledger, service, faults>>

Confirmable(j) == mail[j].stopped /\ <<j, "service">> \in holders

\* finish_borrow, on a message or on the end of the connection.
FinishBorrow(j) ==
  /\ Serving(j) /\ guardian[j].borrower # None
  /\ mail[j].stopped \/ <<j, "service">> \notin holders
  /\ IF Confirmable(j)
     THEN /\ mail' = [mail EXCEPT ![j].replies = Append(@, "confirmed")]
          /\ guardian' = [guardian EXCEPT ![j].borrower = None]
     ELSE /\ guardian' = [guardian EXCEPT ![j].borrower = None, ![j].uncertain = TRUE]
          /\ UNCHANGED mail
  /\ UNCHANGED <<slot, runner, requests, ledger, service, faults>>

LeaveUncertain(j) ==
  /\ Serving(j) /\ guardian[j].uncertain
  /\ GuardianLeaves(j, FALSE)
  /\ UNCHANGED <<marker, faults>>

\* _runner_cgroup_idle: a worker that waits for capacity is in the cgroup too.
CgroupIdle(j) == orphans = {} /\ \A i \in Jobs : parent[i] \in {"none", "exited"}

\* Mutant: the cgroup is not inspected.
ReleasableWithOrphans(j) == guardian[j].exited /\ guardian[j].borrower = None

Releasable(j) == guardian[j].exited /\ guardian[j].borrower = None /\ CgroupIdle(j)

\* Parent and borrower are gone: clear the slot, or keep it for inspection.
End(j) ==
  /\ Serving(j) /\ ~guardian[j].uncertain
  /\ guardian[j].exited /\ guardian[j].borrower = None
  /\ marker' = ~Releasable(j)
  /\ GuardianLeaves(j, FALSE)
  /\ UNCHANGED faults

\* Killed, or interrupted by a signal it handles.
GuardianDies(j) ==
  /\ Serving(j)
  /\ faults < MaxFaults /\ faults' = faults + 1
  /\ \E spared \in BOOLEAN : GuardianLeaves(j, spared)
  /\ UNCHANGED marker

-----------------------------------------------------------------------------
(* Submission of a request, and its cancellation by the client.             *)

SubmitPlain(r) ==
  /\ client[r] = "none" /\ job[r] = "absent"
  /\ job' = [job EXCEPT ![r] = "queued"]
  /\ UNCHANGED <<slot, runner, loans, requests, work, service, faults>>

\* submission_proof, from a process of the job; accept, "register".
Prove(j, r) ==
  /\ client[r] = "none" /\ job[r] = "absent"
  /\ parent[j] = "running"
  /\ Serving(j) /\ ~guardian[j].exited
  /\ guardian' = [guardian EXCEPT ![j].requests = @ \cup {r}]
  /\ client' = [client EXCEPT ![r] = "proved"]
  /\ proof' = [proof EXCEPT ![r] = j]
  /\ UNCHANGED <<slot, runner, mail, ledger, service, faults>>

Advance(r, from, to) ==
  /\ client[r] = from
  /\ client' = [client EXCEPT ![r] = to]
  /\ UNCHANGED <<slot, runner, loans, proof, ledger, service, faults>>

\* verify_proof, in the service's SSH process; accept, "verify".
Verify(r) ==
  /\ Advance(r, "proved", "verified")
  /\ Serving(proof[r]) /\ ~guardian[proof[r]].exited

\* The evidence lock is held by fifo_guard for as long as a FIFO run takes.
Guarded == service.lease = Fifo /\ ~service.handled

\* Mutant: evidence is published beside a FIFO run.
RecordUnlocked(r) == Advance(r, "verified", "recorded")

\* register: the evidence is durable before the request is admitted.
Record(r) == ~Guarded /\ Advance(r, "verified", "recorded")

Admit(r) ==
  /\ client[r] = "recorded" /\ job[r] = "absent"
  /\ job' = [job EXCEPT ![r] = "queued"]
  /\ UNCHANGED <<slot, runner, loans, requests, work, service, faults>>

Ledger(r, state) ==
  /\ job' = [job EXCEPT ![r] = state]
  /\ UNCHANGED work

\* Mutant: the request is left in the queue.
CancelQueuedNever(r) == UNCHANGED ledger

\* cancel, for what has not been claimed.
CancelQueued(r) == IF job[r] = "queued" THEN Ledger(r, "ended") ELSE UNCHANGED ledger

ClientCancels(r) ==
  /\ \/ job[r] = "queued" /\ Ledger(r, "ended")
     \/ job[r] = "running" /\ Ledger(r, "cancelling")
  /\ UNCHANGED <<slot, runner, loans, requests, service, faults>>

-----------------------------------------------------------------------------
(* The service: run_pending.                                                *)

Step(from, to) ==
  /\ service.at = from
  /\ service' = [service EXCEPT !.at = to]
  /\ UNCHANGED <<runner, guardian, requests, faults>>

\* What an exception out of run_worker leaves: every descriptor is closed.
Down ==
  /\ service' = Stopped
  /\ holders' = Without("service")
  /\ UNCHANGED <<marker, drained, runner, loans, requests, ledger>>

Restart ==
  /\ Step("down", "start")
  /\ UNCHANGED <<slot, mail, ledger>>

Scan ==
  /\ service.at = "start"
  /\ service' = [Stopped EXCEPT !.at = "next", !.records = Records]
  /\ UNCHANGED <<slot, runner, loans, requests, ledger, faults>>

\* Each record in turn: not queued, cancelled by the drain, or asked for.
Consider(r) ==
  /\ service.at = "next" /\ r \in service.records
  /\ IF job[r] = "queued" /\ ~drained
     THEN /\ service' = [service EXCEPT !.at = "asking", !.request = r, !.lease = proof[r]]
          /\ UNCHANGED ledger
     ELSE /\ service' = [service EXCEPT !.records = @ \ {r}]
          /\ CancelQueued(r)
  /\ UNCHANGED <<slot, runner, loans, requests, faults>>

NoneLeft ==
  /\ service.records = {}
  /\ Step("next", "slot")
  /\ UNCHANGED <<slot, mail, ledger>>

\* borrow: the descriptors arrived and are those of the lease.
Receive ==
  /\ Step("asking", "running")
  /\ <<service.lease, "service">> \in holders
  /\ UNCHANGED <<slot, mail, ledger>>

\* The guardian still has this loan.
Connected(j) == Serving(j) /\ guardian[j].borrower = service.request

SendStopped ==
  /\ Step("returned", "waiting")
  /\ Connected(service.lease)
  /\ mail' = [mail EXCEPT ![service.lease].stopped = TRUE]
  /\ UNCHANGED <<slot, ledger>>

Replies == mail[service.lease].replies

\* One notice of cancellation may come before the acknowledgement.
SkipCancel ==
  /\ Step("waiting", "waiting")
  /\ Replies # <<>> /\ Head(Replies) = "cancel"
  /\ mail' = [mail EXCEPT ![service.lease].replies = Tail(@)]
  /\ UNCHANGED <<slot, ledger>>

Acknowledged ==
  /\ service.at = "waiting"
  /\ Replies # <<>> /\ Head(Replies) = "confirmed"
  /\ service' = [Stopped EXCEPT !.at = "slot", !.handled = TRUE]
  /\ holders' = Without("service")
  /\ UNCHANGED <<marker, drained, runner, loans, requests, ledger, faults>>

\* The connection ends without an acknowledgement.
Unacknowledged ==
  /\ service.at = "waiting"
  /\ Replies = <<>> /\ ~Connected(service.lease)
  /\ Down /\ UNCHANGED faults

\* OSError or ValueError inside the loan: refused, lost, timed out, or raised
\* by run_next.  The loan closes before the ledger is consulted.
LoanFails ==
  /\ \/ service.at \in {"asking", "running", "claimed", "executing", "waiting"}
     \/ service.at = "returned" /\ ~Connected(service.lease)
  /\ service.lease # Fifo
  /\ service' = [service EXCEPT !.at = "failed"]
  /\ holders' = Without("service")
  /\ UNCHANGED <<marker, drained, runner, loans, requests, ledger, faults>>

\* Queued intent is cancelled and the next record considered, but a claim that
\* is still running must be recovered.
AfterFailure ==
  /\ service.at = "failed"
  /\ IF service.request \in Running
     THEN Down
     ELSE /\ service' = [service EXCEPT !.at = "next", !.records = @ \ {service.request},
                                        !.request = None, !.lease = None]
          /\ CancelQueued(service.request)
          /\ UNCHANGED <<slot, runner, loans, requests>>
  /\ UNCHANGED faults

-----------------------------------------------------------------------------
(* The service: the run of one request, on loan or in the FIFO.             *)

\* An unresolved running record makes the claim raise.
Interrupted ==
  /\ service.at \in {"running", "guarded"} /\ Running # {}
  /\ Down /\ UNCHANGED faults

Claim ==
  /\ Step("running", "claimed")
  /\ job[service.request] = "queued" /\ Running = {}
  /\ Ledger(service.request, "running")
  /\ UNCHANGED <<slot, mail>>

\* Drained store, expired or cancelled: what is still queued is cancelled, so
\* that the parent does not wait for work its own lease holds up.
ClaimNothing ==
  /\ Step("running", "returned")
  /\ Running = {}
  /\ CancelQueued(service.request)
  /\ UNCHANGED <<slot, mail>>

Launch ==
  /\ Step("claimed", "executing")
  /\ work' = work \cup {<<service.lease, service.request>>}
  /\ UNCHANGED <<slot, mail, job>>

\* BorrowedLease.cancelled: a message, a lost guardian or a dead parent.
Cancelled(j) ==
  mail[j].replies # <<>> \/ ~Connected(j) \/ parent[j] = "exited"

Poll ==
  /\ Step("executing", "executing")
  /\ service.lease # Fifo /\ Cancelled(service.lease)
  /\ job[service.request] = "running"
  /\ Ledger(service.request, "cancelling")
  /\ UNCHANGED <<slot, mail>>

BuildEnds(l, r) ==
  /\ <<l, r>> \in work
  /\ work' = work \ {<<l, r>>}
  /\ UNCHANGED <<slot, runner, loans, requests, job, service, faults>>

\* A definite outcome: rejected before the launch, or over.
Finish ==
  /\ service.at \in {"claimed", "executing"}
  /\ <<service.lease, service.request>> \notin work
  /\ service' = [service EXCEPT !.at = IF service.lease = Fifo THEN "done" ELSE "returned"]
  /\ Ledger(service.request, "ended")
  /\ UNCHANGED <<slot, runner, loans, requests, faults>>

\* RuntimeError: an unconfirmed outcome leaves claim, marker and evidence.
Raise ==
  /\ service.at \in {"claimed", "executing"}
  /\ Down /\ UNCHANGED faults

ServiceDies ==
  /\ service.at # "down"
  /\ faults < MaxFaults /\ faults' = faults + 1
  /\ Down

-----------------------------------------------------------------------------
(* The service: host_slot and fifo_guard.                                   *)

Busy ==
  /\ drained \/ holders # {}
  /\ Step("slot", "start")
  /\ UNCHANGED <<slot, mail, ledger>>

NeedsRecovery ==
  /\ service.at = "slot" /\ ~drained /\ holders = {} /\ marker
  /\ Down /\ UNCHANGED faults

\* After a nested run the slot is taken and released with nothing in between.
TakeSlot ==
  /\ service.at = "slot" /\ ~drained /\ holders = {} /\ ~marker
  /\ service' = [service EXCEPT !.at = IF service.handled THEN "done" ELSE "guarded",
                                !.lease = Fifo, !.records = Records]
  /\ marker' = TRUE
  /\ holders' = {<<Fifo, "service">>}
  /\ UNCHANGED <<drained, runner, loans, requests, ledger, faults>>

Ordinary == {r \in Requests \ service.records : job[r] = "queued"}

ClaimOrdinary(r) ==
  /\ service.at = "guarded" /\ r \in Ordinary /\ Running = {}
  /\ service' = [service EXCEPT !.at = "claimed", !.request = r]
  /\ Ledger(r, "running")
  /\ UNCHANGED <<slot, runner, loans, requests, faults>>

NoOrdinary ==
  /\ Step("guarded", "done")
  /\ Running = {}
  /\ UNCHANGED <<slot, mail, ledger>>

ReleaseSlot ==
  /\ service.at = "done"
  /\ service' = [Stopped EXCEPT !.at = "start"]
  /\ marker' = FALSE
  /\ holders' = Without("service")
  /\ UNCHANGED <<drained, runner, loans, requests, ledger, faults>>

-----------------------------------------------------------------------------
(* Administrators.                                                          *)

SetDrain(b) ==
  /\ drained' = b
  /\ UNCHANGED <<marker, holders, runner, loans, requests, ledger, service, faults>>

\* Once nothing of the interrupted lease is left.
ClearMarker ==
  /\ marker /\ holders = {} /\ work = {} /\ orphans = {}
  /\ \A j \in Jobs : parent[j] # "running"
  /\ marker' = FALSE
  /\ UNCHANGED <<drained, holders, runner, loans, requests, ledger, service, faults>>

\* recover_interrupted.
RecoverClaim(r) ==
  /\ r \in Running /\ service.request # r
  /\ \A l \in Jobs \cup {Fifo} : <<l, r>> \notin work
  /\ Ledger(r, "ended")
  /\ UNCHANGED <<slot, runner, loans, requests, service, faults>>

-----------------------------------------------------------------------------
Init ==
  /\ marker = FALSE /\ drained = FALSE /\ holders = {}
  /\ parent = [j \in Jobs |-> "none"] /\ orphans = {}
  /\ guardian = [j \in Jobs |-> NoGuardian]
  /\ mail = [j \in Jobs |-> NoMail]
  /\ client = [r \in Requests |-> "none"]
  /\ proof = [r \in Requests |-> None]
  /\ job = [r \in Requests |-> "absent"]
  /\ work = {}
  /\ service = Stopped
  /\ faults = 0

RunnerNext(j) ==
  \/ Assign(j) \/ Acquire(j) \/ HandoffFails(j) \/ Deny(j)
  \/ ParentExits(j) \/ OrphanEnds(j)

GuardianNext(j) ==
  NoticeParent(j) \/ Lend(j) \/ FinishBorrow(j) \/ LeaveUncertain(j) \/ End(j)

ClientNext(r) ==
  \/ SubmitPlain(r) \/ Verify(r) \/ Record(r) \/ Admit(r) \/ ClientCancels(r)
  \/ \E j \in Jobs : Prove(j, r)

ServiceNext ==
  \/ Restart \/ Scan \/ NoneLeft \/ Receive \/ SendStopped \/ SkipCancel
  \/ Acknowledged \/ Unacknowledged \/ AfterFailure
  \/ Interrupted \/ Claim \/ ClaimNothing \/ Launch \/ Poll \/ Finish
  \/ Busy \/ NeedsRecovery \/ TakeSlot \/ NoOrdinary \/ ReleaseSlot
  \/ \E r \in Requests : Consider(r) \/ ClaimOrdinary(r)

Next ==
  \/ \E j \in Jobs : RunnerNext(j) \/ GuardianNext(j) \/ GuardianDies(j)
  \/ \E r \in Requests : ClientNext(r) \/ RecoverClaim(r)
  \/ ServiceNext \/ LoanFails \/ Raise \/ ServiceDies
  \/ \E l \in Jobs \cup {Fifo}, r \in Requests : BuildEnds(l, r)
  \/ \E b \in BOOLEAN \ {drained} : SetDrain(b)
  \/ ClearMarker

Spec == Init /\ [][Next]_vars

\* Service and guardian go on, a refused or lost request is given up after two
\* seconds, and a build that was told to stop does.
Fairness ==
  /\ WF_vars(ServiceNext)
  /\ WF_vars(service.at = "asking" /\ (Receive \/ LoanFails))
  /\ WF_vars(service.at = "returned" /\ (SendStopped \/ LoanFails))
  /\ \A j \in Jobs : WF_vars(GuardianNext(j))
  /\ \A j \in Jobs, r \in Requests : WF_vars(job[r] = "cancelling" /\ BuildEnds(j, r))

FairSpec == Spec /\ Fairness

-----------------------------------------------------------------------------
(* Properties.                                                              *)

Guardians == [at : {"none", "serving", "gone"}, exited : BOOLEAN, requests : SUBSET Requests,
              borrower : Requests \cup {None}, uncertain : BOOLEAN]
Mails     == [stopped : BOOLEAN, replies : Seq({"cancel", "confirmed"})]

\* Where the service has no lease, asks for one, has one on loan, any, its own.
Away     == {"down", "start", "next", "slot", "failed"}
OnLoan   == {"running", "returned", "waiting"}
InRun    == {"claimed", "executing"}
InFifo   == {"guarded", "done"}
Leases   == Jobs \cup {Fifo}
Services == [at : Away \cup {"asking"} \cup OnLoan \cup InRun \cup InFifo,
             records : SUBSET Requests, request : Requests \cup {None},
             lease : Jobs \cup {Fifo, None}, handled : BOOLEAN]

\* Types of the variables.
TypeOK ==
  /\ marker \in BOOLEAN /\ drained \in BOOLEAN
  /\ holders \subseteq (Jobs \cup {Fifo}) \X {"guardian", "service"}
  /\ parent \in [Jobs -> {"none", "waiting", "running", "exited"}]
  /\ orphans \subseteq Jobs
  /\ guardian \in [Jobs -> Guardians]
  /\ mail \in [Jobs -> Mails]
  /\ client \in [Requests -> {"none", "proved", "verified", "recorded"}]
  /\ proof \in [Requests -> Jobs \cup {None}]
  /\ job \in [Requests -> {"absent", "queued", "running", "cancelling", "ended"}]
  /\ work \subseteq (Jobs \cup {Fifo}) \X Requests
  /\ service \in Services
  /\ faults \in 0 .. MaxFaults

\* The leases that something on the host works under: a workflow, what it left
\* behind, or a build.
Tenants ==
  {j \in Jobs : parent[j] = "running"} \cup orphans \cup {w[1] : w \in work}

\* One lease at a time has work on the host, and the marker stays for as long:
\* whichever of workflow, guardian, service and build was lost or ended first.
CapacityHeld == Cardinality(Tenants) <= 1 /\ (Tenants # {} => marker)

\* A nested request is only ever built on the loan of its own job, and never
\* in the FIFO, although its evidence and its admission are two steps and the
\* service reads both at other times.
BuiltOnItsLoan ==
  [][\A w \in work' \ work :
       /\ <<w[1], "service">> \in holders
       /\ w[1] = (IF w[2] \in Records THEN proof[w[2]] ELSE Fifo)]_vars

\* A guardian that clears the slot leaves no claim of its job to be recovered.
ReleasedSettled ==
  [][\A j \in Jobs :
       Serving(j) /\ marker /\ ~marker' =>
         \A r \in Running : proof[r] # j]_vars

\* The parent waits for a request in its own slot.
Awaited(j, r) ==
  parent[j] = "running" /\ proof[r] = j /\ job[r] \in {"queued", "running", "cancelling"}

\* A workflow never waits for a build that cannot start because of the lease
\* the workflow holds: a request of it executes, its request ends, or the job is
\* stopped, unless a lost guardian and a lost service leave the claim to an
\* administrator.
ParentNeverStranded ==
  \A j \in Jobs, r \in Requests :
    Awaited(j, r)
      ~> (\/ ~Awaited(j, r)
          \/ \E q \in Requests : <<j, q>> \in work
          \/ ~Serving(j) /\ r \in Running /\ service.request # r)

\* A build on loan stops when its parent or the guardian is lost, unless the
\* service is lost as well and leaves it to an administrator.
LossStopsBuild ==
  \A j \in Jobs, r \in Requests :
    <<j, r>> \in work /\ (parent[j] = "exited" \/ ~Serving(j))
      ~> (<<j, r>> \notin work \/ service.request # r)

\* A nested request comes to an end whoever is lost: waiting, it does not strand
\* its workflow, and building, it does not outlive its workflow or guardian.
NestedResolves == ParentNeverStranded /\ LossStopsBuild

\* docs/services/github-runner-operations.md, line 123: crashes, guardian
\* failures and cgroup orphans retain the lease.  A guardian that ends after
\* its worker and its borrower, without failure, retains it for orphans only.
RetainedForOrphans ==
  [][\A j \in Jobs :
       /\ Serving(j) /\ guardian[j].exited /\ guardian[j].borrower = None
       /\ ~guardian[j].uncertain /\ guardian'[j].at = "gone" /\ faults' = faults
       => (marker' => orphans # {})]_vars

=============================================================================
