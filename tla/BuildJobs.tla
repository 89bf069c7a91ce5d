------------------------------ MODULE BuildJobs ------------------------------
(***************************************************************************)
(* The durable build-job ledger of one build host (lib/build_jobs.py): a    *)
(* bounded queue, the exclusive worker lease, and the claim, finish and     *)
(* recovery operations of the lease holder.                                 *)
(*                                                                         *)
(* Every public method of BuildJobStore runs under the state flock and      *)
(* replaces the ledger file atomically, so one locked section is one        *)
(* action.  The two methods that lock twice, WorkerLease.finish(succeeded)  *)
(* and WorkerLease.recover_interrupted, are two actions with the worker's   *)
(* position in between kept in "task".  A section that saves twice first    *)
(* saves the expiry sweep alone; stopping between the two saves leaves what *)
(* the refusal of the same request leaves, which is an action of its own.   *)
(*                                                                         *)
(* Calls that raise before they change anything (another owner, another     *)
(* digest, a stale lease) are disabled actions.  Project, source, platform  *)
(* and limits of a request are its digest; the artifact identity is whether *)
(* one is recorded; the fixed reason text is determined by the state.       *)
(*                                                                         *)
(* An operator marked "Mutant" is a plausible bug in the definition that    *)
(* follows it; no specification uses it, it only shows that some property   *)
(* would notice.                                                            *)
(***************************************************************************)
EXTENDS Integers, FiniteSets

CONSTANTS
  Requests,        \* request IDs clients may use
  Nested,          \* those admitted through a runner lease (build_nested.py)
  Owners,          \* authenticated principals
  Digests,         \* digests of validated requests
  Workers,         \* processes that may enter BuildJobStore.worker()
  Tokens,          \* random worker lease IDs
  None,            \* no owner, no digest, no lease, no request
  MaxOperations,   \* MAX_OPERATIONS
  MaxQueueLength,  \* max_queue_length
  QueueTTL,        \* queue_ttl_seconds
  MaxTime          \* bound on the wall clock, for model checking only

ASSUME BuildJobsAssumption ==
  /\ IsFiniteSet(Requests)
  /\ Nested \subseteq Requests
  /\ None \notin Requests \cup Owners \cup Digests \cup Tokens
  /\ MaxOperations \in Nat \ {0}
  /\ MaxQueueLength \in 1 .. MaxOperations
  /\ QueueTTL \in Nat \ {0}
  /\ MaxTime \in Nat

VARIABLES
  jobs,          \* ledger["jobs"], one record per request ID
  draining,      \* ledger["draining"]
  lastSequence,  \* ledger["last_sequence"]
  lastTime,      \* ledger["last_time"], the durable clock
  clock,         \* the wall clock, which an administrator or NTP may set back
  lease,         \* the token of the lease a worker process holds, or None
  heirs,         \* tokens whose descriptor a child process still holds open
  task,          \* where a lease holder stands between two locked sections
  work           \* requests whose supervised build is executing

ledger == <<jobs, draining, lastSequence, lastTime>>
slot   == <<lease, heirs>>
vars   == <<ledger, clock, slot, task, work>>

-----------------------------------------------------------------------------
(* Records.  An ID the ledger does not hold has state "absent".             *)

NoTime == -1

Certain  == {"succeeded", "failed", "cancelled", "expired"}
Terminal == Certain \cup {"uncertain"}
States   == {"queued", "running"} \cup Terminal

NoJob ==
  [state |-> "absent", owner |-> None, digest |-> None, sequence |-> 0,
   created_at |-> NoTime, expires_at |-> NoTime, cancel_requested |-> FALSE,
   started_at |-> NoTime, finished_at |-> NoTime, lease_id |-> None,
   artifact |-> FALSE]

Times == Nat \cup {NoTime}

Job ==
  [state: States \cup {"absent"}, owner: Owners \cup {None},
   digest: Digests \cup {None}, sequence: Nat,
   created_at: Times, expires_at: Times, cancel_requested: BOOLEAN,
   started_at: Times, finished_at: Times, lease_id: Tokens \cup {None},
   artifact: BOOLEAN]

Idle == [step |-> "idle", request |-> None, interrupted |-> None]

Tasks == [step: {"idle", "verified", "recovering"},
          request: Requests \cup {None}, interrupted: Tokens \cup {None}]

Present   == {r \in Requests : jobs[r].state # "absent"}
InState(s) == {r \in Requests : jobs[r].state = s}

-----------------------------------------------------------------------------
(* Time, expiry and saving.                                                 *)

\* The durable clock never follows the wall clock backwards.
Now == IF clock > lastTime THEN clock ELSE lastTime

Overdue(r) == jobs[r].state = "queued" /\ Now >= jobs[r].expires_at

\* Every operation first expires overdue queued work, whoever owns it.
Swept ==
  [r \in Requests |->
     IF Overdue(r)
       THEN [jobs[r] EXCEPT !.state = "expired", !.finished_at = Now]
       ELSE jobs[r]]

\* Touch the durable clock and replace the ledger when something changed.
Save(records) ==
  /\ jobs' = records
  /\ lastTime' = IF records = jobs THEN lastTime ELSE Now

\* An operation whose only effect is the expiry sweep.
SweepOnly ==
  /\ Save(Swept)
  /\ UNCHANGED <<draining, lastSequence, clock, slot, task, work>>

-----------------------------------------------------------------------------
(* Client operations.                                                       *)

NewJob(o, d) ==
  [NoJob EXCEPT !.state = "queued", !.owner = o, !.digest = d,
                !.sequence = lastSequence + 1,
                !.created_at = Now, !.expires_at = Now + QueueTTL]

\* Records the queue holds once overdue work is expired.
Waiting == {r \in Requests : jobs[r].state = "queued" /\ ~Overdue(r)}

QueueFull == Cardinality(Waiting) >= MaxQueueLength

\* Mutant: one operation too many.
StoreFullLate == Cardinality(Present) > MaxOperations

StoreFull == Cardinality(Present) >= MaxOperations

Admissible == ~draining /\ ~StoreFull /\ ~QueueFull

\* submit of a new request.
Admit(r, o, d) ==
  /\ jobs[r].state = "absent"
  /\ Admissible
  /\ Save([Swept EXCEPT ![r] = NewJob(o, d)])
  /\ lastSequence' = lastSequence + 1
  /\ UNCHANGED <<draining, clock, slot, task, work>>

\* submit refused: draining, a full store or queue, or no room left under the
\* encoded-size ceiling, which may be hit at any time as sizes are not modelled.
Refuse(r) ==
  /\ jobs[r].state = "absent"
  /\ SweepOnly

\* submit of the same request again, by the same owner.
Replay(r, o, d) ==
  /\ jobs[r].state # "absent"
  /\ jobs[r].owner = o
  /\ jobs[r].digest = d
  /\ SweepOnly

Status(r, o) ==
  /\ jobs[r].state # "absent"
  /\ jobs[r].owner = o
  /\ SweepOnly

\* Queued work ends at once, running work is asked to stop.
Cancelled(record) ==
  IF record.state = "queued"
    THEN [record EXCEPT !.state = "cancelled", !.cancel_requested = TRUE,
                        !.finished_at = Now]
    ELSE [record EXCEPT !.cancel_requested = @ \/ record.state = "running"]

Cancel(r, o) ==
  /\ jobs[r].state # "absent"
  /\ jobs[r].owner = o
  /\ Save([Swept EXCEPT ![r] = Cancelled(Swept[r])])
  /\ UNCHANGED <<draining, lastSequence, clock, slot, task, work>>

SetDraining(b) ==
  /\ jobs' = Swept
  /\ lastTime' = IF Swept = jobs /\ draining = b THEN lastTime ELSE Now
  /\ draining' = b
  /\ UNCHANGED <<lastSequence, clock, slot, task, work>>

-----------------------------------------------------------------------------
(* The worker lease: a flock on an inheritable descriptor.  It is free only  *)
(* when the process that took it and every child that inherited the          *)
(* descriptor have closed it.                                               *)

\* Mutant: the descriptor is not inheritable.
SlotFreeOfWorkers == \A w \in Workers : lease[w] = None

SlotFree == heirs = {} /\ \A w \in Workers : lease[w] = None

\* A random token: different from every token still recorded anywhere.
Fresh(t) ==
  /\ t \notin heirs
  /\ \A w \in Workers : lease[w] # t /\ task[w].interrupted # t
  /\ \A r \in Requests : jobs[r].lease_id # t

Acquire(w, t) ==
  /\ SlotFree
  /\ Fresh(t)
  /\ lease' = [lease EXCEPT ![w] = t]
  /\ UNCHANGED <<ledger, clock, heirs, task, work>>

\* A child starts with the lease descriptor in pass_fds.
Inherit(w) ==
  /\ lease[w] # None
  /\ heirs' = heirs \cup {lease[w]}
  /\ UNCHANGED <<ledger, clock, lease, task, work>>

HeirExits(t) ==
  /\ t \in heirs
  /\ heirs' = heirs \ {t}
  /\ UNCHANGED <<ledger, clock, lease, task, work>>

\* The worker context ends or its process dies; either way the lease becomes
\* unusable and everything the process knew is gone.
Exit(w) ==
  /\ lease[w] # None
  /\ lease' = [lease EXCEPT ![w] = None]
  /\ task' = [task EXCEPT ![w] = Idle]
  /\ UNCHANGED <<ledger, clock, heirs, work>>

Ready(w) == lease[w] # None /\ task[w] = Idle

\* Mutant: the claim is not compared with this lease.
ActiveClaimOfAny(w, r) == jobs[r].state = "running"

ActiveClaim(w, r) == jobs[r].state = "running" /\ jobs[r].lease_id = lease[w]

-----------------------------------------------------------------------------
(* Claiming.                                                                *)

\* An unresolved running record refuses every claim, a drain yields none.
Claimable == InState("running") = {} /\ ~draining

\* The claim of the earliest admitted request among those offered.
ClaimFrom(w, offered) ==
  /\ Ready(w)
  /\ Claimable
  /\ \E r \in offered :
       /\ \A q \in offered : jobs[r].sequence <= jobs[q].sequence
       /\ Save([Swept EXCEPT ![r].state = "running", ![r].started_at = Now,
                             ![r].lease_id = lease[w]])
  /\ UNCHANGED <<draining, lastSequence, clock, slot, task, work>>

\* Mutant: any waiting request, not the earliest.
ClaimAny(w) == \E r \in Waiting \ Nested : ClaimFrom(w, {r})

\* The FIFO claim of the worker loop passes over nested requests.
ClaimOldest(w) == ClaimFrom(w, Waiting \ Nested)

\* The claim of one nested request for the runner lease that admitted it.
ClaimExact(w, r) == r \in Nested /\ ClaimFrom(w, Waiting \cap {r})

\* No claim: draining, an unresolved running record, nothing offered, or an
\* exact request whose identity does not match.
ClaimNothing(w) == Ready(w) /\ SweepOnly

\* The claimed build starts under supervision (run_systemd_build).
StartWork(w, r) ==
  /\ Ready(w)
  /\ ActiveClaim(w, r)
  /\ work' = work \cup {r}
  /\ UNCHANGED <<ledger, clock, slot, task>>

\* It ends by itself, on a stop, or through recovery's cleanup.
StopWork(r) ==
  /\ r \in work
  /\ work' = work \ {r}
  /\ UNCHANGED <<ledger, clock, slot, task>>

-----------------------------------------------------------------------------
(* Finishing and recovery.                                                  *)

Ended(record, outcome) ==
  [record EXCEPT !.state = outcome, !.finished_at = Now, !.lease_id = None,
                 !.artifact = (outcome = "succeeded")]

\* finish(succeeded), first locked section: the claim is checked before the
\* artifact is validated outside the lock.  A cancelled build is refused here.
FinishVerify(w, r) ==
  /\ Ready(w)
  /\ r \notin work
  /\ ActiveClaim(w, r)
  /\ Save(Swept)
  /\ task' = IF jobs[r].cancel_requested THEN task
             ELSE [task EXCEPT ![w] = [Idle EXCEPT !.step = "verified", !.request = r]]
  /\ UNCHANGED <<draining, lastSequence, clock, slot, work>>

\* Mutant: a cancellation that arrived between the sections is overlooked.
FinishUnrechecked(w, r) ==
  /\ lease[w] # None
  /\ task[w].step = "verified"
  /\ task[w].request = r
  /\ ActiveClaim(w, r)
  /\ Save([Swept EXCEPT ![r] = Ended(jobs[r], "succeeded")])
  /\ task' = [task EXCEPT ![w] = Idle]
  /\ UNCHANGED <<draining, lastSequence, clock, slot, work>>

\* finish(succeeded), second locked section.
FinishSucceeded(w, r) ==
  /\ lease[w] # None
  /\ task[w].step = "verified"
  /\ task[w].request = r
  /\ ActiveClaim(w, r)
  /\ ~jobs[r].cancel_requested
  /\ Save([Swept EXCEPT ![r] = Ended(jobs[r], "succeeded")])
  /\ task' = [task EXCEPT ![w] = Idle]
  /\ UNCHANGED <<draining, lastSequence, clock, slot, work>>

\* Mutant: the caller does not verify that the supervised work stopped.
FinishRunningWork(w, r, outcome) ==
  /\ Ready(w)
  /\ ActiveClaim(w, r)
  /\ outcome = "cancelled" => jobs[r].cancel_requested
  /\ Save([Swept EXCEPT ![r] = Ended(jobs[r], outcome)])
  /\ UNCHANGED <<draining, lastSequence, clock, slot, task, work>>

\* finish with any other outcome; the caller states that all work stopped.
FinishOther(w, r, outcome) ==
  /\ Ready(w)
  /\ r \notin work
  /\ ActiveClaim(w, r)
  /\ outcome = "cancelled" => jobs[r].cancel_requested
  /\ Save([Swept EXCEPT ![r] = Ended(jobs[r], outcome)])
  /\ UNCHANGED <<draining, lastSequence, clock, slot, task, work>>

\* recover_interrupted, first locked section, before the cleanup callback.
RecoverBegin(w, r) ==
  /\ Ready(w)
  /\ jobs[r].state = "running"
  /\ jobs[r].lease_id # lease[w]
  /\ Save(Swept)
  /\ task' = [task EXCEPT ![w] = [step |-> "recovering", request |-> r,
                                  interrupted |-> jobs[r].lease_id]]
  /\ UNCHANGED <<draining, lastSequence, clock, slot, work>>

\* recover_interrupted, second locked section: cleanup verified that the work
\* stopped and the interrupted claim is still the one seen before.
RecoverCommit(w, r) ==
  /\ lease[w] # None
  /\ task[w].step = "recovering"
  /\ task[w].request = r
  /\ r \notin work
  /\ jobs[r].state = "running"
  /\ jobs[r].lease_id = task[w].interrupted
  /\ Save([Swept EXCEPT ![r] = Ended(jobs[r], "uncertain")])
  /\ task' = [task EXCEPT ![w] = Idle]
  /\ UNCHANGED <<draining, lastSequence, clock, slot, work>>

\* Between the two sections: the artifact does not match, a cancellation
\* arrived, or the cleanup callback did not verify.  The method raises.
Abandon(w) ==
  /\ lease[w] # None
  /\ task[w] # Idle
  /\ task' = [task EXCEPT ![w] = Idle]
  /\ UNCHANGED <<ledger, clock, slot, work>>

-----------------------------------------------------------------------------

\* The wall clock may jump either way between two operations.
SetClock(t) ==
  /\ clock' = t
  /\ UNCHANGED <<ledger, slot, task, work>>

Init ==
  /\ jobs = [r \in Requests |-> NoJob]
  /\ draining = FALSE
  /\ lastSequence = 0
  /\ lastTime = 0
  /\ clock = 0
  /\ lease = [w \in Workers |-> None]
  /\ heirs = {}
  /\ task = [w \in Workers |-> Idle]
  /\ work = {}

ClientNext ==
  \/ \E r \in Requests, o \in Owners :
       \/ \E d \in Digests : Admit(r, o, d) \/ Replay(r, o, d)
       \/ Status(r, o)
       \/ Cancel(r, o)
  \/ \E r \in Requests : Refuse(r)
  \/ \E b \in BOOLEAN : SetDraining(b)

SlotNext ==
  \/ \E w \in Workers, t \in Tokens : Acquire(w, t)
  \/ \E w \in Workers : Inherit(w) \/ Exit(w)
  \/ \E t \in Tokens : HeirExits(t)

WorkerNext ==
  \/ \E w \in Workers : ClaimOldest(w) \/ ClaimNothing(w) \/ Abandon(w)
  \/ \E w \in Workers, r \in Requests :
       \/ ClaimExact(w, r)
       \/ StartWork(w, r)
       \/ FinishVerify(w, r) \/ FinishSucceeded(w, r)
       \/ \E outcome \in {"failed", "cancelled", "uncertain"} :
            FinishOther(w, r, outcome)
       \/ RecoverBegin(w, r) \/ RecoverCommit(w, r)
  \/ \E r \in Requests : StopWork(r)

Next ==
  \/ ClientNext
  \/ SlotNext
  \/ WorkerNext
  \/ \E t \in 0 .. MaxTime : SetClock(t)

Spec == Init /\ [][Next]_vars

-----------------------------------------------------------------------------
(* What _validate_record and _validate_state demand of every ledger that is  *)
(* read or written.                                                         *)

RecordValid(record) ==
  LET started  == record.started_at # NoTime
      finished == record.finished_at # NoTime
  IN
  /\ record.owner # None /\ record.digest # None
  /\ record.sequence \in 1 .. MaxOperations
  /\ record.created_at >= 0
  /\ record.expires_at > record.created_at
  /\ started => record.started_at \in record.created_at .. record.expires_at - 1
  /\ finished => record.finished_at >= record.created_at
  /\ started /\ finished => record.finished_at >= record.started_at
  /\ record.artifact <=> record.state = "succeeded"
  /\ (record.lease_id # None) <=> record.state = "running"
  /\ finished <=> record.state \in Terminal
  /\ record.state \in {"queued", "expired"} => ~started
  /\ record.state \in {"running", "succeeded", "failed", "uncertain"} => started
  /\ record.state \in {"queued", "succeeded", "expired"} => ~record.cancel_requested
  /\ record.state = "cancelled" => record.cancel_requested

SequencesValid ==
  /\ lastSequence = Cardinality(Present)
  /\ lastSequence \in 0 .. MaxOperations
  /\ \A r \in Present : jobs[r].sequence \in 1 .. lastSequence
  /\ \A r, q \in Present : jobs[r].sequence = jobs[q].sequence => r = q

ClockValid(record, time) ==
  /\ record.created_at <= time
  /\ record.started_at <= time
  /\ record.finished_at <= time
  /\ record.state = "queued" => record.expires_at > time
  /\ record.state = "expired" => record.finished_at >= record.expires_at

OneClaim == \A r, q \in InState("running") : r = q

StateValid ==
  /\ \A r \in Present : RecordValid(jobs[r]) /\ ClockValid(jobs[r], lastTime)
  /\ SequencesValid
  /\ OneClaim

-----------------------------------------------------------------------------
(* Properties.                                                              *)

\* Types of the variables.
TypeOK ==
  /\ jobs \in [Requests -> Job]
  /\ draining \in BOOLEAN
  /\ lastSequence \in Nat
  /\ lastTime \in Nat
  /\ clock \in Nat
  /\ lease \in [Workers -> Tokens \cup {None}]
  /\ heirs \subseteq Tokens
  /\ task \in [Workers -> Tasks]
  /\ work \subseteq Requests

\* The validation in _save never refuses what an operation computed, and the
\* one in _load never refuses what was saved, however the wall clock jumps
\* between operations: no operation can wedge the ledger.
LedgerValid == StateValid

\* worker() yields the host slot to one lease at a time, counting leases whose
\* process is gone while a child keeps the inherited descriptor open.
SlotExclusive ==
  /\ \A v, w \in Workers : lease[v] # None /\ lease[w] # None => v = w
  /\ \A t \in heirs : \A w \in Workers : lease[w] \in {None, t}
  /\ \A t, u \in heirs : t = u

\* At most one build executes on the host, and only under a running record:
\* also after a worker died and left its build behind, since the retained
\* claim refuses every other claim until recovery verified the cleanup.
OneBuildAtATime ==
  /\ \A r \in work : jobs[r].state = "running"
  /\ \A r, q \in work : r = q

\* Between the two sections of finish and of recover_interrupted the worker
\* still holds its lease, and a build whose artifact was checked stays stopped.
TasksSettled ==
  \A w \in Workers :
    /\ task[w].step # "idle" => lease[w] # None
    /\ task[w].step = "verified" => task[w].request \notin work

\* The conjunction of these is inductive: what keeps a second build from
\* starting is the retained running record, not the worker lease alone.
JobsInv ==
  /\ TypeOK
  /\ LedgerValid
  /\ SlotExclusive
  /\ OneBuildAtATime
  /\ TasksSettled

\* Ordinary requests start in admission order, whatever the clock does: no
\* request starts while one admitted before it is still queued.
NoOvertaking ==
  \A p, q \in Present \ Nested :
    jobs[p].sequence < jobs[q].sequence /\ jobs[q].started_at # NoTime =>
      /\ jobs[p].state # "queued"
      /\ jobs[p].started_at <= jobs[q].started_at

\* A claim whose lease is gone is never finished as if its worker were still
\* there: it stays running until recovery makes it uncertain.
InterruptedOnlyUncertain ==
  [][\A r \in Requests :
       /\ jobs[r].state = "running"
       /\ \A w \in Workers : lease[w] # jobs[r].lease_id
       => jobs'[r].state \in {"running", "uncertain"}]_vars

\* The ledger and its workers implement the promise made to clients: receipts
\* are final and a cancellation is not overtaken by success.
Lifecycle ==
  INSTANCE JobLifecycle WITH
    phase     <- [r \in Requests |-> jobs[r].state],
    cancelled <- {r \in Requests : jobs[r].cancel_requested}

ImplementsLifecycle == Lifecycle!Spec

=============================================================================
