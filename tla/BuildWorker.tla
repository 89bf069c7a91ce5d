------------------------------ MODULE BuildWorker ------------------------------
(***************************************************************************)
(* One worker run over the durable ledger (lib/build_worker.py, run_next):   *)
(* claim, scratch filesystem, supervised build, bundle, receipt.  Any        *)
(* unconfirmed outcome raises, which ends the lease and leaves the running   *)
(* claim and all evidence behind; so does the death of the process.          *)
(*                                                                         *)
(* The supervised build is BuildExecution seen from outside: it runs, and    *)
(* an outcome is only returned once it stopped.  Each reading of the         *)
(* cancellation status is a step of its own, except where nothing can tell   *)
(* a cancellation just after the reading from one just after the next step.  *)
(*                                                                         *)
(* An operator marked "Mutant" is a plausible bug in the definition that     *)
(* follows it, there to show that some property would notice.                *)
(***************************************************************************)
EXTENDS BuildJobs

VARIABLES
  at,        \* where each worker stands in run_next
  job,       \* the request it claimed
  scratch,   \* requests whose scratch filesystem is mounted
  bundles,   \* requests whose bundle is published
  launched   \* history: requests whose build was ever dispatched

run  == <<at, job, scratch, bundles, launched>>
all  == <<vars, run>>

\* Before the launch, around it, and after the build stopped.
Preparing == {"claimed", "prepared", "dispatching"}
Settling  == {"failing", "swept", "failed", "cancelling",
              "published", "released", "finishing", "refused"}
Places    == {"idle", "leased", "executing", "built", "done"} \cup Preparing \cup Settling

CancelRequested(w) == jobs[job[w]].cancel_requested

GoTo(w, place) == at' = [at EXCEPT ![w] = place]

-----------------------------------------------------------------------------
(* Taking the lease and a claim.                                            *)

TakeLease(w) ==
  /\ \E t \in Tokens : Acquire(w, t)
  /\ GoTo(w, "leased")
  /\ UNCHANGED <<job, scratch, bundles, launched>>

\* Without a claim run_next returns.
Claim(w) ==
  /\ at[w] = "leased"
  /\ \/ /\ ClaimOldest(w) \/ \E r \in Nested : ClaimExact(w, r)
        /\ job' = [job EXCEPT ![w] =
                     CHOOSE r \in Requests : jobs'[r].lease_id = lease[w]]
        /\ GoTo(w, "claimed")
     \/ ClaimNothing(w) /\ GoTo(w, "done") /\ UNCHANGED job
  /\ UNCHANGED <<scratch, bundles, launched>>

-----------------------------------------------------------------------------
(* What a run leaves on the host.                                            *)

\* create_scratch: exclusive, it never takes over what another attempt left.
MountScratch(r) ==
  /\ r \notin scratch
  /\ scratch' = scratch \cup {r}

\* ScratchHandle.release: unmount, then remove image and marker.
UnmountScratch(r) == scratch' = scratch \ {r}

\* create_artifact: linked under its final name once complete.
PublishBundle(r) == bundles' = bundles \cup {r}

-----------------------------------------------------------------------------
(* Preparing and executing.                                                 *)

Step(w, from, to) ==
  /\ at[w] = from
  /\ GoTo(w, to)
  /\ UNCHANGED <<vars, job, bundles>>

\* A cancellation was read, authorization was denied, or source, manifest or
\* tools were rejected: a known failure.  Once the bundle is published, only a
\* cancellation is one.
Reject(w) ==
  /\ at[w] = "published" => CancelRequested(w)
  /\ \E place \in {"claimed", "prepared", "built", "published"} : Step(w, place, "failing")
  /\ UNCHANGED <<scratch, launched>>

\* First authorization, then the scratch filesystem: it must not exist yet.
CreateScratch(w) ==
  /\ Step(w, "claimed", "prepared")
  /\ ~CancelRequested(w)
  /\ MountScratch(job[w])
  /\ UNCHANGED launched

\* Source, manifest, layout and the second authorization were accepted.
Provision(w) ==
  /\ Step(w, "prepared", "dispatching")
  /\ ~CancelRequested(w)
  /\ UNCHANGED <<scratch, launched>>

\* Mutant: a launch that is not confirmed is tried again.
DispatchAgain(w) ==
  /\ at[w] = "dispatching"
  /\ IF CancelRequested(w)
       THEN GoTo(w, "failing") /\ UNCHANGED <<vars, launched>>
       ELSE /\ StartWork(w, job[w])
            /\ GoTo(w, "executing") \/ GoTo(w, "dispatching")
            /\ launched' = launched \cup {job[w]}
  /\ UNCHANGED <<job, scratch, bundles>>

\* run_systemd_build launches the unit, or finds the build cancelled.
Dispatch(w) ==
  /\ at[w] = "dispatching"
  /\ IF CancelRequested(w)
       THEN GoTo(w, "failing") /\ UNCHANGED <<vars, launched>>
       ELSE /\ StartWork(w, job[w])
            /\ GoTo(w, "executing")
            /\ launched' = launched \cup {job[w]}
  /\ UNCHANGED <<job, scratch, bundles>>

\* Mutant: a failed main process is reported although descendants still run.
ReturnedEarly(w) ==
  /\ \/ Step(w, "executing", "built") /\ job[w] \notin work
     \/ Step(w, "executing", "failing")
  /\ UNCHANGED <<scratch, launched>>

\* run_systemd_build returns an outcome: the build has stopped.
Returned(w) ==
  /\ job[w] \notin work
  /\ Step(w, "executing", "built") \/ Step(w, "executing", "failing")
  /\ UNCHANGED <<scratch, launched>>

\* Mutant: the receipt is prepared from the checkout, publication comes later.
PublishLater(w) ==
  /\ at[w] = "built"
  /\ ~CancelRequested(w)
  /\ GoTo(w, "published")
  /\ UNCHANGED <<vars, job, scratch, bundles, launched>>

\* create_artifact and its verification.
Publish(w) ==
  /\ at[w] = "built"
  /\ ~CancelRequested(w)
  /\ GoTo(w, "published")
  /\ PublishBundle(job[w])
  /\ UNCHANGED <<vars, job, scratch, launched>>

-----------------------------------------------------------------------------
(* _finish_known_failure and _finish_success.                               *)

\* The scratch filesystem is released before the outcome is decided.
Release(w) ==
  /\ \/ Step(w, "published", "released") /\ ~CancelRequested(w)
     \/ Step(w, "failing", "swept")
  /\ UnmountScratch(job[w])
  /\ UNCHANGED launched

\* Mutant: every known failure is a failure.
ReadOutcomeFailed(w) ==
  /\ \/ Step(w, "released", IF CancelRequested(w) THEN "cancelling" ELSE "finishing")
     \/ Step(w, "swept", "failed")
     \/ Step(w, "refused", "cancelling")
  /\ UNCHANGED <<scratch, launched>>

\* The cancellation status decides between cancelled and the other outcome; a
\* receipt refused without a cancellation is unconfirmed and raises.
ReadOutcome(w) ==
  /\ \/ Step(w, "released", IF CancelRequested(w) THEN "cancelling" ELSE "finishing")
     \/ Step(w, "swept", IF CancelRequested(w) THEN "cancelling" ELSE "failed")
     \/ Step(w, "refused", "cancelling") /\ CancelRequested(w)
  /\ UNCHANGED <<scratch, launched>>

\* finish(failed) and finish(cancelled).
FinishStopped(w) ==
  /\ \/ at[w] = "cancelling" /\ FinishOther(w, job[w], "cancelled")
     \/ at[w] = "failed" /\ FinishOther(w, job[w], "failed")
  /\ GoTo(w, "done")
  /\ UNCHANGED <<job, scratch, bundles, launched>>

\* finish(succeeded): both sections may refuse a cancellation they find, and
\* the artifact checked in between may not match.
FinishReceipt(w) ==
  /\ at[w] = "finishing"
  /\ \/ /\ FinishVerify(w, job[w])
        /\ GoTo(w, IF CancelRequested(w) THEN "refused" ELSE "finishing")
     \/ FinishSucceeded(w, job[w]) /\ GoTo(w, "done")
     \/ Abandon(w) /\ GoTo(w, "refused")
  /\ UNCHANGED <<job, scratch, bundles, launched>>

-----------------------------------------------------------------------------
(* The end of a run, and others.                                            *)

\* run_next returns, raises, or its process dies; the unit, the mount and the
\* bundle survive it.
EndRun(w) ==
  /\ Exit(w)
  /\ GoTo(w, "idle")
  /\ job' = [job EXCEPT ![w] = None]
  /\ UNCHANGED <<scratch, bundles, launched>>

\* An administrator's recovery of an interrupted claim, through a lease of its
\* own.  Its cleanup verifies that the work stopped; evidence is kept.
Recover(w) ==
  /\ at[w] = "leased"
  /\ \/ \E r \in Requests : RecoverBegin(w, r) \/ RecoverCommit(w, r)
     \/ Abandon(w)
  /\ UNCHANGED run

\* The supervised build ends by itself or is stopped.
BuildStops == (\E r \in Requests : StopWork(r)) /\ UNCHANGED run

Clients == ClientNext /\ UNCHANGED run

ClockMoves == (\E t \in 0 .. MaxTime : SetClock(t)) /\ UNCHANGED run

RunInit ==
  /\ Init
  /\ at = [w \in Workers |-> "idle"]
  /\ job = [w \in Workers |-> None]
  /\ scratch = {}
  /\ bundles = {}
  /\ launched = {}

\* What a living worker does next.
RunStep(w) ==
  \/ Claim(w) \/ Reject(w) \/ CreateScratch(w) \/ Provision(w) \/ Dispatch(w)
  \/ Returned(w) \/ Publish(w)
  \/ Release(w) \/ ReadOutcome(w) \/ FinishStopped(w) \/ FinishReceipt(w)

RunNext ==
  \/ \E w \in Workers : TakeLease(w) \/ RunStep(w) \/ EndRun(w) \/ Recover(w)
  \/ BuildStops \/ Clients \/ ClockMoves

\* A worker process that lives makes progress, and a build that is cancelled
\* is stopped (BuildExecution, Ends).  Nobody recovers a claim by itself.
RunFairness ==
  /\ \A w \in Workers : WF_all(RunStep(w))
  /\ \A r \in Requests : WF_all(jobs[r].cancel_requested /\ StopWork(r) /\ UNCHANGED run)

RunSpec == RunInit /\ [][RunNext]_all /\ RunFairness

-----------------------------------------------------------------------------
(* Properties.                                                              *)

\* What run_next promises when it calls release and finish with
\* work_stopped=True: the claim is its own, still running, and nothing of the
\* build executes.  BuildJobs takes this for granted.
PromisesKept ==
  \A w \in Workers :
    at[w] \in Settling => ActiveClaim(w, job[w]) /\ job[w] \notin work

\* A definite receipt leaves no scratch filesystem behind; only a running or
\* an uncertain job may still hold one.
ScratchAccounted == \A r \in scratch : jobs[r].state \in {"running", "uncertain"}

\* A succeeded job has a published bundle, although a bundle may outlive a
\* build that was cancelled in the end.
ReceiptBacked == \A r \in Requests : jobs[r].state = "succeeded" => r \in bundles

\* A definite receipt tells the truth about the disk: no scratch filesystem is
\* left behind, and a success has its bundle, whichever worker died when.
ReceiptTrue == ScratchAccounted /\ ReceiptBacked

\* No request is ever executed twice, whichever worker died when.
NeverReplayed == [][\A r \in work' \ work : r \notin launched]_all

\* Types of what a run adds to the ledger.
RunTypeOK ==
  /\ at \in [Workers -> Places]
  /\ job \in [Workers -> Requests \cup {None}]
  /\ scratch \subseteq Requests
  /\ bundles \subseteq Requests
  /\ launched \subseteq Requests

\* A worker is somewhere in run_next for as long as it holds a lease, and the
\* lease is in no record before its claim.
LeaseInHand ==
  \A w \in Workers :
    /\ at[w] = "idle" <=> lease[w] = None
    /\ at[w] = "leased" => \A r \in Requests : jobs[r].lease_id # lease[w]

\* From its claim to its receipt the running record is the worker's own, and
\* only between the launch and the outcome does anything execute.
ClaimInHand ==
  \A w \in Workers :
    at[w] \notin {"idle", "leased", "done"} =>
      /\ job[w] \in Requests
      /\ ActiveClaim(w, job[w])
      /\ at[w] # "executing" => job[w] \notin work
      /\ at[w] \in Preparing => job[w] \notin launched

\* What was released and what was published, by position.
TracesKnown ==
  \A w \in Workers :
    /\ at[w] \in Settling \ {"failing", "published"} => job[w] \notin scratch
    /\ at[w] \in {"published", "released", "finishing"} => job[w] \in bundles

\* What was launched was claimed, and is never queued again.
LaunchedOnce == \A r \in launched : jobs[r].state \notin {"absent", "queued"}

\* The conjunction of these is inductive.  JobsInv carries it: one lease, so
\* that no other worker can end this claim, and one running record, so that a
\* claim finds no build executing.
RunInv ==
  /\ JobsInv
  /\ RunTypeOK
  /\ LeaseInHand
  /\ ClaimInHand
  /\ TracesKnown
  /\ LaunchedOnce
  /\ ScratchAccounted
  /\ ReceiptBacked

\* A cancellation recorded while its build runs ends in a cancelled receipt,
\* never in a success or a failure, unless the worker had already read the
\* status for the last time, or gives up its lease and leaves the claim to
\* recovery.
CancelledBuildEnds ==
  \A r \in Requests :
    (/\ jobs[r].state = "running"
     /\ jobs[r].cancel_requested
     /\ \A w \in Workers : at[w] = "failed" => job[w] # r)
      ~> (\/ jobs[r].state = "cancelled"
          \/ \A w \in Workers : lease[w] # jobs[r].lease_id)

=============================================================================
