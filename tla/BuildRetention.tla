---------------------------- MODULE BuildRetention ----------------------------
(***************************************************************************)
(* The retained storage of one build host: uploads admitted with a full      *)
(* reservation (lib/build_inputs.py), and the settlement, pruning and bundle  *)
(* release that credit it (lib/build_retention.py).                          *)
(*                                                                         *)
(* Three directories hold one intent, one source (.part until published) and *)
(* one staged intent per request, one log, and one bundle.  Every directory  *)
(* has a cached and a durable state; a power loss leaves either, for each    *)
(* directory on its own, and fsync makes the cached one durable.             *)
(*                                                                         *)
(* Whoever changes the inputs directory holds its lock for the whole         *)
(* operation, so at most one is under way: "op".  Digests, identities and     *)
(* revisions are what they are compared for: which payloads were recorded.   *)
(* A payload and the metadata of a request cost one unit each.  The job      *)
(* ledger is BuildJobs, reduced to the state of each job; it is durable.     *)
(*                                                                         *)
(* An operator marked "Mutant" is a plausible bug in the definition that     *)
(* follows it, there to show that some property would notice.                *)
(***************************************************************************)
EXTENDS Naturals, FiniteSets, FiniteSetsExt

CONSTANTS
  Requests,     \* request IDs
  Reservation,  \* reservation_bytes: payloads, metadata and scratch
  MaxBytes,     \* max_bytes of the input store
  MaxFaults,    \* bound on failures, deaths and power losses
  None          \* no request, no worker

ASSUME BuildRetentionAssumption ==
  /\ IsFiniteSet(Requests)
  /\ None \notin Requests
  /\ Reservation \in Nat /\ Reservation >= 4
  /\ MaxBytes \in Nat
  /\ MaxFaults \in Nat

VARIABLES
  inputs,     \* per request: intent, source, part and staged intent
  logs,       \* requests with a log
  artifacts,  \* names in the artifact root: bundles and temporaries
  disk,       \* the durable state of the three directories
  op,         \* the operation that holds the input lock
  job,        \* the state of each job in the ledger
  worker,     \* the request a living worker executes, holding the worker lease
  faults      \* faults so far

directories == <<inputs, logs, artifacts>>
vars == <<directories, disk, op, job, worker, faults>>

Kinds   == {"source", "log", "bundle"}
Certain == {"succeeded", "failed", "cancelled"}

\* An intent: its schema (pruning stands for 3 and 4), the payloads its
\* settlement recorded, those pruned and those being pruned, and its charge.
Intent(schema, recorded, done, pending, charge) ==
  [schema |-> schema, recorded |-> recorded, done |-> done,
   pending |-> pending, charge |-> charge]

Absent   == Intent("absent", {}, {}, {}, 0)
Torn     == Intent("torn", {}, {}, {}, 0)   \* created, but not all written
Reserved == Intent("reserved", {}, {}, {}, Reservation)

Intents == [schema : {"absent", "torn", "reserved", "settled", "pruning"},
            recorded : SUBSET Kinds, done : SUBSET Kinds, pending : SUBSET Kinds,
            charge : 0 .. Reservation]

Entry   == [intent : Intents, source : BOOLEAN, part : BOOLEAN, staged : Intents]
NoEntry == [intent |-> Absent, source |-> FALSE, part |-> FALSE, staged |-> Absent]

NoOp == [step |-> "none", request |-> None, target |-> Absent]
Steps == {"none", "intent", "sync-intent", "upload", "publish", "sync-source", "submit",
          "stage", "fill", "replace", "sync", "unlink"}
Maintaining == op.step \in {"stage", "fill", "replace", "sync", "unlink"}

\* A bundle, and what its publication leaves when it does not end.
Bundle(r)    == <<"bundle", r>>
Temporary(r) == <<"temporary", r>>

\* The payloads of a request, given its entry, the logs and the artifacts, and
\* those that the running system sees.
PayloadsIn(r, entry, l, a) ==
  {k \in Kinds : \/ k = "source" /\ entry.source
                 \/ k = "log" /\ r \in l
                 \/ k = "bundle" /\ Bundle(r) \in a}

Payloads(r) == PayloadsIn(r, inputs[r], logs, artifacts)

Known == {r \in Requests : inputs[r].intent.schema \notin {"absent", "torn"}}

Charged == MapThenSumSet(LAMBDA r : inputs[r].intent.charge, Known)

-----------------------------------------------------------------------------
(* Scanning, syncing and faults.                                            *)

\* What _scan_intents refuses; a staged intent is ambiguous to everybody but
\* the maintenance of its own request.
Scannable(own) ==
  /\ Charged <= MaxBytes
  /\ \A r \in Requests :
       LET entry == inputs[r] IN
       /\ entry.intent # Torn
       /\ r # own => entry.staged = Absent
       /\ entry.source \/ entry.part => r \in Known
       /\ ~(entry.source /\ entry.part)
       /\ entry.intent.schema = "pruning" =>
            /\ ~entry.part
            /\ IF entry.source THEN "source" \notin entry.intent.done
               ELSE "source" \in entry.intent.done \cup entry.intent.pending

SyncInputs == disk' = [disk EXCEPT !.inputs = inputs]

\* Reading settled intents makes them durable before their charge is used.
SyncSettled ==
  IF \E r \in Known : inputs[r].intent # Reserved THEN SyncInputs ELSE UNCHANGED disk

SetInputs(r, entry) == inputs' = [inputs EXCEPT ![r] = entry]

GoTo(step) == op' = [op EXCEPT !.step = step]

Release == op' = NoOp

Fault == faults < MaxFaults /\ faults' = faults + 1

\* The process that holds the lock dies, or an I/O error makes it give up.
Abort ==
  /\ op # NoOp
  /\ Fault
  /\ Release
  /\ UNCHANGED <<directories, disk, job, worker>>

\* Power loss: what was not synced may or may not be there.
PowerLoss ==
  /\ Fault
  /\ inputs' \in {inputs, disk.inputs}
  /\ logs' \in {logs, disk.logs}
  /\ artifacts' \in {artifacts, disk.artifacts}
  /\ disk' = [inputs |-> inputs', logs |-> logs', artifacts |-> artifacts']
  /\ Release
  /\ worker' = None
  /\ UNCHANGED job

-----------------------------------------------------------------------------
(* Admission: BuildInputStore.admit.                                        *)

\* Mutant: what is reserved is not compared with the limit.
HasRoomForCharge == Charged <= MaxBytes

HasRoom == Charged + Reservation <= MaxBytes

\* A new intent is created exclusively, then written and synced.
CreateIntent(r) ==
  /\ op = NoOp
  /\ Scannable(None)
  /\ inputs[r].intent = Absent
  /\ HasRoom
  /\ SetInputs(r, [inputs[r] EXCEPT !.intent = Torn])
  /\ SyncSettled
  /\ op' = [NoOp EXCEPT !.step = "intent", !.request = r]
  /\ UNCHANGED <<logs, artifacts, job, worker, faults>>

WriteIntent(r) ==
  /\ op.step = "intent" /\ op.request = r
  /\ SetInputs(r, [inputs[r] EXCEPT !.intent = Reserved])
  /\ GoTo("sync-intent")
  /\ UNCHANGED <<logs, artifacts, disk, job, worker, faults>>

SyncIntent ==
  /\ op.step = "sync-intent"
  /\ SyncInputs
  /\ GoTo("upload")
  /\ UNCHANGED <<directories, job, worker, faults>>

\* The stream may end early, be too long or not match: the part is retained.
Upload(r) ==
  /\ op.step = "upload" /\ op.request = r
  /\ SetInputs(r, [inputs[r] EXCEPT !.part = TRUE])
  /\ GoTo("publish") \/ Release
  /\ UNCHANGED <<logs, artifacts, disk, job, worker, faults>>

Publish(r) ==
  /\ op.step = "publish" /\ op.request = r
  /\ SetInputs(r, [inputs[r] EXCEPT !.part = FALSE, !.source = TRUE])
  /\ GoTo("sync-source")
  /\ UNCHANGED <<logs, artifacts, disk, job, worker, faults>>

\* The rename and the verified source are synced.
SyncSource ==
  /\ op.step = "sync-source"
  /\ SyncInputs
  /\ GoTo("submit")
  /\ UNCHANGED <<directories, job, worker, faults>>

\* The same request again verifies the published source.  An intent without
\* one is refused, and after pruning only the receipt is returned.
AdmitAgain(r) ==
  /\ op = NoOp
  /\ Scannable(None)
  /\ inputs[r].intent.schema \in {"reserved", "settled"}
  /\ inputs[r].source
  /\ SyncInputs
  /\ op' = [NoOp EXCEPT !.step = "submit", !.request = r]
  /\ UNCHANGED <<directories, job, worker, faults>>

\* jobs.submit: a known job is returned, a new one queued or refused.
Submit(r) ==
  /\ op.step = "submit" /\ op.request = r
  /\ IF job[r] = "absent" THEN job' \in {job, [job EXCEPT ![r] = "queued"]} ELSE UNCHANGED job
  /\ Release
  /\ UNCHANGED <<directories, disk, worker, faults>>

-----------------------------------------------------------------------------
(* The worker, as far as it touches the retained files.                     *)

\* The worker lease excludes maintenance, and an unresolved claim every other.
StartJob(r) ==
  /\ worker = None
  /\ ~Maintaining
  /\ job[r] = "queued"
  /\ \A q \in Requests : job[q] # "running"
  /\ job' = [job EXCEPT ![r] = "running"]
  /\ worker' = r
  /\ UNCHANGED <<directories, disk, op, faults>>

CreateLog(r) ==
  /\ worker = r
  /\ r \notin logs
  /\ logs' = logs \cup {r}
  /\ disk' = [disk EXCEPT !.logs = logs']
  /\ UNCHANGED <<inputs, artifacts, op, job, worker, faults>>

StageBundle(r) ==
  /\ worker = r
  /\ r \in logs
  /\ Bundle(r) \notin artifacts
  /\ artifacts' = artifacts \cup {Temporary(r)}
  /\ UNCHANGED <<inputs, logs, disk, op, job, worker, faults>>

\* The link is synced, the removal of the temporary that follows is not.
PublishBundle(r) ==
  /\ worker = r
  /\ Temporary(r) \in artifacts
  /\ artifacts' = (artifacts \ {Temporary(r)}) \cup {Bundle(r)}
  /\ disk' = [disk EXCEPT !.artifacts = artifacts \cup {Bundle(r)}]
  /\ UNCHANGED <<inputs, logs, op, job, worker, faults>>

\* A rejected artifact is cleaned up before the job is finished.
DropBundle(r) ==
  /\ worker = r
  /\ Temporary(r) \in artifacts
  /\ artifacts' = artifacts \ {Temporary(r)}
  /\ UNCHANGED <<inputs, logs, disk, op, job, worker, faults>>

FinishJob(r, outcome) ==
  /\ worker = r
  /\ Temporary(r) \notin artifacts
  /\ outcome = "succeeded" => Bundle(r) \in artifacts
  /\ job' = [job EXCEPT ![r] = outcome]
  /\ worker' = None
  /\ UNCHANGED <<directories, disk, op, faults>>

\* A worker that dies leaves its claim running, until it becomes uncertain.
WorkerDies ==
  /\ worker # None
  /\ Fault
  /\ worker' = None
  /\ UNCHANGED <<directories, disk, op, job>>

RecoverJob(r) ==
  /\ job[r] = "running"
  /\ worker = None
  /\ ~Maintaining
  /\ job' = [job EXCEPT ![r] = "uncertain"]
  /\ UNCHANGED <<directories, disk, op, worker, faults>>

\* Cancelled or expired before it ran.
EndQueued(r) ==
  /\ job[r] = "queued"
  /\ job' = [job EXCEPT ![r] = "cancelled"]
  /\ UNCHANGED <<directories, disk, op, worker, faults>>

-----------------------------------------------------------------------------
(* Maintenance: BuildRetentionStore._operate.                               *)

\* The intents maintenance derives from the present one.
Settled(r) ==
  Intent("settled", Payloads(r), {}, {}, 1 + Cardinality(Payloads(r)))

Pruning(intent, kinds) == [intent EXCEPT !.schema = "pruning", !.pending = kinds]

\* Mutant: payloads that settlement did not record are credited as well.
PrunedUnrecorded(intent) ==
  [intent EXCEPT !.pending = {}, !.done = @ \cup intent.pending,
                 !.charge = IF @ > Cardinality(intent.pending)
                              THEN @ - Cardinality(intent.pending) ELSE 0]

Pruned(intent) ==
  [intent EXCEPT !.pending = {}, !.done = @ \cup intent.pending,
                 !.charge = @ - Cardinality(intent.pending \cap intent.recorded)]

\* What _plan accepts: a certain terminal job whose payloads are those its
\* settlement recorded, less what was or is being pruned, and no publication
\* anywhere that was interrupted.
Plannable(r) ==
  LET intent == inputs[r].intent IN
  /\ job[r] \in Certain
  /\ ~inputs[r].part
  /\ \A q \in Requests : Temporary(q) \notin artifacts
  /\ IF intent.schema = "reserved"
       THEN /\ inputs[r].source
            /\ job[r] = "succeeded" => Payloads(r) = Kinds
       ELSE /\ intent.recorded \ (intent.done \cup intent.pending) \subseteq Payloads(r)
            /\ Payloads(r) \subseteq intent.recorded \ intent.done

\* The locks a maintenance operation takes, and what it verifies under them.
Maintainable(r) ==
  /\ op = NoOp
  /\ worker = None
  /\ r \in Known
  /\ Scannable(r)
  /\ Plannable(r)

\* Mutant: only the pending intent itself is recognised, not its completion.
DiscardStagedPending(r, candidates) ==
  /\ inputs[r].staged \in {Absent} \cup {c \in candidates : c.pending # {} \/ c.done = {}}
  /\ IF inputs[r].staged = Absent
       THEN SyncSettled /\ UNCHANGED inputs
       ELSE /\ SetInputs(r, [inputs[r] EXCEPT !.staged = Absent])
            /\ disk' = [disk EXCEPT !.inputs = inputs']

\* A staged intent of an interrupted attempt is discarded when it is one this
\* operation would stage itself, and refused otherwise.
DiscardStaged(r, candidates) ==
  /\ inputs[r].staged \in {Absent} \cup candidates
  /\ IF inputs[r].staged = Absent
       THEN SyncSettled /\ UNCHANGED inputs
       ELSE /\ SetInputs(r, [inputs[r] EXCEPT !.staged = Absent])
            /\ disk' = [disk EXCEPT !.inputs = inputs']

Begin(r, step, target) == op' = [step |-> step, request |-> r, target |-> target]

\* settle_terminal of an unsettled request; of a settled one it changes nothing.
Settle(r) ==
  /\ Maintainable(r)
  /\ inputs[r].intent.schema = "reserved"
  /\ DiscardStaged(r, {Settled(r)})
  /\ Begin(r, "stage", Settled(r))
  /\ UNCHANGED <<logs, artifacts, job, worker, faults>>

\* prune_terminal of source and log, or release_bundle of a succeeded job.
Selectable(r, kinds) ==
  /\ kinds # {}
  /\ \/ "bundle" \notin kinds
     \/ kinds = {"bundle"} /\ job[r] = "succeeded"

\* A new operation, when no other is pending and it selects what is there.
Prune(r, kinds) ==
  LET intent == inputs[r].intent IN
  /\ Maintainable(r)
  /\ Selectable(r, kinds)
  /\ intent.schema \in {"settled", "pruning"}
  /\ intent.pending = {}
  /\ kinds \cap intent.done = {}
  /\ kinds \cap Payloads(r) # {}
  /\ DiscardStaged(r, {Pruning(intent, kinds), Pruned(Pruning(intent, kinds))})
  /\ Begin(r, "stage", Pruning(intent, kinds))
  /\ UNCHANGED <<logs, artifacts, job, worker, faults>>

\* The pending operation again: its intent is durable already.
Resume(r) ==
  LET intent == inputs[r].intent IN
  /\ Maintainable(r)
  /\ intent.pending # {}
  /\ DiscardStaged(r, {intent, Pruned(intent)})
  /\ Begin(r, "unlink", intent)
  /\ UNCHANGED <<logs, artifacts, job, worker, faults>>

\* _save_settlement: stage, fill and sync, replace, sync.
Stage(r) ==
  /\ op.step = "stage" /\ op.request = r
  /\ SetInputs(r, [inputs[r] EXCEPT !.staged = Torn])
  /\ GoTo("fill")
  /\ UNCHANGED <<logs, artifacts, disk, job, worker, faults>>

Fill(r) ==
  /\ op.step = "fill" /\ op.request = r
  /\ SetInputs(r, [inputs[r] EXCEPT !.staged = op.target])
  /\ GoTo("replace")
  /\ UNCHANGED <<logs, artifacts, disk, job, worker, faults>>

Replace(r) ==
  /\ op.step = "replace" /\ op.request = r
  /\ SetInputs(r, [inputs[r] EXCEPT !.intent = op.target, !.staged = Absent])
  /\ GoTo("sync")
  /\ UNCHANGED <<logs, artifacts, disk, job, worker, faults>>

\* Mutant: the pending intent is only durable with what follows it.
SyncNothing ==
  /\ op.step = "sync"
  /\ IF op.target.pending = {} THEN Release ELSE GoTo("unlink")
  /\ UNCHANGED <<directories, disk, job, worker, faults>>

SyncSave ==
  /\ op.step = "sync"
  /\ SyncInputs
  /\ IF op.target.pending = {} THEN Release ELSE GoTo("unlink")
  /\ UNCHANGED <<directories, job, worker, faults>>

\* An error before the replacement removes the staged intent.
SaveFails(r) ==
  /\ op.step \in {"fill", "replace"} /\ op.request = r
  /\ Fault
  /\ SetInputs(r, [inputs[r] EXCEPT !.staged = Absent])
  /\ Release
  /\ UNCHANGED <<logs, artifacts, disk, job, worker>>

\* One selected payload that is still there.
Unlink(r, kind) ==
  /\ op.step = "unlink" /\ op.request = r
  /\ kind \in op.target.pending \cap Payloads(r)
  /\ inputs' = IF kind = "source" THEN [inputs EXCEPT ![r].source = FALSE] ELSE inputs
  /\ logs' = IF kind = "log" THEN logs \ {r} ELSE logs
  /\ artifacts' = IF kind = "bundle" THEN artifacts \ {Bundle(r)} ELSE artifacts
  /\ UNCHANGED <<disk, op, job, worker, faults>>

\* The deletions are synced, whoever made them, before they are credited.
SyncDeleted(r) ==
  /\ op.step = "unlink" /\ op.request = r
  /\ op.target.pending \cap Payloads(r) = {}
  /\ disk' = [inputs    |-> IF "source" \in op.target.pending THEN inputs ELSE disk.inputs,
              logs      |-> IF "log" \in op.target.pending THEN logs ELSE disk.logs,
              artifacts |-> IF "bundle" \in op.target.pending THEN artifacts ELSE disk.artifacts]
  /\ Begin(r, "stage", Pruned(op.target))
  /\ UNCHANGED <<directories, job, worker, faults>>

-----------------------------------------------------------------------------

Init ==
  /\ inputs = [r \in Requests |-> NoEntry]
  /\ logs = {}
  /\ artifacts = {}
  /\ disk = [inputs |-> inputs, logs |-> logs, artifacts |-> artifacts]
  /\ op = NoOp
  /\ job = [r \in Requests |-> "absent"]
  /\ worker = None
  /\ faults = 0

\* The operation under way goes on.
Continue ==
  \/ SyncIntent \/ SyncSource \/ SyncSave
  \/ \E r \in Requests :
       \/ WriteIntent(r) \/ Upload(r) \/ Publish(r) \/ Submit(r)
       \/ Stage(r) \/ Fill(r) \/ Replace(r) \/ SyncDeleted(r)
       \/ \E kind \in Kinds : Unlink(r, kind)

WorkerNext ==
  \/ \E r \in Requests :
       \/ StartJob(r) \/ CreateLog(r)
       \/ StageBundle(r) \/ PublishBundle(r) \/ DropBundle(r)
       \/ \E outcome \in {"succeeded", "failed"} : FinishJob(r, outcome)
       \/ RecoverJob(r) \/ EndQueued(r)
  \/ WorkerDies

\* What an administrator does about an interrupted operation: the same again.
Retry(r) ==
  \/ Resume(r)
  \/ /\ inputs[r].staged # Absent
     /\ Settle(r) \/ \E kinds \in SUBSET Kinds : Prune(r, kinds)

Next ==
  \/ Continue
  \/ WorkerNext
  \/ \E r \in Requests :
       \/ CreateIntent(r) \/ AdmitAgain(r)
       \/ Settle(r) \/ Resume(r)
       \/ \E kinds \in SUBSET Kinds : Prune(r, kinds)
       \/ SaveFails(r)
  \/ Abort \/ PowerLoss

\* An operation that holds the lock goes on, jobs end, and an interrupted
\* operation is retried until it finds the locks free.
Fairness ==
  /\ WF_vars(Continue)
  /\ \A r \in Requests :
       /\ WF_vars(DropBundle(r) \/ FinishJob(r, "failed"))
       /\ SF_vars(Retry(r))

Spec == Init /\ [][Next]_vars
FairSpec == Spec /\ Fairness

-----------------------------------------------------------------------------
(* Properties.                                                              *)

\* Types of the variables.
TypeOK ==
  /\ inputs \in [Requests -> Entry]
  /\ logs \in SUBSET Requests
  /\ artifacts \in SUBSET ({"bundle", "temporary"} \X Requests)
  /\ disk \in [inputs : [Requests -> Entry], logs : SUBSET Requests,
               artifacts : SUBSET ({"bundle", "temporary"} \X Requests)]
  /\ op \in [step : Steps, request : Requests \cup {None}, target : Intents]
  /\ job \in [Requests -> {"absent", "queued", "running", "uncertain"} \cup Certain]
  /\ worker \in Requests \cup {None}
  /\ faults \in 0 .. MaxFaults

\* The files of a request that are there, its intent included.
Files(r) == 1 + Cardinality(Payloads(r)) + (IF inputs[r].part THEN 1 ELSE 0)

FilesCharged == \A r \in Known : inputs[r].intent.charge >= Files(r)

\* Whatever was lost or interrupted, the charges the store accounts for cover
\* the files that are there, and keep within its limit.
ChargesCover == FilesCharged /\ Charged <= MaxBytes

\* A credit is given once and in full: a settled request with no operation
\* pending is charged for exactly what it keeps.
CreditsExact ==
  \A r \in Known :
    inputs[r].intent.schema \in {"settled", "pruning"} /\ inputs[r].intent.pending = {} =>
      inputs[r].intent.charge = 1 + Cardinality(Payloads(r))

\* Evidence is never lost: work that may still run has its source, a succeeded
\* job its bundle and log, and a settled request whatever its intent recorded,
\* unless that intent says that it was or is being pruned.  And what it says was
\* pruned stays away, even through a power loss: a payload that came back would
\* make every later scan refuse the store.
EvidenceKept ==
  \A r \in Requests :
    LET intent  == inputs[r].intent
        missing == Kinds \ Payloads(r)
    IN
    /\ job[r] \in {"queued", "running"} => "source" \notin missing
    /\ job[r] = "succeeded" => missing \subseteq intent.done \cup intent.pending
    /\ intent.recorded \cap missing \subseteq intent.done \cup intent.pending
    /\ intent.done \subseteq missing

Maintained(entry) == entry.intent.schema \in {"settled", "pruning"}

\* An intent that accounts for the payloads that are there, in a job's state.
Accounts(intent, entry, there, state) ==
  \/ /\ intent \in {Absent, Torn}
     /\ state = "absent"
     /\ ~entry.source /\ ~entry.part
  \/ /\ intent = Reserved
     /\ ~(entry.source /\ entry.part)
     /\ state # "absent" => entry.source
     /\ state = "succeeded" => there = Kinds
  \/ /\ intent.schema \in {"settled", "pruning"}
     /\ state \in Certain
     /\ ~entry.part
     /\ intent.done \cap intent.pending = {}
     /\ intent.charge = 1 + Cardinality(intent.recorded \ intent.done)
     /\ intent.recorded \ (intent.done \cup intent.pending) \subseteq there
     /\ there \subseteq intent.recorded \ intent.done
     /\ state = "succeeded" => intent.recorded = Kinds

\* Whatever a power loss leaves of the three directories is accounted for.
Accounted(r) ==
  \A entry \in {inputs[r], disk.inputs[r]}, l \in {logs, disk.logs},
     a \in {artifacts, disk.artifacts} :
    Accounts(entry.intent, entry, PayloadsIn(r, entry, l, a), job[r])

\* It would still be accounted for with the intent that is about to be saved.
TargetAccounted(r) ==
  \A entry \in {inputs[r], disk.inputs[r]}, l \in {logs, disk.logs},
     a \in {artifacts, disk.artifacts} :
    Accounts(op.target, entry, PayloadsIn(r, entry, l, a), job[r])

\* Until its settlement is durable, log and bundle of a request are durable, a
\* log comes before its bundle, and no settlement is forgotten.
EvidenceDurable(r) ==
  /\ Maintained(disk.inputs[r]) => Maintained(inputs[r])
  /\ ~Maintained(inputs[r]) \/ ~Maintained(disk.inputs[r]) =>
       /\ r \in logs <=> r \in disk.logs
       /\ Bundle(r) \in artifacts <=> Bundle(r) \in disk.artifacts
       /\ \A a \in {artifacts, disk.artifacts} :
            Temporary(r) \in a \/ Bundle(r) \in a => r \in logs

\* What the operation under way knows of the request it is about.
OperationKnows ==
  LET r == op.request IN
  /\ op.step # "none" => r \in Requests
  /\ op.step \in {"intent", "sync-intent", "upload", "publish", "sync-source"} =>
       job[r] = "absent"
  /\ op.step = "intent" => inputs[r].intent = Torn
  /\ op.step \in {"sync-intent", "upload", "publish", "sync-source"} =>
       inputs[r].intent = Reserved
  /\ op.step \in {"sync-intent", "upload", "publish"} => ~inputs[r].source
  /\ op.step = "sync-source" => inputs[r].source
  /\ op.step = "submit" => inputs[r].source /\ disk.inputs[r].source
  /\ Maintaining => op.target.schema \in {"settled", "pruning"}
  /\ op.step \in {"stage", "fill", "replace"} => TargetAccounted(r)
  /\ op.step \in {"sync", "unlink"} => inputs[r].intent = op.target
  /\ op.step = "unlink" => disk.inputs[r].intent = op.target

\* The conjunction of these is inductive.
RetentionInv ==
  /\ TypeOK
  /\ \A r \in Requests : Accounted(r) /\ EvidenceDurable(r)
  /\ OperationKnows
  /\ worker # None => job[worker] = "running"

\* An interrupted pruning can be completed by trying again, however it was
\* interrupted, unless a torn intent or an interrupted publication is there:
\* those are kept for an administrator.
PruningCompletes ==
  \A r \in Requests :
    inputs[r].intent.pending # {}
      ~> (\/ inputs[r].intent.pending = {}
          \/ \E q \in Requests : \/ Torn \in {inputs[q].intent, inputs[q].staged}
                               \/ Temporary(q) \in artifacts)

=============================================================================
