------------------------- MODULE BuildRetentionProofs -------------------------
(***************************************************************************)
(* Theorems about BuildRetention for every value of its constants.  The      *)
(* invariant speaks of all combinations of cached and durable directories,   *)
(* since a power loss may leave any of them.                                 *)
(***************************************************************************)
EXTENDS BuildRetention, FiniteSetTheorems, WellFoundedInduction, TLAPS

Dirs == [inputs : [Requests -> Entry], logs : SUBSET Requests,
         artifacts : SUBSET ({"bundle", "temporary"} \X Requests)]

(* Two entries that differ in their staged intent at most.                  *)
Same(entry, other) ==
  /\ entry.intent = other.intent
  /\ entry.source <=> other.source
  /\ entry.part <=> other.part

(* Every directory has of a request what it or its cached state had.        *)
Untouched(r) ==
  /\ job'[r] = job[r]
  /\ Same(inputs'[r], inputs[r])
  /\ Same(disk'.inputs[r], inputs[r]) \/ Same(disk'.inputs[r], disk.inputs[r])
  /\ r \in logs' <=> r \in logs
  /\ (r \in disk'.logs <=> r \in logs) \/ (r \in disk'.logs <=> r \in disk.logs)
  /\ Bundle(r) \in artifacts' <=> Bundle(r) \in artifacts
  /\ \/ Bundle(r) \in disk'.artifacts <=> Bundle(r) \in artifacts
     \/ Bundle(r) \in disk'.artifacts <=> Bundle(r) \in disk.artifacts
  /\ Temporary(r) \in artifacts' \/ Temporary(r) \in disk'.artifacts =>
       Temporary(r) \in artifacts \/ Temporary(r) \in disk.artifacts \/ r \in logs

-----------------------------------------------------------------------------
(* Helpers.                                                                 *)

LEMMA NamesDiffer ==
  ASSUME NEW r \in Requests, NEW q \in Requests
  PROVE  /\ Bundle(r) # Temporary(q)
         /\ Bundle(r) = Bundle(q) <=> r = q
         /\ Temporary(r) = Temporary(q) <=> r = q
BY DEF Bundle, Temporary

LEMMA SamePayloads ==
  ASSUME NEW r, NEW entry, NEW other, NEW l, NEW m, NEW a, NEW b,
         entry.source <=> other.source, r \in l <=> r \in m,
         Bundle(r) \in a <=> Bundle(r) \in b
  PROVE  PayloadsIn(r, entry, l, a) = PayloadsIn(r, other, m, b)
BY DEF PayloadsIn

LEMMA SameAccounts ==
  ASSUME NEW intent, NEW entry, NEW other, NEW there, NEW state, Same(entry, other),
         Accounts(intent, other, there, state)
  PROVE  Accounts(intent, entry, there, state)
BY DEF Accounts, Same

(* What the intents of the code are.                                        *)
LEMMA IntentFields ==
  /\ Absent.schema = "absent" /\ Torn.schema = "torn" /\ Reserved.schema = "reserved"
  /\ Absent.pending = {} /\ Torn.pending = {} /\ Reserved.pending = {}
  /\ Reserved.recorded = {} /\ Reserved.done = {} /\ Reserved.charge = Reservation
  /\ Absent.recorded = {} /\ Torn.recorded = {} /\ Absent.done = {} /\ Torn.done = {}
  /\ Absent \in Intents /\ Torn \in Intents /\ Reserved \in Intents
BY BuildRetentionAssumption DEF Absent, Torn, Reserved, Intent, Intents

(* Three kinds of payload.                                                  *)
LEMMA KindsFinite ==
  /\ IsFiniteSet(Kinds) /\ Cardinality(Kinds) = 3
  /\ \A kinds \in SUBSET Kinds :
       IsFiniteSet(kinds) /\ Cardinality(kinds) \in Nat /\ Cardinality(kinds) <= 3
<1>1. Cardinality({"source"}) = 1 /\ IsFiniteSet({"source"})
  BY FS_Singleton
<1>2. Cardinality({"source"} \cup {"log"}) = 2 /\ IsFiniteSet({"source"} \cup {"log"})
  BY <1>1, FS_AddElement
<1>3. /\ Cardinality(({"source"} \cup {"log"}) \cup {"bundle"}) = 3
      /\ IsFiniteSet(({"source"} \cup {"log"}) \cup {"bundle"})
  BY <1>2, FS_AddElement
<1>4. Kinds = ({"source"} \cup {"log"}) \cup {"bundle"}
  BY DEF Kinds
<1>5. IsFiniteSet(Kinds) /\ Cardinality(Kinds) = 3
  BY <1>3, <1>4
<1>. QED  BY <1>5, FS_Subset, FS_CardinalityType

(* A request nothing happened to is as well off as before.                  *)
LEMMA UntouchedKept ==
  ASSUME NEW r \in Requests, Untouched(r), Accounted(r), EvidenceDurable(r)
  PROVE  Accounted(r)' /\ EvidenceDurable(r)'
<1>1. EvidenceDurable(r)'
  BY DEF Untouched, Same, EvidenceDurable, Maintained
<1>2. Accounted(r)'
  <2>. SUFFICES ASSUME NEW entry \in {inputs'[r], disk'.inputs[r]}, NEW l \in {logs', disk'.logs},
                       NEW a \in {artifacts', disk'.artifacts}
                PROVE  Accounts(entry.intent, entry, PayloadsIn(r, entry, l, a), job[r])
    BY DEF Accounted, Untouched
  <2>1. PICK other \in {inputs[r], disk.inputs[r]} : Same(entry, other)
    BY DEF Untouched
  <2>2. PICK m \in {logs, disk.logs} : r \in l <=> r \in m
    BY DEF Untouched
  <2>3. PICK b \in {artifacts, disk.artifacts} : Bundle(r) \in a <=> Bundle(r) \in b
    BY DEF Untouched
  <2>4. PayloadsIn(r, entry, l, a) = PayloadsIn(r, other, m, b)
    BY <2>1, <2>2, <2>3, SamePayloads DEF Same
  <2>5. Accounts(other.intent, other, PayloadsIn(r, other, m, b), job[r])
    BY DEF Accounted
  <2>6. entry.intent = other.intent
    BY <2>1 DEF Same
  <2>. QED  BY <2>1, <2>4, <2>5, <2>6, SameAccounts
<1>. QED  BY <1>1, <1>2

LEMMA TargetKept ==
  ASSUME NEW r \in Requests, Untouched(r), TargetAccounted(r), op'.target = op.target
  PROVE  TargetAccounted(r)'
<1>. SUFFICES ASSUME NEW entry \in {inputs'[r], disk'.inputs[r]}, NEW l \in {logs', disk'.logs},
                     NEW a \in {artifacts', disk'.artifacts}
              PROVE  Accounts(op.target, entry, PayloadsIn(r, entry, l, a), job[r])
  BY DEF TargetAccounted, Untouched
<1>1. PICK other \in {inputs[r], disk.inputs[r]} : Same(entry, other)
  BY DEF Untouched
<1>2. PICK m \in {logs, disk.logs} : r \in l <=> r \in m
  BY DEF Untouched
<1>3. PICK b \in {artifacts, disk.artifacts} : Bundle(r) \in a <=> Bundle(r) \in b
  BY DEF Untouched
<1>4. PayloadsIn(r, entry, l, a) = PayloadsIn(r, other, m, b)
  BY <1>1, <1>2, <1>3, SamePayloads DEF Same
<1>5. Accounts(op.target, other, PayloadsIn(r, other, m, b), job[r])
  BY DEF TargetAccounted
<1>. QED  BY <1>1, <1>4, <1>5, SameAccounts

-----------------------------------------------------------------------------
(* Types.                                                                   *)

LEMMA Typed ==
  ASSUME TypeOK
  PROVE  /\ inputs \in [Requests -> Entry] /\ logs \in SUBSET Requests
         /\ artifacts \in SUBSET ({"bundle", "temporary"} \X Requests)
         /\ disk \in Dirs /\ disk.inputs \in [Requests -> Entry]
         /\ disk.logs \in SUBSET Requests
         /\ disk.artifacts \in SUBSET ({"bundle", "temporary"} \X Requests)
         /\ op.step \in Steps /\ op.request \in Requests \cup {None} /\ op.target \in Intents
BY DEF TypeOK, Dirs

(* The intents that maintenance saves.                                      *)
LEMMA TargetTypes ==
  ASSUME TypeOK, NEW r \in Requests
  PROVE  /\ Settled(r) \in Intents
         /\ \A intent \in Intents, kinds \in SUBSET Kinds : Pruning(intent, kinds) \in Intents
         /\ \A intent \in Intents : Cardinality(intent.pending \cap intent.recorded) <= intent.charge =>
              Pruned(intent) \in Intents
<1>1. Payloads(r) \in SUBSET Kinds
  BY DEF Payloads, PayloadsIn
<1>2. Settled(r) \in Intents
  <2>1. 1 + Cardinality(Payloads(r)) \in 0 .. Reservation
    BY <1>1, KindsFinite, BuildRetentionAssumption
  <2>. QED  BY <1>1, <2>1 DEF Settled, Intent, Intents
<1>3. ASSUME NEW intent \in Intents, NEW kinds \in SUBSET Kinds
      PROVE  Pruning(intent, kinds) \in Intents
  BY <1>3 DEF Pruning, Intents
<1>4. ASSUME NEW intent \in Intents,
             Cardinality(intent.pending \cap intent.recorded) <= intent.charge
      PROVE  Pruned(intent) \in Intents
  <2>. DEFINE n == Cardinality(intent.pending \cap intent.recorded)
  <2>1. n \in Nat /\ intent.charge \in 0 .. Reservation /\ n <= intent.charge
    BY <1>4, KindsFinite DEF Intents
  <2>2. intent.charge - n \in 0 .. Reservation
    BY <2>1, BuildRetentionAssumption
  <2>. HIDE DEF n
  <2>3. [intent EXCEPT !.pending = {}, !.done = @ \cup intent.pending,
                       !.charge = @ - n] \in Intents
    BY <2>2 DEF Intents
  <2>. QED  BY <2>3 DEF Pruned, n
<1>. QED  BY <1>2, <1>3, <1>4

(* One entry is rewritten.                                                  *)
LEMMA EntryType ==
  ASSUME TypeOK, NEW r \in Requests, NEW entry \in Entry, SetInputs(r, entry)
  PROVE  /\ inputs' \in [Requests -> Entry]
         /\ inputs'[r] = entry
         /\ \A q \in Requests \ {r} : inputs'[q] = inputs[q]
BY Typed DEF SetInputs

(* A staged intent is discarded, and what was settled is durable after it.  *)
LEMMA Discarded ==
  ASSUME TypeOK, NEW r \in Known, NEW candidates, DiscardStaged(r, candidates)
  PROVE  /\ inputs' \in [Requests -> Entry]
         /\ disk' \in Dirs /\ disk'.logs = disk.logs /\ disk'.artifacts = disk.artifacts
         /\ disk'.inputs = inputs' \/ disk'.inputs = disk.inputs
         /\ Maintained(inputs[r]) => disk'.inputs = inputs'
         /\ \A q \in Requests : Same(inputs'[q], inputs[q])
<1>1. /\ inputs \in [Requests -> Entry] /\ disk \in Dirs /\ r \in Requests
      /\ disk.inputs \in [Requests -> Entry]
  BY Typed DEF Known
<1>2. CASE inputs[r].staged = Absent
  <2>1. SyncSettled /\ inputs' = inputs
    BY <1>2 DEF DiscardStaged
  <2>2. Maintained(inputs[r]) => inputs[r].intent # Reserved
    BY IntentFields DEF Maintained
  <2>3. disk' = disk \/ disk' = [disk EXCEPT !.inputs = inputs]
    BY <2>1 DEF SyncSettled, SyncInputs
  <2>4. Maintained(inputs[r]) => disk' = [disk EXCEPT !.inputs = inputs]
    BY <2>1, <2>2 DEF SyncSettled, SyncInputs
  <2>. QED  BY <1>1, <2>1, <2>3, <2>4 DEF Dirs, Same
<1>3. CASE inputs[r].staged # Absent
  <2>. DEFINE entry == [inputs[r] EXCEPT !.staged = Absent]
  <2>1. entry \in Entry /\ Same(entry, inputs[r])
    BY <1>1, IntentFields DEF Entry, Same
  <2>. HIDE DEF entry
  <2>2. SetInputs(r, entry) /\ disk' = [disk EXCEPT !.inputs = inputs']
    BY <1>3 DEF DiscardStaged, entry
  <2>3. /\ inputs' \in [Requests -> Entry] /\ inputs'[r] = entry
        /\ \A q \in Requests \ {r} : inputs'[q] = inputs[q]
    BY <1>1, <2>1, <2>2, EntryType
  <2>. QED  BY <1>1, <2>1, <2>2, <2>3 DEF Dirs, Same
<1>. QED  BY <1>2, <1>3

(* What was accounted for suffices for the credit.                          *)
LEMMA CreditWithinCharge ==
  ASSUME NEW intent \in Intents, intent.done \cap intent.pending = {},
         intent.charge = 1 + Cardinality(intent.recorded \ intent.done)
  PROVE  /\ Cardinality(intent.pending \cap intent.recorded) <= intent.charge
         /\ Pruned(intent).charge =
              1 + Cardinality(Pruned(intent).recorded \ Pruned(intent).done)
<1>. DEFINE kept == intent.recorded \ intent.done
            gone == intent.pending
<1>1. kept \in SUBSET Kinds /\ gone \in SUBSET Kinds
  BY DEF Intents
<1>2. kept \cap gone = gone \cap intent.recorded
  OBVIOUS
<1>3. Cardinality(kept \ gone) = Cardinality(kept) - Cardinality(kept \cap gone)
  BY <1>1, KindsFinite, FS_Difference
<1>4. Cardinality(kept \cap gone) \in Nat /\ Cardinality(kept) \in Nat /\ Cardinality(kept \ gone) \in Nat
  BY <1>1, KindsFinite
<1>5. /\ Pruned(intent).recorded = intent.recorded
      /\ Pruned(intent).done = intent.done \cup intent.pending
      /\ Pruned(intent).charge = intent.charge - Cardinality(intent.pending \cap intent.recorded)
  BY DEF Pruned, Intents
<1>6. Pruned(intent).recorded \ Pruned(intent).done = kept \ gone
  BY <1>5
<1>. DEFINE n == Cardinality(kept)
            m == Cardinality(kept \cap gone)
<1>7. /\ Cardinality(intent.pending \cap intent.recorded) = m
      /\ intent.charge = 1 + n
      /\ Pruned(intent).charge = intent.charge - m
      /\ Cardinality(Pruned(intent).recorded \ Pruned(intent).done) = n - m
  BY <1>2, <1>3, <1>5, <1>6
<1>8. n \in Nat /\ m \in Nat /\ n - m \in Nat
  BY <1>3, <1>4
<1>. HIDE DEF n, m
<1>. QED  BY <1>7, <1>8

Ops == [step : Steps, request : Requests \cup {None}, target : Intents]

LEMMA OpTypes ==
  ASSUME TypeOK
  PROVE  /\ op \in Ops /\ NoOp \in Ops
         /\ \A step \in Steps : GoTo(step) => op' \in Ops
         /\ Release => op' \in Ops
         /\ \A r \in Requests, step \in Steps, target \in Intents : Begin(r, step, target) => op' \in Ops
BY IntentFields DEF TypeOK, Ops, NoOp, Steps, GoTo, Release, Begin

LEMMA SyncTypes ==
  ASSUME TypeOK
  PROVE  /\ SyncInputs => disk' \in Dirs /\ disk'.inputs = inputs
                          /\ disk'.logs = disk.logs /\ disk'.artifacts = disk.artifacts
         /\ SyncSettled => /\ disk' \in Dirs /\ disk'.inputs \in {inputs, disk.inputs}
                           /\ disk'.logs = disk.logs /\ disk'.artifacts = disk.artifacts
<1>1. inputs \in [Requests -> Entry] /\ disk \in Dirs
  BY Typed
<1>2. ASSUME SyncInputs
      PROVE  disk' \in Dirs /\ disk'.inputs = inputs
             /\ disk'.logs = disk.logs /\ disk'.artifacts = disk.artifacts
  BY <1>1, <1>2 DEF SyncInputs, Dirs
<1>. QED  BY <1>1, <1>2 DEF SyncSettled

(* The steps that write entries of the input directory.                     *)
LEMMA EntryTypes ==
  ASSUME RetentionInv, NEW r \in Requests,
         \/ CreateIntent(r) \/ WriteIntent(r) \/ Upload(r) \/ Publish(r)
         \/ Stage(r) \/ Fill(r) \/ Replace(r) \/ SaveFails(r)
  PROVE  TypeOK'
<1>1. TypeOK /\ inputs[r] \in Entry /\ op.target \in Intents
  BY Typed DEF RetentionInv
<1>2. PICK entry \in Entry : SetInputs(r, entry)
  BY <1>1, IntentFields
  DEF CreateIntent, WriteIntent, Upload, Publish, Stage, Fill, Replace, SaveFails, Entry
<1>3. inputs' \in [Requests -> Entry]
  BY <1>1, <1>2, EntryType
<1>4. op' \in Ops
  <2>1. CASE CreateIntent(r)
    BY <2>1, IntentFields DEF CreateIntent, NoOp, Ops, Steps
  <2>. QED
    BY <1>1, <2>1, OpTypes
    DEF WriteIntent, Upload, Publish, Stage, Fill, Replace, SaveFails, Steps
<1>5. disk' \in Dirs
  BY <1>1, SyncTypes, Typed
  DEF CreateIntent, WriteIntent, Upload, Publish, Stage, Fill, Replace, SaveFails
<1>6. /\ logs' = logs /\ artifacts' = artifacts /\ job' = job /\ worker' = worker
      /\ faults' \in 0 .. MaxFaults
  BY <1>1, BuildRetentionAssumption
  DEF CreateIntent, WriteIntent, Upload, Publish, Stage, Fill, Replace, SaveFails, Fault, TypeOK
<1>. QED  BY <1>1, <1>3, <1>4, <1>5, <1>6 DEF TypeOK, Ops, Dirs

(* The steps that sync, and those that give up.                             *)
LEMMA SyncStepTypes ==
  ASSUME RetentionInv,
         \/ SyncIntent \/ SyncSource \/ SyncSave \/ Abort \/ PowerLoss
         \/ \E r \in Requests : AdmitAgain(r) \/ Submit(r)
  PROVE  TypeOK'
<1>1. TypeOK
  BY DEF RetentionInv
<1>2. op' \in Ops
  <2>1. ASSUME NEW r \in Requests, AdmitAgain(r) PROVE op' \in Ops
    BY <2>1, IntentFields DEF AdmitAgain, NoOp, Ops, Steps
  <2>. QED
    BY <1>1, <2>1, OpTypes
    DEF SyncIntent, SyncSource, SyncSave, Abort, PowerLoss, Submit, Steps
<1>3. CASE PowerLoss
  <2>1. /\ inputs' \in [Requests -> Entry] /\ logs' \in SUBSET Requests
        /\ artifacts' \in SUBSET ({"bundle", "temporary"} \X Requests)
    BY <1>1, <1>3, Typed DEF PowerLoss
  <2>2. disk' \in Dirs
    BY <1>3, <2>1 DEF PowerLoss, Dirs
  <2>3. job' = job /\ worker' = None /\ faults' \in 0 .. MaxFaults
    BY <1>1, <1>3, BuildRetentionAssumption DEF PowerLoss, Fault, TypeOK
  <2>. QED  BY <1>1, <1>2, <2>1, <2>2, <2>3 DEF TypeOK, Ops, Dirs
<1>4. CASE ~PowerLoss
  <2>1. UNCHANGED <<directories, worker>> /\ disk' \in Dirs
    BY <1>1, <1>4, SyncTypes, Typed DEF SyncIntent, SyncSource, SyncSave, Abort, AdmitAgain, Submit
  <2>2. faults' \in 0 .. MaxFaults
    <3>1. faults' = faults \/ Fault
      BY <1>4 DEF SyncIntent, SyncSource, SyncSave, Abort, AdmitAgain, Submit
    <3>. QED  BY <1>1, <3>1, BuildRetentionAssumption DEF Fault, TypeOK
  <2>3. job' \in [Requests -> {"absent", "queued", "running", "uncertain"} \cup Certain]
    BY <1>1, <1>4 DEF SyncIntent, SyncSource, SyncSave, Abort, AdmitAgain, Submit, TypeOK
  <2>. QED  BY <1>1, <1>2, <2>1, <2>2, <2>3 DEF TypeOK, Ops, Dirs, directories
<1>. QED  BY <1>3, <1>4

LEMMA WorkerTypes ==
  ASSUME RetentionInv, WorkerNext
  PROVE  TypeOK'
<1>1. TypeOK
  BY DEF RetentionInv
<1>2. inputs' = inputs /\ op' = op
  BY DEF WorkerNext, StartJob, CreateLog, StageBundle, PublishBundle, DropBundle, FinishJob,
         WorkerDies, RecoverJob, EndQueued, directories
<1>3. /\ logs' \in SUBSET Requests
      /\ artifacts' \in SUBSET ({"bundle", "temporary"} \X Requests)
  <2>. DEFINE names == {"bundle", "temporary"} \X Requests
  <2>1. \A r \in Requests : Bundle(r) \in names /\ Temporary(r) \in names
    BY DEF Bundle, Temporary
  <2>2. logs \in SUBSET Requests /\ artifacts \in SUBSET names
    BY <1>1, Typed
  <2>. HIDE DEF names
  <2>3. logs' \in SUBSET Requests /\ artifacts' \in SUBSET names
    BY <2>1, <2>2
    DEF WorkerNext, StartJob, CreateLog, StageBundle, PublishBundle, DropBundle, FinishJob,
        WorkerDies, RecoverJob, EndQueued, directories
  <2>. QED  BY <2>3 DEF names
<1>4. disk' \in Dirs
  <2>1. ASSUME NEW r \in Requests, CreateLog(r) PROVE disk' \in Dirs
    BY <1>1, <1>3, <2>1, Typed DEF CreateLog, Dirs
  <2>2. ASSUME NEW r \in Requests, PublishBundle(r) PROVE disk' \in Dirs
    <3>1. artifacts \cup {Bundle(r)} \in SUBSET ({"bundle", "temporary"} \X Requests)
      BY <1>1, Typed DEF Bundle
    <3>. QED  BY <1>1, <2>2, <3>1, Typed DEF PublishBundle, Dirs
  <2>. QED
    BY <1>1, <2>1, <2>2, Typed
    DEF WorkerNext, StartJob, StageBundle, DropBundle, FinishJob, WorkerDies, RecoverJob, EndQueued
<1>5. /\ job' \in [Requests -> {"absent", "queued", "running", "uncertain"} \cup Certain]
      /\ worker' \in Requests \cup {None}
  BY <1>1
  DEF WorkerNext, StartJob, CreateLog, StageBundle, PublishBundle, DropBundle, FinishJob,
      WorkerDies, RecoverJob, EndQueued, TypeOK, Certain
<1>6. faults' \in 0 .. MaxFaults
  BY <1>1, BuildRetentionAssumption
  DEF WorkerNext, StartJob, CreateLog, StageBundle, PublishBundle, DropBundle, FinishJob,
      WorkerDies, RecoverJob, EndQueued, TypeOK, Fault
<1>. QED  BY <1>1, <1>2, <1>3, <1>4, <1>5, <1>6 DEF TypeOK, Dirs

-----------------------------------------------------------------------------
(* The invariant through the steps that keep all evidence.                  *)

LEMMA AllUntouched ==
  ASSUME RetentionInv, \A r \in Requests : Untouched(r)
  PROVE  \A r \in Requests : Accounted(r)' /\ EvidenceDurable(r)'
BY UntouchedKept DEF RetentionInv

LEMMA SyncStep ==
  ASSUME RetentionInv,
         \/ SyncIntent \/ SyncSource \/ SyncSave \/ Abort
         \/ \E r \in Requests : AdmitAgain(r)
  PROVE  RetentionInv'
<1>1. TypeOK /\ TypeOK'
  BY SyncStepTypes DEF RetentionInv
<1>2. /\ UNCHANGED <<inputs, logs, artifacts, job, worker>>
      /\ disk'.logs = disk.logs /\ disk'.artifacts = disk.artifacts
      /\ disk'.inputs = inputs \/ disk' = disk
  BY <1>1, SyncTypes DEF SyncIntent, SyncSource, SyncSave, Abort, AdmitAgain, directories
<1>3. \A r \in Requests : Untouched(r)
  BY <1>2 DEF Untouched, Same
<1>4. OperationKnows'
  <2>1. CASE Abort
    BY <2>1, <1>1 DEF Abort, Release, NoOp, OperationKnows, Maintaining
  <2>2. ASSUME NEW r \in Requests, AdmitAgain(r) PROVE OperationKnows'
    <3>1. /\ op'.step = "submit" /\ op'.request = r /\ disk'.inputs = inputs /\ inputs[r].source
      BY <1>1, <2>2, SyncTypes DEF AdmitAgain, NoOp
    <3>. QED  BY <1>2, <3>1, <2>2 DEF OperationKnows, Maintaining
  <2>3. CASE SyncIntent \/ SyncSource
    <3>1. /\ op'.request = op.request /\ disk'.inputs = inputs
          /\ \/ op.step = "sync-intent" /\ op'.step = "upload"
             \/ op.step = "sync-source" /\ op'.step = "submit"
      BY <1>1, <2>3, SyncTypes, OpTypes DEF SyncIntent, SyncSource, GoTo, Ops
    <3>. QED  BY <1>2, <3>1 DEF RetentionInv, OperationKnows, Maintaining
  <2>4. CASE SyncSave
    <3>1. /\ disk'.inputs = inputs /\ op.step = "sync"
          /\ \/ op' = NoOp
             \/ op'.step = "unlink" /\ op'.request = op.request /\ op'.target = op.target
      BY <1>1, <2>4, SyncTypes, OpTypes DEF SyncSave, GoTo, Release, Ops
    <3>. QED  BY <1>2, <3>1 DEF RetentionInv, OperationKnows, Maintaining, NoOp
  <2>. QED  BY <2>1, <2>2, <2>3, <2>4
<1>5. worker' # None => job'[worker'] = "running"
  BY <1>2 DEF RetentionInv
<1>. QED  BY <1>1, <1>3, <1>4, <1>5, AllUntouched DEF RetentionInv

(* A request is queued: its source is durable by then.                      *)
LEMMA SubmitStep ==
  ASSUME RetentionInv, NEW r \in Requests, Submit(r)
  PROVE  RetentionInv'
<1>1. TypeOK /\ TypeOK'
  BY SyncStepTypes DEF RetentionInv
<1>2. UNCHANGED <<inputs, logs, artifacts, disk, worker>> /\ op' = NoOp
  BY DEF Submit, Release, directories
<1>3. inputs[r].source /\ disk.inputs[r].source
  BY DEF RetentionInv, OperationKnows, Submit
<1>4. /\ \A q \in Requests \ {r} : job'[q] = job[q]
      /\ job'[r] = job[r] \/ (job[r] = "absent" /\ job'[r] = "queued")
  BY <1>1 DEF Submit, TypeOK
<1>5. \A q \in Requests : job'[q] = job[q] => Untouched(q)
  BY <1>2 DEF Untouched, Same
<1>6. ASSUME job[r] = "absent", job'[r] = "queued"
      PROVE  Accounted(r)' /\ EvidenceDurable(r)'
  <2>1. EvidenceDurable(r)'
    BY <1>2 DEF RetentionInv, EvidenceDurable, Maintained
  <2>2. ASSUME NEW entry \in {inputs[r], disk.inputs[r]}, NEW l \in {logs, disk.logs},
               NEW a \in {artifacts, disk.artifacts}
        PROVE  Accounts(entry.intent, entry, PayloadsIn(r, entry, l, a), "queued")
    <3>1. Accounts(entry.intent, entry, PayloadsIn(r, entry, l, a), "absent") /\ entry.source
      BY <1>3, <1>6 DEF RetentionInv, Accounted
    <3>. QED  BY <3>1 DEF Accounts, Certain
  <2>3. Accounted(r)'
    BY <1>2, <1>6, <2>2 DEF Accounted
  <2>. QED  BY <2>1, <2>3
<1>7. \A q \in Requests : Accounted(q)' /\ EvidenceDurable(q)'
  BY <1>4, <1>5, <1>6, UntouchedKept DEF RetentionInv
<1>8. OperationKnows'
  BY <1>2 DEF OperationKnows, NoOp, Maintaining
<1>9. worker' # None => job'[worker'] = "running"
  BY <1>1, <1>2, <1>4 DEF RetentionInv, TypeOK
<1>. QED  BY <1>1, <1>7, <1>8, <1>9 DEF RetentionInv

(* Whatever a power loss leaves was accounted for before it.                *)
LEMMA LossStep == ASSUME RetentionInv, PowerLoss PROVE RetentionInv'
<1>1. TypeOK'
  BY SyncStepTypes
<1>2. /\ inputs' \in {inputs, disk.inputs} /\ disk'.inputs = inputs'
      /\ logs' \in {logs, disk.logs} /\ disk'.logs = logs'
      /\ artifacts' \in {artifacts, disk.artifacts} /\ disk'.artifacts = artifacts'
      /\ op' = NoOp /\ worker' = None /\ job' = job
  BY DEF PowerLoss, Release
<1>3. \A r \in Requests : Accounted(r)'
  BY <1>2 DEF RetentionInv, Accounted
<1>4. \A r \in Requests : EvidenceDurable(r)'
  BY <1>2 DEF RetentionInv, EvidenceDurable, Maintained
<1>5. OperationKnows'
  BY <1>2 DEF OperationKnows, NoOp, Maintaining
<1>. QED  BY <1>1, <1>2, <1>3, <1>4, <1>5 DEF RetentionInv

-----------------------------------------------------------------------------
(* The steps that write entries of the input directory.                     *)

LEMMA AdmissionStep ==
  ASSUME RetentionInv, NEW r \in Requests,
         CreateIntent(r) \/ WriteIntent(r) \/ Upload(r) \/ Publish(r)
  PROVE  RetentionInv'
<1>1. TypeOK /\ TypeOK' /\ inputs[r] \in Entry
  BY EntryTypes, Typed DEF RetentionInv
<1>2. /\ UNCHANGED <<logs, artifacts, job, worker>>
      /\ disk'.logs = disk.logs /\ disk'.artifacts = disk.artifacts
      /\ disk'.inputs \in {inputs, disk.inputs}
  BY <1>1, SyncTypes DEF CreateIntent, WriteIntent, Upload, Publish
<1>3. /\ job[r] = "absent"
      /\ CreateIntent(r) => inputs[r].intent = Absent
      /\ WriteIntent(r) => inputs[r].intent = Torn
      /\ Upload(r) \/ Publish(r) => inputs[r].intent = Reserved /\ ~inputs[r].source
  <2>1. CASE CreateIntent(r)
    <3>1. inputs[r].intent = Absent
      BY <2>1 DEF CreateIntent
    <3>2. Accounts(inputs[r].intent, inputs[r], PayloadsIn(r, inputs[r], logs, artifacts), job[r])
      BY DEF RetentionInv, Accounted
    <3>3. job[r] = "absent"
      BY <3>1, <3>2, IntentFields DEF Accounts
    <3>4. inputs[r].intent # Torn /\ inputs[r].intent # Reserved
      BY <3>1, IntentFields
    <3>. QED
      BY <1>1, <2>1, <3>1, <3>3 DEF CreateIntent, WriteIntent, Upload, Publish, NoOp
  <2>2. CASE ~CreateIntent(r)
    BY <2>2 DEF WriteIntent, Upload, Publish, RetentionInv, OperationKnows
  <2>. QED  BY <2>1, <2>2
<1>4. Accounts(inputs[r].intent, inputs[r], PayloadsIn(r, inputs[r], logs, artifacts), "absent")
  BY <1>3 DEF RetentionInv, Accounted
<1>5. /\ ~Maintained(inputs[r]) /\ ~Maintained(inputs'[r])
      /\ \A there : Accounts(inputs'[r].intent, inputs'[r], there, "absent")
      /\ \A q \in Requests \ {r} : inputs'[q] = inputs[q]
  <2>1. CASE CreateIntent(r)
    <3>. DEFINE entry == [inputs[r] EXCEPT !.intent = Torn]
    <3>1. /\ entry \in Entry /\ entry.intent = Torn
          /\ entry.source = inputs[r].source /\ entry.part = inputs[r].part
      BY <1>1, IntentFields DEF Entry
    <3>. HIDE DEF entry
    <3>2. inputs'[r] = entry /\ \A q \in Requests \ {r} : inputs'[q] = inputs[q]
      BY <1>1, <2>1, <3>1, EntryType DEF CreateIntent, entry
    <3>. QED  BY <1>3, <1>4, <2>1, <3>1, <3>2, IntentFields DEF Accounts, Maintained
  <2>2. CASE WriteIntent(r)
    <3>. DEFINE entry == [inputs[r] EXCEPT !.intent = Reserved]
    <3>1. /\ entry \in Entry /\ entry.intent = Reserved
          /\ entry.source = inputs[r].source /\ entry.part = inputs[r].part
      BY <1>1, IntentFields DEF Entry
    <3>. HIDE DEF entry
    <3>2. inputs'[r] = entry /\ \A q \in Requests \ {r} : inputs'[q] = inputs[q]
      BY <1>1, <2>2, <3>1, EntryType DEF WriteIntent, entry
    <3>. QED  BY <1>3, <1>4, <2>2, <3>1, <3>2, IntentFields DEF Accounts, Maintained
  <2>3. CASE Upload(r) \/ Publish(r)
    <3>1. PICK entry \in Entry : /\ SetInputs(r, entry) /\ entry.intent = inputs[r].intent
                                 /\ ~(entry.source /\ entry.part)
      <4>1. CASE Upload(r)
        <5>1. [inputs[r] EXCEPT !.part = TRUE] \in Entry
          BY <1>1 DEF Entry
        <5>. QED  BY <1>1, <1>3, <4>1, <5>1 DEF Upload, Entry
      <4>2. CASE Publish(r)
        <5>1. [inputs[r] EXCEPT !.part = FALSE, !.source = TRUE] \in Entry
          BY <1>1 DEF Entry
        <5>. QED  BY <1>1, <4>2, <5>1 DEF Publish, Entry
      <4>. QED  BY <2>3, <4>1, <4>2
    <3>2. inputs'[r] = entry /\ \A q \in Requests \ {r} : inputs'[q] = inputs[q]
      BY <1>1, <3>1, EntryType
    <3>. QED  BY <1>3, <2>3, <3>1, <3>2, IntentFields DEF Accounts, Maintained
  <2>. QED  BY <2>1, <2>2, <2>3
<1>6. \A q \in Requests \ {r} : Untouched(q)
  BY <1>2, <1>5 DEF Untouched, Same
<1>7. EvidenceDurable(r)'
  BY <1>2, <1>5 DEF RetentionInv, EvidenceDurable, Maintained
<1>8. Accounted(r)'
  BY <1>2, <1>3, <1>5 DEF RetentionInv, Accounted
<1>9. OperationKnows'
  <2>1. CASE CreateIntent(r)
    <3>1. op'.step = "intent" /\ op'.request = r
      BY <2>1 DEF CreateIntent, NoOp
    <3>2. inputs'[r].intent = Torn
      BY <1>1, <2>1, Typed DEF CreateIntent, SetInputs, Entry
    <3>. QED  BY <1>2, <1>3, <3>1, <3>2 DEF OperationKnows, Maintaining
  <2>2. CASE WriteIntent(r)
    <3>1. op'.step = "sync-intent" /\ op'.request = r
      BY <1>1, <2>2, OpTypes DEF WriteIntent, GoTo, Ops
    <3>2. inputs'[r].intent = Reserved /\ inputs'[r].source = inputs[r].source
      BY <1>1, <2>2, Typed DEF WriteIntent, SetInputs, Entry
    <3>3. ~inputs[r].source
      BY <1>3, <1>4, <2>2, IntentFields DEF Accounts
    <3>. QED  BY <1>2, <1>3, <3>1, <3>2, <3>3 DEF OperationKnows, Maintaining
  <2>3. CASE Upload(r)
    <3>1. op' = NoOp \/ (op'.step = "publish" /\ op'.request = r)
      BY <1>1, <2>3, OpTypes DEF Upload, GoTo, Release, Ops
    <3>2. inputs'[r].intent = Reserved /\ inputs'[r].source = inputs[r].source
      BY <1>1, <1>3, <2>3, Typed DEF Upload, SetInputs, Entry
    <3>. QED  BY <1>2, <1>3, <2>3, <3>1, <3>2 DEF OperationKnows, Maintaining, NoOp
  <2>4. CASE Publish(r)
    <3>1. op'.step = "sync-source" /\ op'.request = r
      BY <1>1, <2>4, OpTypes DEF Publish, GoTo, Ops
    <3>2. inputs'[r].intent = Reserved /\ inputs'[r].source
      BY <1>1, <1>3, <2>4, Typed DEF Publish, SetInputs, Entry
    <3>. QED  BY <1>2, <1>3, <3>1, <3>2 DEF OperationKnows, Maintaining
  <2>. QED  BY <2>1, <2>2, <2>3, <2>4
<1>10. worker' # None => job'[worker'] = "running"
  BY <1>2 DEF RetentionInv
<1>11. \A q \in Requests : Accounted(q)' /\ EvidenceDurable(q)'
  BY <1>6, <1>7, <1>8, UntouchedKept DEF RetentionInv
<1>. QED  BY <1>1, <1>9, <1>10, <1>11 DEF RetentionInv

(* The steps of _save_settlement before its sync.                           *)
LEMMA SaveStep ==
  ASSUME RetentionInv, NEW r \in Requests, Stage(r) \/ Fill(r) \/ SaveFails(r) \/ Replace(r)
  PROVE  RetentionInv'
<1>1. TypeOK /\ TypeOK' /\ inputs[r] \in Entry /\ op.target \in Intents
  BY EntryTypes, Typed DEF RetentionInv
<1>2. UNCHANGED <<logs, artifacts, disk, job, worker>>
  BY DEF Stage, Fill, SaveFails, Replace
<1>3. /\ op.step \in {"stage", "fill", "replace"} /\ op.request = r /\ TargetAccounted(r)
      /\ op.target.schema \in {"settled", "pruning"}
  BY DEF Stage, Fill, SaveFails, Replace, RetentionInv, OperationKnows, Maintaining
<1>4. worker' # None => job'[worker'] = "running"
  BY <1>2 DEF RetentionInv
<1>5. CASE ~Replace(r)
  <2>1. PICK entry \in Entry : SetInputs(r, entry) /\ Same(entry, inputs[r])
    BY <1>1, <1>5, IntentFields DEF Stage, Fill, SaveFails, Entry, Same
  <2>2. \A q \in Requests : Untouched(q)
    BY <1>1, <1>2, <2>1, EntryType DEF Untouched, Same
  <2>3. \/ op' = NoOp
        \/ op'.step \in {"fill", "replace"} /\ op'.request = r /\ op'.target = op.target
    BY <1>1, <1>3, <1>5, OpTypes DEF Stage, Fill, SaveFails, GoTo, Release, Ops
  <2>4. op'.target = op.target => TargetAccounted(r)'
    BY <1>3, <2>2, TargetKept
  <2>5. OperationKnows'
    BY <1>3, <2>3, <2>4 DEF OperationKnows, Maintaining, NoOp
  <2>. QED  BY <1>1, <1>4, <2>2, <2>5, AllUntouched DEF RetentionInv
<1>6. CASE Replace(r)
  <2>. DEFINE entry == [inputs[r] EXCEPT !.intent = op.target, !.staged = Absent]
  <2>1. /\ entry \in Entry /\ entry.intent = op.target
        /\ entry.source = inputs[r].source /\ entry.part = inputs[r].part
    BY <1>1, IntentFields DEF Entry
  <2>. HIDE DEF entry
  <2>2. inputs'[r] = entry /\ \A q \in Requests \ {r} : inputs'[q] = inputs[q]
    BY <1>1, <1>6, <2>1, EntryType DEF Replace, entry
  <2>3. \A q \in Requests \ {r} : Untouched(q)
    BY <1>2, <2>2 DEF Untouched, Same
  <2>4. EvidenceDurable(r)'
    BY <1>2, <1>3, <2>1, <2>2 DEF RetentionInv, EvidenceDurable, Maintained
  <2>5. ASSUME NEW l \in {logs, disk.logs}, NEW a \in {artifacts, disk.artifacts}
        PROVE  Accounts(op.target, entry, PayloadsIn(r, entry, l, a), job[r])
    <3>1. Accounts(op.target, inputs[r], PayloadsIn(r, inputs[r], l, a), job[r])
      BY <1>3 DEF TargetAccounted
    <3>2. PayloadsIn(r, entry, l, a) = PayloadsIn(r, inputs[r], l, a)
      BY <2>1, SamePayloads
    <3>. QED  BY <2>1, <3>1, <3>2 DEF Accounts
  <2>6. Accounted(r)'
    BY <1>2, <2>1, <2>2, <2>5 DEF RetentionInv, Accounted
  <2>7. op'.step = "sync" /\ op'.request = r /\ op'.target = op.target
    BY <1>1, <1>3, <1>6, OpTypes DEF Replace, GoTo, Ops
  <2>8. OperationKnows'
    BY <1>3, <2>1, <2>2, <2>7 DEF OperationKnows, Maintaining
  <2>9. \A q \in Requests : Accounted(q)' /\ EvidenceDurable(q)'
    BY <2>3, <2>4, <2>6, UntouchedKept DEF RetentionInv
  <2>. QED  BY <1>1, <1>4, <2>8, <2>9 DEF RetentionInv
<1>. QED  BY <1>5, <1>6

-----------------------------------------------------------------------------
(* The steps of the worker and its job.                                     *)

(* They leave alone what the operation under way is about.                  *)
LEMMA WorkerApart ==
  ASSUME RetentionInv, op' = op, inputs' = inputs, disk'.inputs = disk.inputs,
         \A r \in Requests : job[r] \notin {"queued", "running"} => Untouched(r)
  PROVE  OperationKnows'
<1>. DEFINE r == op.request
<1>1. CASE op.step = "none"
  BY <1>1 DEF OperationKnows, Maintaining
<1>2. CASE op.step = "submit"
  BY <1>2 DEF RetentionInv, OperationKnows, Maintaining
<1>3. CASE op.step \in {"intent", "sync-intent", "upload", "publish", "sync-source"}
  <2>1. r \in Requests /\ job[r] = "absent"
    BY <1>3 DEF RetentionInv, OperationKnows
  <2>2. job'[r] = job[r]
    BY <2>1 DEF Untouched
  <2>. QED  BY <1>3, <2>1, <2>2 DEF RetentionInv, OperationKnows, Maintaining
<1>4. CASE op.step \in {"sync", "unlink"}
  BY <1>4 DEF RetentionInv, OperationKnows, Maintaining
<1>5. CASE op.step \in {"stage", "fill", "replace"}
  <2>1. r \in Requests /\ TargetAccounted(r) /\ op.target.schema \in {"settled", "pruning"}
    BY <1>5 DEF RetentionInv, OperationKnows, Maintaining
  <2>2. Accounts(op.target, inputs[r], PayloadsIn(r, inputs[r], logs, artifacts), job[r])
    BY <2>1 DEF TargetAccounted
  <2>3. job[r] \in Certain
    BY <2>1, <2>2, IntentFields DEF Accounts
  <2>4. TargetAccounted(r)'
    BY <2>1, <2>3, TargetKept DEF Certain
  <2>. QED  BY <1>5, <2>1, <2>4 DEF OperationKnows, Maintaining
<1>. QED
  BY <1>1, <1>2, <1>3, <1>4, <1>5, Typed DEF RetentionInv, Steps

(* Until a job ends its intent is the reservation, and its source is there. *)
LEMMA LiveJob ==
  ASSUME RetentionInv, NEW r \in Requests, job[r] \in {"queued", "running"}
  PROVE  /\ ~Maintained(inputs[r]) /\ ~Maintained(disk.inputs[r])
         /\ \A entry \in {inputs[r], disk.inputs[r]} :
              entry.intent = Reserved /\ entry.source /\ ~entry.part
<1>1. ASSUME NEW entry \in {inputs[r], disk.inputs[r]}
      PROVE  entry.intent = Reserved /\ entry.source /\ ~entry.part
  <2>1. Accounts(entry.intent, entry, PayloadsIn(r, entry, logs, artifacts), job[r])
    BY DEF RetentionInv, Accounted
  <2>. QED  BY <2>1, IntentFields DEF Accounts, Certain
<1>. QED  BY <1>1, IntentFields DEF Maintained

LEMMA JobFilesStep ==
  ASSUME RetentionInv, NEW r \in Requests,
         CreateLog(r) \/ StageBundle(r) \/ PublishBundle(r) \/ DropBundle(r)
  PROVE  RetentionInv'
<1>1. TypeOK /\ TypeOK'
  BY WorkerTypes DEF RetentionInv, WorkerNext
<1>2. /\ UNCHANGED <<inputs, op, job, worker>> /\ worker = r /\ disk'.inputs = disk.inputs
  BY <1>1, Typed DEF CreateLog, StageBundle, PublishBundle, DropBundle, Dirs
<1>3. job[r] = "running"
  BY <1>2, BuildRetentionAssumption DEF RetentionInv
<1>4. \A q \in Requests \ {r} : Untouched(q)
  <2>1. CASE CreateLog(r)
    BY <1>1, <1>2, <2>1, Typed DEF CreateLog, Dirs, Untouched, Same
  <2>2. CASE StageBundle(r) \/ DropBundle(r)
    BY <1>2, <2>2, NamesDiffer DEF StageBundle, DropBundle, Untouched, Same
  <2>3. CASE PublishBundle(r)
    <3>1. disk'.artifacts = artifacts \cup {Bundle(r)} /\ disk'.logs = disk.logs
      BY <1>1, <2>3, Typed DEF PublishBundle, Dirs
    <3>. QED  BY <1>2, <2>3, <3>1, NamesDiffer DEF PublishBundle, Untouched, Same
  <2>. QED  BY <2>1, <2>2, <2>3
<1>5. EvidenceDurable(r)'
  <2>1. EvidenceDurable(r) /\ ~Maintained(inputs[r]) /\ ~Maintained(disk.inputs[r])
    BY <1>3, LiveJob DEF RetentionInv
  <2>2. CASE CreateLog(r)
    BY <1>1, <1>2, <2>1, <2>2, Typed DEF CreateLog, Dirs, EvidenceDurable, Maintained
  <2>3. CASE StageBundle(r) \/ DropBundle(r)
    BY <1>2, <2>1, <2>3, NamesDiffer DEF StageBundle, DropBundle, EvidenceDurable, Maintained
  <2>4. CASE PublishBundle(r)
    <3>1. disk'.artifacts = artifacts \cup {Bundle(r)} /\ disk'.logs = disk.logs
      BY <1>1, <2>4, Typed DEF PublishBundle, Dirs
    <3>. QED
      BY <1>2, <2>1, <2>4, <3>1, NamesDiffer DEF PublishBundle, EvidenceDurable, Maintained
  <2>. QED  BY <2>2, <2>3, <2>4
<1>6. Accounted(r)'
  <2>1. \A entry \in {inputs[r], disk.inputs[r]} : \A there : Accounts(entry.intent, entry, there, "running")
    BY <1>3, LiveJob DEF Accounts
  <2>. QED  BY <1>2, <1>3, <2>1 DEF Accounted
<1>7. \A q \in Requests : Accounted(q)' /\ EvidenceDurable(q)'
  BY <1>4, <1>5, <1>6, UntouchedKept DEF RetentionInv
<1>8. OperationKnows'
  BY <1>2, <1>3, <1>4, WorkerApart
<1>. QED  BY <1>1, <1>2, <1>7, <1>8 DEF RetentionInv

(* A job starts, ends or is recovered.                                      *)
LEMMA JobStateStep ==
  ASSUME RetentionInv, NEW r \in Requests,
         \/ StartJob(r) \/ RecoverJob(r) \/ EndQueued(r)
         \/ \E outcome \in {"succeeded", "failed"} : FinishJob(r, outcome)
  PROVE  RetentionInv'
<1>1. TypeOK /\ TypeOK'
  BY WorkerTypes DEF RetentionInv, WorkerNext
<1>2. UNCHANGED <<inputs, logs, artifacts, disk, op>>
  BY DEF StartJob, RecoverJob, EndQueued, FinishJob, directories
<1>3. /\ job[r] \in {"queued", "running"}
      /\ \A q \in Requests \ {r} : job'[q] = job[q]
      /\ job'[r] \in {"running", "uncertain"} \cup Certain
      /\ worker' # None => job'[worker'] = "running"
  <2>1. CASE StartJob(r) \/ RecoverJob(r)
    BY <1>1, <2>1 DEF StartJob, RecoverJob, TypeOK
  <2>2. CASE EndQueued(r)
    BY <1>1, <2>2 DEF EndQueued, TypeOK, RetentionInv, Certain
  <2>3. ASSUME NEW outcome \in {"succeeded", "failed"}, FinishJob(r, outcome)
        PROVE  /\ job[r] \in {"queued", "running"}
               /\ \A q \in Requests \ {r} : job'[q] = job[q]
               /\ job'[r] \in {"running", "uncertain"} \cup Certain
               /\ worker' # None => job'[worker'] = "running"
    BY <1>1, <2>3, BuildRetentionAssumption DEF FinishJob, TypeOK, RetentionInv, Certain
  <2>. QED  BY <2>1, <2>2, <2>3
<1>4. \A q \in Requests \ {r} : Untouched(q)
  BY <1>2, <1>3 DEF Untouched, Same
<1>5. EvidenceDurable(r)'
  BY <1>2 DEF RetentionInv, EvidenceDurable, Maintained
<1>6. ASSUME job'[r] = "succeeded", NEW entry \in {inputs[r], disk.inputs[r]},
             NEW l \in {logs, disk.logs}, NEW a \in {artifacts, disk.artifacts}
      PROVE  PayloadsIn(r, entry, l, a) = Kinds
  <2>1. Bundle(r) \in artifacts
    BY <1>1, <1>6 DEF StartJob, RecoverJob, EndQueued, FinishJob, TypeOK
  <2>2. EvidenceDurable(r) /\ ~Maintained(inputs[r]) /\ entry.source
    BY <1>3, LiveJob DEF RetentionInv
  <2>3. r \in l /\ Bundle(r) \in a
    BY <2>1, <2>2 DEF EvidenceDurable
  <2>. QED  BY <2>2, <2>3 DEF PayloadsIn, Kinds
<1>7. ASSUME NEW entry \in {inputs[r], disk.inputs[r]},
             NEW l \in {logs, disk.logs}, NEW a \in {artifacts, disk.artifacts}
      PROVE  Accounts(entry.intent, entry, PayloadsIn(r, entry, l, a), job'[r])
  BY <1>3, <1>6, LiveJob DEF Accounts
<1>8. Accounted(r)'
  BY <1>2, <1>7 DEF Accounted
<1>9. \A q \in Requests : Accounted(q)' /\ EvidenceDurable(q)'
  BY <1>4, <1>5, <1>8, UntouchedKept DEF RetentionInv
<1>10. OperationKnows'
  BY <1>2, <1>3, <1>4, WorkerApart
<1>. QED  BY <1>1, <1>3, <1>9, <1>10 DEF RetentionInv

LEMMA WorkerStep == ASSUME RetentionInv, WorkerNext PROVE RetentionInv'
<1>1. CASE WorkerDies
  <2>1. UNCHANGED <<inputs, logs, artifacts, disk, op, job>> /\ worker' = None
    BY <1>1 DEF WorkerDies, directories
  <2>2. \A q \in Requests : Untouched(q)
    BY <2>1 DEF Untouched, Same
  <2>. QED  BY <2>1, <2>2, AllUntouched, WorkerApart, WorkerTypes DEF RetentionInv
<1>. QED  BY <1>1, JobFilesStep, JobStateStep DEF WorkerNext

-----------------------------------------------------------------------------
(* Maintenance.                                                             *)

(* An operation begins: what is staged goes, and it has something to do.    *)
LEMMA MaintenanceBegins ==
  ASSUME RetentionInv, NEW r \in Known, NEW candidates, DiscardStaged(r, candidates),
         NEW step \in {"stage", "unlink"}, NEW target \in Intents,
         target.schema \in {"settled", "pruning"}, Begin(r, step, target),
         UNCHANGED <<logs, artifacts, job, worker, faults>>,
         step = "stage" => TargetAccounted(r)',
         step = "unlink" => inputs[r].intent = target /\ disk'.inputs = inputs'
  PROVE  RetentionInv'
<1>1. TypeOK /\ r \in Requests
  BY DEF RetentionInv, Known
<1>2. /\ inputs' \in [Requests -> Entry] /\ disk' \in Dirs
      /\ disk'.logs = disk.logs /\ disk'.artifacts = disk.artifacts
      /\ disk'.inputs = inputs' \/ disk'.inputs = disk.inputs
      /\ \A q \in Requests : Same(inputs'[q], inputs[q])
  BY <1>1, Discarded
<1>3. \A q \in Requests : Untouched(q)
  BY <1>2 DEF Untouched, Same
<1>4. op'.step = step /\ op'.request = r /\ op'.target = target /\ op' \in Ops
  BY <1>1, OpTypes DEF Begin, Steps
<1>5. TypeOK'
  BY <1>1, <1>2, <1>4 DEF TypeOK, Ops, Dirs
<1>6. OperationKnows'
  BY <1>1, <1>2, <1>4 DEF OperationKnows, Maintaining, Same
<1>7. worker' # None => job'[worker'] = "running"
  BY DEF RetentionInv
<1>. QED  BY <1>3, <1>5, <1>6, <1>7, AllUntouched DEF RetentionInv

(* The settlement of a request records what every power loss would leave.   *)
LEMMA SettleStep ==
  ASSUME RetentionInv, NEW r \in Requests, Settle(r)
  PROVE  RetentionInv'
<1>1. /\ TypeOK /\ r \in Known /\ DiscardStaged(r, {Settled(r)}) /\ job[r] \in Certain
      /\ UNCHANGED <<logs, artifacts, job, worker, faults>>
      /\ inputs[r].intent.schema = "reserved" /\ Begin(r, "stage", Settled(r))
  BY DEF Settle, Maintainable, Plannable, RetentionInv
<1>2. /\ disk'.logs = disk.logs /\ disk'.artifacts = disk.artifacts
      /\ disk'.inputs = inputs' \/ disk'.inputs = disk.inputs
      /\ Same(inputs'[r], inputs[r])
  BY <1>1, Discarded
<1>3. /\ Settled(r) \in Intents /\ Settled(r).schema = "settled" /\ Settled(r).recorded = Payloads(r)
      /\ Settled(r).done = {} /\ Settled(r).pending = {}
      /\ Settled(r).charge = 1 + Cardinality(Payloads(r))
  BY <1>1, TargetTypes DEF Settled, Intent
<1>4. EvidenceDurable(r) /\ ~Maintained(inputs[r]) /\ ~Maintained(disk.inputs[r])
  BY <1>1 DEF RetentionInv, EvidenceDurable, Maintained
<1>5. ASSUME NEW entry \in {inputs[r], disk.inputs[r]}, NEW l \in {logs, disk.logs},
             NEW a \in {artifacts, disk.artifacts}
      PROVE  /\ entry.source /\ ~entry.part
             /\ PayloadsIn(r, entry, l, a) = Payloads(r)
             /\ job[r] = "succeeded" => Payloads(r) = Kinds
  <2>1. \A e \in {inputs[r], disk.inputs[r]} :
          /\ Accounts(e.intent, e, PayloadsIn(r, e, l, a), job[r])
          /\ e.source /\ ~e.part
          /\ job[r] = "succeeded" => PayloadsIn(r, e, l, a) = Kinds
    <3>1. ASSUME NEW e \in {inputs[r], disk.inputs[r]}
          PROVE  Accounts(e.intent, e, PayloadsIn(r, e, l, a), job[r])
      BY DEF RetentionInv, Accounted
    <3>2. ASSUME NEW e \in {inputs[r], disk.inputs[r]}
          PROVE  ~Maintained(e) /\ job[r] # "absent"
      BY <1>1, <1>4 DEF Certain
    <3>. QED  BY <3>1, <3>2 DEF Accounts, Maintained
  <2>2. r \in l <=> r \in logs
    BY <1>4 DEF EvidenceDurable
  <2>3. Bundle(r) \in a <=> Bundle(r) \in artifacts
    BY <1>4 DEF EvidenceDurable
  <2>4. entry.source <=> inputs[r].source
    BY <2>1
  <2>5. PayloadsIn(r, entry, l, a) = Payloads(r)
    BY <2>2, <2>3, <2>4, SamePayloads DEF Payloads
  <2>. QED  BY <2>1, <2>5
<1>6. TargetAccounted(r)'
  <2>. SUFFICES ASSUME NEW entry \in {inputs'[r], disk'.inputs[r]}, NEW l \in {logs, disk.logs},
                       NEW a \in {artifacts, disk.artifacts}
                PROVE  Accounts(Settled(r), entry, PayloadsIn(r, entry, l, a), job[r])
    BY <1>1, <1>2 DEF TargetAccounted, Begin
  <2>1. PICK other \in {inputs[r], disk.inputs[r]} : Same(entry, other)
    BY <1>2 DEF Same
  <2>2. PayloadsIn(r, entry, l, a) = PayloadsIn(r, other, l, a)
    BY <2>1, SamePayloads DEF Same
  <2>3. PayloadsIn(r, entry, l, a) = Payloads(r) /\ ~entry.part
    BY <1>5, <2>1, <2>2 DEF Same
  <2>4. Settled(r).recorded \ Settled(r).done = Payloads(r)
    BY <1>3
  <2>. QED  BY <1>1, <1>3, <1>5, <2>3, <2>4 DEF Accounts
<1>. QED  BY <1>1, <1>3, <1>6, MaintenanceBegins

(* A pruning only announces what it will take.                              *)
LEMMA PruneStep ==
  ASSUME RetentionInv, NEW r \in Requests, NEW kinds \in SUBSET Kinds, Prune(r, kinds)
  PROVE  RetentionInv'
<1>. DEFINE intent == inputs[r].intent
            target == Pruning(intent, kinds)
<1>1. /\ TypeOK /\ r \in Known /\ DiscardStaged(r, {target, Pruned(target)})
      /\ UNCHANGED <<logs, artifacts, job, worker, faults>>
      /\ intent.schema \in {"settled", "pruning"} /\ intent.pending = {}
      /\ kinds \cap intent.done = {} /\ Begin(r, "stage", target)
  BY DEF Prune, Maintainable, RetentionInv
<1>2. intent \in Intents
  BY <1>1, Typed DEF Entry
<1>3. /\ disk'.logs = disk.logs /\ disk'.artifacts = disk.artifacts
      /\ disk'.inputs = inputs' /\ Same(inputs'[r], inputs[r])
  BY <1>1, Discarded DEF Maintained
<1>4. /\ target \in Intents /\ target.schema = "pruning" /\ target.recorded = intent.recorded
      /\ target.done = intent.done /\ target.pending = kinds /\ target.charge = intent.charge
  BY <1>1, <1>2, TargetTypes DEF Pruning, Intents
<1>. HIDE DEF target
<1>5. TargetAccounted(r)'
  <2>. SUFFICES ASSUME NEW l \in {logs, disk.logs}, NEW a \in {artifacts, disk.artifacts}
                PROVE  Accounts(target, inputs'[r], PayloadsIn(r, inputs'[r], l, a), job[r])
    BY <1>1, <1>3 DEF TargetAccounted, Begin
  <2>1. PayloadsIn(r, inputs'[r], l, a) = PayloadsIn(r, inputs[r], l, a)
    BY <1>3, SamePayloads DEF Same
  <2>2. Accounts(intent, inputs[r], PayloadsIn(r, inputs[r], l, a), job[r])
    BY DEF RetentionInv, Accounted
  <2>3. intent \notin {Absent, Torn, Reserved}
    BY <1>1, IntentFields
  <2>4. Accounts(target, inputs[r], PayloadsIn(r, inputs[r], l, a), job[r])
    BY <1>1, <1>4, <2>2, <2>3 DEF Accounts
  <2>. QED  BY <1>3, <2>1, <2>4, SameAccounts
<1>. QED  BY <1>1, <1>4, <1>5, MaintenanceBegins

LEMMA ResumeStep ==
  ASSUME RetentionInv, NEW r \in Requests, Resume(r)
  PROVE  RetentionInv'
<1>. DEFINE intent == inputs[r].intent
<1>1. /\ TypeOK /\ r \in Known /\ DiscardStaged(r, {intent, Pruned(intent)})
      /\ UNCHANGED <<logs, artifacts, job, worker, faults>>
      /\ intent.pending # {} /\ Begin(r, "unlink", intent)
  BY DEF Resume, Maintainable, RetentionInv
<1>2. intent \in Intents
  BY <1>1, Typed DEF Entry
<1>3. Accounts(intent, inputs[r], PayloadsIn(r, inputs[r], logs, artifacts), job[r])
  BY DEF RetentionInv, Accounted
<1>4. intent.schema \in {"settled", "pruning"}
  BY <1>1, <1>3, IntentFields DEF Accounts
<1>5. disk'.inputs = inputs'
  BY <1>1, <1>4, Discarded DEF Maintained
<1>. QED  BY <1>1, <1>2, <1>4, <1>5, MaintenanceBegins

(* What an operation is pruning, its intent is durable for.                 *)
LEMMA UnlinkStep ==
  ASSUME RetentionInv, NEW r \in Requests, NEW kind \in Kinds, Unlink(r, kind)
  PROVE  RetentionInv'
<1>1. /\ TypeOK /\ UNCHANGED <<disk, op, job, worker, faults>>
      /\ op.step = "unlink" /\ op.request = r /\ kind \in op.target.pending
      /\ inputs[r].intent = op.target /\ disk.inputs[r].intent = op.target
      /\ op.target.schema \in {"settled", "pruning"} /\ inputs[r] \in Entry
  BY Typed DEF Unlink, RetentionInv, OperationKnows, Maintaining
<1>2. /\ inputs' \in [Requests -> Entry] /\ \A q \in Requests \ {r} : inputs'[q] = inputs[q]
      /\ inputs'[r].intent = inputs[r].intent /\ inputs'[r].part = inputs[r].part
      /\ inputs'[r].source = (inputs[r].source /\ kind # "source")
  BY <1>1, Typed DEF Unlink, Entry
<1>3. /\ logs' \in SUBSET Requests /\ \A q \in Requests \ {r} : q \in logs' <=> q \in logs
      /\ r \in logs' <=> r \in logs /\ kind # "log"
  BY <1>1, Typed DEF Unlink
<1>4. /\ artifacts' \in SUBSET ({"bundle", "temporary"} \X Requests)
      /\ \A q \in Requests \ {r} : Bundle(q) \in artifacts' <=> Bundle(q) \in artifacts
      /\ Bundle(r) \in artifacts' <=> Bundle(r) \in artifacts /\ kind # "bundle"
      /\ \A q \in Requests : Temporary(q) \in artifacts' => Temporary(q) \in artifacts
  BY <1>1, Typed, NamesDiffer DEF Unlink
<1>5. TypeOK'
  BY <1>1, <1>2, <1>3, <1>4 DEF TypeOK
<1>6. \A q \in Requests \ {r} : Untouched(q)
  BY <1>1, <1>2, <1>3, <1>4 DEF Untouched, Same
<1>7. EvidenceDurable(r)'
  BY <1>1, <1>2 DEF EvidenceDurable, Maintained
<1>8. Accounted(r)'
  <2>. SUFFICES ASSUME NEW entry \in {inputs'[r], disk.inputs[r]}, NEW l \in {logs', disk.logs},
                       NEW a \in {artifacts', disk.artifacts}
                PROVE  Accounts(entry.intent, entry, PayloadsIn(r, entry, l, a), job[r])
    BY <1>1 DEF Accounted
  <2>1. PICK other \in {inputs[r], disk.inputs[r]} :
          /\ entry.intent = op.target /\ other.intent = op.target /\ entry.part = other.part
          /\ entry.source => other.source
          /\ other.source => entry.source \/ kind = "source"
    BY <1>1, <1>2
  <2>2. PICK m \in {logs, disk.logs} : /\ r \in l => r \in m
                                       /\ r \in m => r \in l \/ kind = "log"
    BY <1>3
  <2>3. PICK b \in {artifacts, disk.artifacts} :
          /\ Bundle(r) \in a => Bundle(r) \in b
          /\ Bundle(r) \in b => Bundle(r) \in a \/ kind = "bundle"
    BY <1>4
  <2>. DEFINE before == PayloadsIn(r, other, m, b)
              there == PayloadsIn(r, entry, l, a)
  <2>4. there \subseteq before /\ before \subseteq there \cup {kind}
    BY <2>1, <2>2, <2>3 DEF PayloadsIn
  <2>5. Accounts(op.target, other, before, job[r])
    BY <2>1 DEF RetentionInv, Accounted
  <2>6. op.target \notin {Absent, Torn, Reserved}
    BY <1>1, IntentFields
  <2>. HIDE DEF before, there
  <2>7. Accounts(op.target, entry, there, job[r])
    BY <1>1, <2>1, <2>4, <2>5, <2>6 DEF Accounts
  <2>. QED  BY <2>1, <2>7 DEF there
<1>9. OperationKnows'
  BY <1>1, <1>2 DEF OperationKnows, Maintaining
<1>10. \A q \in Requests : Accounted(q)' /\ EvidenceDurable(q)'
  BY <1>6, <1>7, <1>8, UntouchedKept DEF RetentionInv
<1>. QED  BY <1>1, <1>5, <1>9, <1>10 DEF RetentionInv

(* A credit is prepared once no power loss can bring back what it is for.   *)
LEMMA CreditStep ==
  ASSUME RetentionInv, NEW r \in Requests, SyncDeleted(r)
  PROVE  RetentionInv'
<1>. DEFINE target == Pruned(op.target)
<1>1. /\ TypeOK /\ UNCHANGED <<inputs, logs, artifacts, job, worker, faults>>
      /\ op.step = "unlink" /\ op.request = r /\ op.target \in Intents
      /\ inputs[r].intent = op.target /\ disk.inputs[r].intent = op.target
      /\ op.target.schema \in {"settled", "pruning"}
      /\ op.target.pending \cap Payloads(r) = {} /\ Begin(r, "stage", target)
  BY Typed DEF SyncDeleted, directories, RetentionInv, OperationKnows, Maintaining
<1>2. /\ disk'.inputs = IF "source" \in op.target.pending THEN inputs ELSE disk.inputs
      /\ disk'.logs = IF "log" \in op.target.pending THEN logs ELSE disk.logs
      /\ disk'.artifacts = IF "bundle" \in op.target.pending THEN artifacts ELSE disk.artifacts
      /\ disk' \in Dirs
  BY <1>1, Typed DEF SyncDeleted, Dirs
<1>3. \A q \in Requests : Untouched(q)
  BY <1>1, <1>2 DEF Untouched, Same
<1>4. op.target \notin {Absent, Torn, Reserved}
  BY <1>1, IntentFields
<1>5. Accounts(op.target, inputs[r], PayloadsIn(r, inputs[r], logs, artifacts), job[r])
  BY <1>1 DEF RetentionInv, Accounted
<1>6. /\ op.target.done \cap op.target.pending = {}
      /\ op.target.charge = 1 + Cardinality(op.target.recorded \ op.target.done)
  BY <1>4, <1>5 DEF Accounts
<1>7. /\ target \in Intents
      /\ target.charge = 1 + Cardinality(target.recorded \ target.done)
  BY <1>1, <1>6, CreditWithinCharge, TargetTypes
<1>8. /\ target.schema = op.target.schema /\ target.recorded = op.target.recorded
      /\ target.done = op.target.done \cup op.target.pending /\ target.pending = {}
  BY <1>1 DEF Pruned, Intents
<1>. HIDE DEF target
<1>9. TargetAccounted(r)'
  <2>. SUFFICES ASSUME NEW entry \in {inputs[r], disk'.inputs[r]}, NEW l \in {logs, disk'.logs},
                       NEW a \in {artifacts, disk'.artifacts}
                PROVE  Accounts(target, entry, PayloadsIn(r, entry, l, a), job[r])
    BY <1>1 DEF TargetAccounted, Begin
  <2>1. /\ entry \in {inputs[r], disk.inputs[r]} /\ l \in {logs, disk.logs}
        /\ a \in {artifacts, disk.artifacts}
    BY <1>2
  <2>. DEFINE there == PayloadsIn(r, entry, l, a)
  <2>2. Accounts(op.target, entry, there, job[r])
    BY <1>1, <2>1 DEF RetentionInv, Accounted
  <2>3. there \cap op.target.pending = {}
    BY <1>1, <1>2 DEF Payloads, PayloadsIn
  <2>. HIDE DEF there
  <2>4. Accounts(target, entry, there, job[r])
    BY <1>1, <1>4, <1>7, <1>8, <2>2, <2>3 DEF Accounts
  <2>. QED  BY <2>4 DEF there
<1>10. /\ op'.step = "stage" /\ op'.request = r /\ op'.target = target /\ op' \in Ops
  BY <1>1, <1>7, OpTypes DEF Begin, Steps
<1>11. OperationKnows'
  BY <1>1, <1>8, <1>9, <1>10 DEF OperationKnows, Maintaining
<1>12. TypeOK'
  BY <1>1, <1>2, <1>10 DEF TypeOK, Ops, Dirs
<1>. QED  BY <1>1, <1>3, <1>11, <1>12, AllUntouched DEF RetentionInv

-----------------------------------------------------------------------------
(* The invariant and what follows from it.                                  *)

LEMMA RetentionInductive == ASSUME RetentionInv, [Next]_vars PROVE RetentionInv'
<1>1. CASE Continue
  <2>1. ASSUME NEW r \in Requests, NEW kind \in Kinds, Unlink(r, kind) PROVE RetentionInv'
    BY <2>1, UnlinkStep
  <2>2. ASSUME NEW r \in Requests,
               \/ WriteIntent(r) \/ Upload(r) \/ Publish(r) \/ Submit(r)
               \/ Stage(r) \/ Fill(r) \/ Replace(r) \/ SyncDeleted(r)
        PROVE  RetentionInv'
    BY <2>2, AdmissionStep, SubmitStep, SaveStep, CreditStep
  <2>3. CASE SyncIntent \/ SyncSource \/ SyncSave
    BY <2>3, SyncStep
  <2>. QED  BY <1>1, <2>1, <2>2, <2>3 DEF Continue
<1>2. ASSUME NEW r \in Requests,
             \/ CreateIntent(r) \/ AdmitAgain(r) \/ Settle(r) \/ Resume(r)
             \/ (\E kinds \in SUBSET Kinds : Prune(r, kinds)) \/ SaveFails(r)
      PROVE  RetentionInv'
  BY <1>2, AdmissionStep, SyncStep, SettleStep, ResumeStep, PruneStep, SaveStep
<1>3. CASE UNCHANGED vars
  <2>1. UNCHANGED <<inputs, logs, artifacts, disk, op, job, worker, faults>>
    BY <1>3 DEF vars, directories
  <2>2. \A q \in Requests : Untouched(q)
    BY <2>1 DEF Untouched, Same
  <2>3. TypeOK' /\ OperationKnows'
    BY <2>1 DEF RetentionInv, TypeOK, OperationKnows, Maintaining, TargetAccounted
  <2>. QED  BY <2>1, <2>2, <2>3, AllUntouched DEF RetentionInv
<1>. QED  BY <1>1, <1>2, <1>3, WorkerStep, SyncStep, LossStep DEF Next

LEMMA RetentionInitially == Init => RetentionInv
<1>. SUFFICES ASSUME Init PROVE RetentionInv
  OBVIOUS
<1>1. NoEntry \in Entry /\ NoOp \in Ops
  BY IntentFields DEF NoEntry, Entry, NoOp, Ops, Steps
<1>2. TypeOK
  BY <1>1, BuildRetentionAssumption DEF Init, TypeOK, Ops
<1>3. ASSUME NEW r \in Requests PROVE Accounted(r) /\ EvidenceDurable(r)
  <2>1. inputs[r] = NoEntry /\ disk.inputs[r] = NoEntry /\ job[r] = "absent"
    BY DEF Init
  <2>2. \A there : Accounts(NoEntry.intent, NoEntry, there, "absent")
    BY DEF Accounts, NoEntry
  <2>3. Accounted(r)
    BY <2>1, <2>2 DEF Accounted
  <2>4. EvidenceDurable(r)
    BY <2>1, IntentFields DEF Init, EvidenceDurable, Maintained, NoEntry
  <2>. QED  BY <2>3, <2>4
<1>4. OperationKnows
  BY DEF Init, OperationKnows, NoOp, Maintaining
<1>. QED  BY <1>2, <1>3, <1>4 DEF Init, RetentionInv

(* Every combination of cached and durable directories accounts for its      *)
(* files, whatever operation is under way or was interrupted.                *)
THEOREM RetentionInvariance == Spec => []RetentionInv
BY RetentionInitially, RetentionInductive, PTL DEF Spec

(* What the running system sees of one request.                             *)
LEMMA Seen ==
  ASSUME RetentionInv, NEW r \in Requests
  PROVE  /\ Accounts(inputs[r].intent, inputs[r], Payloads(r), job[r])
         /\ inputs[r].intent \in Intents /\ Payloads(r) \in SUBSET Kinds
BY Typed DEF RetentionInv, Accounted, Payloads, PayloadsIn, Entry

(* An intent that accounts for what is there keeps its evidence.            *)
LEMMA AccountedEvidence ==
  ASSUME NEW intent \in Intents, NEW entry, NEW there \in SUBSET Kinds, NEW state,
         Accounts(intent, entry, there, state), entry.source => "source" \in there
  PROVE  /\ state \in {"queued", "running"} => "source" \notin Kinds \ there
         /\ state = "succeeded" => Kinds \ there \subseteq intent.done \cup intent.pending
         /\ intent.recorded \cap (Kinds \ there) \subseteq intent.done \cup intent.pending
         /\ intent.done \subseteq Kinds \ there
<1>1. intent.done \in SUBSET Kinds /\ intent.recorded \in SUBSET Kinds
  BY DEF Intents
<1>2. CASE intent \in {Absent, Torn} /\ state = "absent"
  BY <1>2, IntentFields
<1>3. CASE /\ intent = Reserved /\ (state # "absent" => entry.source)
           /\ (state = "succeeded" => there = Kinds)
  BY <1>3, IntentFields
<1>4. CASE /\ state \in Certain
           /\ intent.recorded \ (intent.done \cup intent.pending) \subseteq there
           /\ there \subseteq intent.recorded \ intent.done
           /\ (state = "succeeded" => intent.recorded = Kinds)
  BY <1>1, <1>4 DEF Certain
<1>. QED  BY <1>2, <1>3, <1>4 DEF Accounts

(* Evidence is kept, for any number of requests, faults and power losses: a  *)
(* live job has its source, a receipt what it certifies, and nothing that was *)
(* credited comes back.                                                      *)
THEOREM EvidenceIsKept == Spec => []EvidenceKept
<1>1. ASSUME RetentionInv, NEW r \in Requests
      PROVE  /\ Accounts(inputs[r].intent, inputs[r], Payloads(r), job[r])
             /\ inputs[r].intent \in Intents /\ Payloads(r) \in SUBSET Kinds
             /\ inputs[r].source => "source" \in Payloads(r)
  BY <1>1, Seen DEF Payloads, PayloadsIn, Kinds
<1>2. RetentionInv => EvidenceKept
  BY <1>1, AccountedEvidence DEF EvidenceKept
<1>. QED  BY <1>2, RetentionInvariance, PTL

(* A credit is given once and in full, whatever was interrupted meanwhile.  *)
THEOREM CreditsAreExact == Spec => []CreditsExact
<1>1. ASSUME RetentionInv, NEW r \in Known,
             inputs[r].intent.schema \in {"settled", "pruning"}, inputs[r].intent.pending = {}
      PROVE  inputs[r].intent.charge = 1 + Cardinality(Payloads(r))
  <2>1. r \in Requests /\ inputs[r].intent \notin {Absent, Torn, Reserved}
    BY <1>1, IntentFields DEF Known
  <2>2. /\ inputs[r].intent.charge =
             1 + Cardinality(inputs[r].intent.recorded \ inputs[r].intent.done)
        /\ inputs[r].intent.recorded \ inputs[r].intent.done = Payloads(r)
    BY <1>1, <2>1, Seen DEF Accounts
  <2>. QED  BY <2>2
<1>2. RetentionInv => CreditsExact
  BY <1>1 DEF CreditsExact
<1>. QED  BY <1>2, RetentionInvariance, PTL

(* No file is there that its request is not charged for.                    *)
THEOREM FilesAreCharged == Spec => []FilesCharged
<1>1. ASSUME RetentionInv, NEW r \in Known
      PROVE  inputs[r].intent.charge >= Files(r)
  <2>. DEFINE there == Payloads(r)
              intent == inputs[r].intent
  <2>1. /\ r \in Requests /\ intent \notin {Absent, Torn}
    BY IntentFields DEF Known
  <2>2. Accounts(intent, inputs[r], there, job[r]) /\ there \in SUBSET Kinds /\ intent \in Intents
    BY <1>1, <2>1, Seen
  <2>3. Cardinality(there) \in Nat /\ Cardinality(there) <= 3
    BY <2>2, KindsFinite
  <2>4. CASE intent.schema \in {"settled", "pruning"}
    <3>1. /\ ~inputs[r].part /\ there \subseteq intent.recorded \ intent.done
          /\ intent.charge = 1 + Cardinality(intent.recorded \ intent.done)
      BY <2>1, <2>2, <2>4, IntentFields DEF Accounts
    <3>2. intent.recorded \ intent.done \in SUBSET Kinds
      BY <2>2 DEF Intents
    <3>3. Cardinality(there) <= Cardinality(intent.recorded \ intent.done)
      BY <3>1, <3>2, KindsFinite, FS_Subset
    <3>4. Cardinality(intent.recorded \ intent.done) \in Nat
      BY <3>2, KindsFinite
    <3>. QED  BY <2>3, <3>1, <3>3, <3>4 DEF Files
  <2>5. CASE intent = Reserved
    <3>1. ~(inputs[r].source /\ inputs[r].part)
      BY <2>1, <2>2, <2>5, IntentFields DEF Accounts
    <3>2. inputs[r].part => Cardinality(there) <= 2
      <4>1. ASSUME inputs[r].part PROVE there \subseteq Kinds \ {"source"}
        BY <3>1, <4>1 DEF Payloads, PayloadsIn
      <4>2. Cardinality(Kinds \ {"source"}) = 2 /\ IsFiniteSet(Kinds \ {"source"})
        <5>1. "source" \in Kinds
          BY DEF Kinds
        <5>. QED  BY <5>1, KindsFinite, FS_RemoveElement
      <4>. QED  BY <4>1, <4>2, FS_Subset
    <3>. QED  BY <2>3, <2>5, <3>2, IntentFields, BuildRetentionAssumption DEF Files
  <2>6. intent = Reserved \/ intent.schema \in {"settled", "pruning"}
    BY <2>1, <2>2 DEF Accounts
  <2>. QED  BY <2>4, <2>5, <2>6
<1>2. RetentionInv => FilesCharged
  BY <1>1 DEF FilesCharged
<1>. QED  BY <1>2, RetentionInvariance, PTL

-----------------------------------------------------------------------------
(* Sums over finite sets.                                                   *)

(* Induction, for the members of a set.                                      *)
LEMMA SetInduction ==
  ASSUME NEW W, 0 \in W, \A n \in Nat : n \in W => n + 1 \in W
  PROVE  Nat \subseteq W
<1>. DEFINE T == Nat \ W
            R == {ss \in Nat \X Nat : ss[1] < ss[2]}
<1>. SUFFICES ASSUME T # {} PROVE FALSE
  OBVIOUS
<1>1. IsWellFoundedOn(R, Nat)
  BY NatLessThanWellFounded DEF OpToRel
<1>2. T \subseteq Nat
  OBVIOUS
<1>3. PICK x \in T : \A y \in T : ~(<<y, x>> \in R)
  <2>. HIDE DEF T, R
  <2>. QED  BY <1>1, <1>2, WFMin
<1>4. x # 0 /\ x \in Nat
  OBVIOUS
<1>5. x - 1 \in Nat /\ x - 1 + 1 = x /\ x - 1 < x
  BY <1>4
<1>6. x - 1 \notin T
  BY <1>3, <1>4, <1>5
<1>7. x - 1 \in W
  BY <1>5, <1>6
<1>8. x \in W
  BY <1>5, <1>7
<1>. QED  BY <1>8

(* The same for the subsets of a finite set.                                 *)
LEMMA SubsetInduction ==
  ASSUME NEW S, IsFiniteSet(S), NEW W,
         \A s \in SUBSET S : (\A x \in s : s \ {x} \in W) => s \in W
  PROVE  SUBSET S \subseteq W
<1>. DEFINE N == {n \in Nat : \A s \in SUBSET S : Cardinality(s) = n => s \in W}
<1>1. \A s \in SUBSET S : IsFiniteSet(s) /\ Cardinality(s) \in Nat
  BY FS_Subset, FS_CardinalityType
<1>2. 0 \in N
  <2>1. ASSUME NEW s \in SUBSET S, Cardinality(s) = 0 PROVE s \in W
    <3>1. s = {}
      BY <1>1, <2>1, FS_EmptySet
    <3>. QED  BY <3>1
  <2>. QED  BY <2>1
<1>3. ASSUME NEW n \in Nat, n \in N PROVE n + 1 \in N
  <2>1. ASSUME NEW s \in SUBSET S, Cardinality(s) = n + 1 PROVE s \in W
    <3>1. ASSUME NEW x \in s PROVE s \ {x} \in W
      <4>1. Cardinality(s \ {x}) = Cardinality(s) - 1
        BY <1>1, FS_RemoveElement
      <4>2. Cardinality(s \ {x}) = n
        BY <2>1, <4>1
      <4>. QED  BY <1>3, <4>2
    <3>. QED  BY <3>1
  <2>. QED  BY <1>3, <2>1
<1>4. Nat \subseteq N
  <2>. HIDE DEF N
  <2>. QED  BY <1>2, <1>3, SetInduction
<1>. QED  BY <1>1, <1>4

(* The folds of the community modules over a set choose one element after the *)
(* other.  A function that sums up f over the subsets of S in this order ...  *)
Chosen(s) == CHOOSE x \in s : TRUE

Sums(g, f, S) ==
  g = [s \in SUBSET S |-> IF s = {} THEN 0 ELSE f[Chosen(s)] + g[s \ {Chosen(s)}]]

LEMMA SumStep ==
  ASSUME NEW g, NEW f, NEW S, Sums(g, f, S), NEW s \in SUBSET S
  PROVE  /\ s = {} => g[s] = 0
         /\ s # {} => Chosen(s) \in s /\ g[s] = f[Chosen(s)] + g[s \ {Chosen(s)}]
<1>. DEFINE h == [t \in SUBSET S |-> IF t = {} THEN 0 ELSE f[Chosen(t)] + g[t \ {Chosen(t)}]]
<1>1. g[s] = h[s]
  BY DEF Sums
<1>2. h[s] = IF s = {} THEN 0 ELSE f[Chosen(s)] + g[s \ {Chosen(s)}]
  OBVIOUS
<1>3. s # {} => Chosen(s) \in s
  BY DEF Chosen
<1>. QED  BY <1>1, <1>2, <1>3

(* ... exists, ...                                                          *)
LEMMA SumExists ==
  ASSUME NEW S, IsFiniteSet(S), NEW f
  PROVE  \E g : Sums(g, f, S)
<1>. DEFINE Upto(n) == {s \in SUBSET S : Cardinality(s) <= n}
            P(g, n) == g = [s \in Upto(n) |-> IF s = {} THEN 0 ELSE f[Chosen(s)] + g[s \ {Chosen(s)}]]
            N == {n \in Nat : \E g : P(g, n)}
<1>1. \A s \in SUBSET S : IsFiniteSet(s) /\ Cardinality(s) \in Nat
  BY FS_Subset, FS_CardinalityType
<1>2. 0 \in N
  <2>. DEFINE g == [s \in Upto(0) |-> 0]
  <2>1. \A s \in Upto(0) : s = {}
    BY <1>1, FS_EmptySet
  <2>2. P(g, 0)
    BY <2>1
  <2>. QED  BY <2>2
<1>3. ASSUME NEW n \in Nat, n \in N PROVE n + 1 \in N
  <2>1. PICK g : P(g, n)
    BY <1>3
  <2>. DEFINE V(s) == IF s = {} THEN 0 ELSE f[Chosen(s)] + g[s \ {Chosen(s)}]
              h == [s \in Upto(n + 1) |-> V(s)]
  <2>2. \A s \in Upto(n) : s \in Upto(n + 1) /\ g[s] = V(s)
    <3>1. \A s \in Upto(n) : s \in Upto(n + 1)
      BY <1>1
    <3>2. g = [s \in Upto(n) |-> V(s)]
      BY <2>1
    <3>. QED  BY <3>1, <3>2, Zenon
  <2>3. \A s \in Upto(n) : h[s] = g[s]
    BY <2>2
  <2>4. ASSUME NEW s \in Upto(n + 1), s # {} PROVE s \ {Chosen(s)} \in Upto(n)
    <3>1. Chosen(s) \in s
      BY <2>4 DEF Chosen
    <3>2. Cardinality(s \ {Chosen(s)}) = Cardinality(s) - 1
      BY <1>1, <3>1, FS_RemoveElement
    <3>. QED  BY <1>1, <3>2
  <2>5. \A s \in Upto(n + 1) : h[s] = IF s = {} THEN 0 ELSE f[Chosen(s)] + h[s \ {Chosen(s)}]
    <3>. HIDE DEF Upto
    <3>. QED  BY <2>3, <2>4
  <2>6. h = [s \in Upto(n + 1) |-> h[s]]
    OBVIOUS
  <2>7. P(h, n + 1)
    <3>. HIDE DEF h, Upto
    <3>. QED  BY <2>5, <2>6
  <2>. HIDE DEF P
  <2>. QED  BY <2>7
<1>4. Nat \subseteq N
  <2>. HIDE DEF N
  <2>. QED  BY <1>2, <1>3, SetInduction
<1>5. Cardinality(S) \in Nat /\ Upto(Cardinality(S)) = SUBSET S
  BY <1>1, FS_Subset
<1>6. PICK g : P(g, Cardinality(S))
  BY <1>4, <1>5
<1>. QED  BY <1>5, <1>6 DEF Sums

(* ... is a natural number everywhere, ...                                   *)
LEMMA SumNatural ==
  ASSUME NEW S, IsFiniteSet(S), NEW f, \A x \in S : f[x] \in Nat, NEW g, Sums(g, f, S)
  PROVE  \A s \in SUBSET S : g[s] \in Nat
<1>. DEFINE W == {s \in SUBSET S : g[s] \in Nat}
<1>1. ASSUME NEW s \in SUBSET S, \A x \in s : s \ {x} \in W PROVE s \in W
  <2>1. CASE s = {}
    <3>1. g[s] = 0
      BY <2>1, SumStep
    <3>. QED  BY <3>1
  <2>2. CASE s # {}
    <3>1. Chosen(s) \in s /\ g[s] = f[Chosen(s)] + g[s \ {Chosen(s)}]
      BY <2>2, SumStep
    <3>2. f[Chosen(s)] \in Nat /\ g[s \ {Chosen(s)}] \in Nat
      BY <1>1, <3>1
    <3>. QED  BY <3>1, <3>2
  <2>. QED  BY <2>1, <2>2
<1>2. SUBSET S \subseteq W
  <2>. HIDE DEF W
  <2>. QED  BY <1>1, SubsetInduction
<1>. QED  BY <1>2

(* ... does not depend on the order, ...                                     *)
LEMMA SumAdds ==
  ASSUME NEW S, IsFiniteSet(S), NEW f, \A x \in S : f[x] \in Nat, NEW g, Sums(g, f, S),
         NEW x \in S
  PROVE  g[S] = f[x] + g[S \ {x}]
<1>. DEFINE W == {s \in SUBSET S : \A y \in s : g[s] = f[y] + g[s \ {y}]}
<1>1. ASSUME NEW s \in SUBSET S, \A y \in s : s \ {y} \in W PROVE s \in W
  <2>1. ASSUME NEW y \in s PROVE g[s] = f[y] + g[s \ {y}]
    <3>. DEFINE c == Chosen(s)
    <3>1. c \in s /\ g[s] = f[c] + g[s \ {c}]
      BY <2>1, SumStep
    <3>2. CASE y = c
      BY <3>1, <3>2
    <3>3. CASE y # c
      <4>1. g[s \ {c}] = f[y] + g[(s \ {c}) \ {y}]
        BY <1>1, <3>1, <3>3
      <4>2. g[s \ {y}] = f[c] + g[(s \ {y}) \ {c}]
        BY <1>1, <3>1, <3>3
      <4>3. (s \ {c}) \ {y} = (s \ {y}) \ {c}
        OBVIOUS
      <4>4. f[y] \in Nat /\ f[c] \in Nat /\ g[(s \ {y}) \ {c}] \in Nat
        BY <3>1, SumNatural
      <4>5. g[s] = f[c] + (f[y] + g[(s \ {y}) \ {c}])
        BY <3>1, <4>1, <4>3, Zenon
      <4>6. \A i, j, k \in Nat : i + (j + k) = j + (i + k)
        OBVIOUS
      <4>7. g[s] = f[y] + (f[c] + g[(s \ {y}) \ {c}])
        BY <4>4, <4>5, <4>6, Zenon
      <4>. QED  BY <4>2, <4>7, Zenon
    <3>. QED  BY <3>2, <3>3
  <2>. QED  BY <2>1
<1>2. SUBSET S \subseteq W
  <2>. HIDE DEF W
  <2>. QED  BY <1>1, SubsetInduction
<1>. QED  BY <1>2

(* ... and grows with what is summed up.                                     *)
LEMMA SumMonotone ==
  ASSUME NEW S, NEW T, IsFiniteSet(S), IsFiniteSet(T), NEW f, NEW e,
         \A x \in S : f[x] \in Nat, \A x \in T : e[x] \in Nat,
         NEW g, Sums(g, f, S), NEW h, Sums(h, e, T), \A x \in S \cap T : f[x] <= e[x]
  PROVE  \A s \in SUBSET (S \cap T) : g[s] <= h[s]
<1>. DEFINE U == S \cap T
            W == {s \in SUBSET U : g[s] <= h[s]}
<1>1. ASSUME NEW s \in SUBSET U, \A x \in s : s \ {x} \in W PROVE s \in W
  <2>1. s \in SUBSET S /\ s \in SUBSET T
    OBVIOUS
  <2>2. CASE s = {}
    <3>1. g[s] = 0 /\ h[s] = 0
      BY <2>1, <2>2, SumStep
    <3>. QED  BY <3>1
  <2>3. CASE s # {}
    <3>. DEFINE c == Chosen(s)
    <3>1. c \in s /\ g[s] = f[c] + g[s \ {c}] /\ h[s] = e[c] + h[s \ {c}]
      BY <2>1, <2>3, SumStep
    <3>2. f[c] \in Nat /\ e[c] \in Nat /\ f[c] <= e[c]
      BY <3>1
    <3>3. g[s \ {c}] \in Nat /\ h[s \ {c}] \in Nat
      BY <2>1, SumNatural
    <3>4. g[s \ {c}] <= h[s \ {c}]
      BY <1>1, <3>1
    <3>. HIDE DEF c
    <3>. QED  BY <3>1, <3>2, <3>3, <3>4
  <2>. QED  BY <2>2, <2>3
<1>2. IsFiniteSet(U)
  BY FS_Subset
<1>3. SUBSET U \subseteq W
  <2>. HIDE DEF W, U
  <2>. QED  BY <1>1, <1>2, SubsetInduction
<1>. QED  BY <1>3

-----------------------------------------------------------------------------
(* The limit of the store.                                                  *)

(* The requests an input directory knows, what each is charged for, and all  *)
(* their charges together.                                                   *)
Admitted(i) == {r \in Requests : i[r].intent.schema \notin {"absent", "torn"}}

ChargesOf(i) == [r \in Requests |-> i[r].intent.charge]

Total(i) == MapThenSumSet(LAMBDA r : i[r].intent.charge, Admitted(i))

(* What the store computes from the cached directory.                       *)
LEMMA ChargedInTotal == Known = Admitted(inputs) /\ Charged = Total(inputs)
BY DEF Known, Charged, Admitted, Total, MapThenSumSet, MapThenFoldSet

(* The fold is one of the sums above.                                       *)
LEMMA TotalSums ==
  ASSUME NEW i \in [Requests -> Entry]
  PROVE  /\ IsFiniteSet(Admitted(i)) /\ Admitted(i) \subseteq Requests /\ Total(i) \in Nat
         /\ \A r \in Requests : ChargesOf(i)[r] = i[r].intent.charge /\ ChargesOf(i)[r] \in Nat
         /\ \E g : /\ Sums(g, ChargesOf(i), Admitted(i)) /\ Total(i) = g[Admitted(i)]
                  /\ \A s \in SUBSET Admitted(i) : g[s] \in Nat
                  /\ \A r \in Admitted(i) : Total(i) = ChargesOf(i)[r] + g[Admitted(i) \ {r}]
<1>. DEFINE A == Admitted(i)
            f == ChargesOf(i)
            P(g) == g = [s \in SUBSET A |-> IF s = {} THEN 0
                          ELSE i[CHOOSE x \in s : TRUE].intent.charge + g[s \ {CHOOSE x \in s : TRUE}]]
<1>1. A \subseteq Requests /\ IsFiniteSet(A)
  BY BuildRetentionAssumption, FS_Subset DEF Admitted
<1>2. \A r \in Requests : f[r] = i[r].intent.charge /\ f[r] \in Nat
  BY BuildRetentionAssumption DEF ChargesOf, Entry, Intents
<1>3. Total(i) = (CHOOSE g : P(g))[A]
  BY DEF Total, MapThenSumSet, MapThenFoldSet
<1>4. ASSUME NEW g PROVE P(g) <=> Sums(g, f, A)
  <2>1. ASSUME NEW s \in SUBSET A, s # {}
        PROVE  f[Chosen(s)] = i[CHOOSE x \in s : TRUE].intent.charge
    <3>1. Chosen(s) \in Requests
      BY <1>1, <2>1 DEF Chosen
    <3>2. f[Chosen(s)] = i[Chosen(s)].intent.charge
      BY <1>2, <3>1
    <3>. QED  BY <3>2 DEF Chosen
  <2>. HIDE DEF A, f
  <2>2. [s \in SUBSET A |-> IF s = {} THEN 0
            ELSE i[CHOOSE x \in s : TRUE].intent.charge + g[s \ {CHOOSE x \in s : TRUE}]]
        = [s \in SUBSET A |-> IF s = {} THEN 0 ELSE f[Chosen(s)] + g[s \ {Chosen(s)}]]
    BY <2>1 DEF Chosen
  <2>. QED  BY <2>2 DEF Sums
<1>. HIDE DEF A, f
<1>5. PICK e : Sums(e, f, A)
  BY <1>1, SumExists
<1>6. P(e)
  BY <1>4, <1>5
<1>7. \E g : P(g)
  <2>. HIDE DEF P
  <2>. QED  BY <1>6
<1>. DEFINE h == CHOOSE g : P(g)
<1>8. P(h)
  <2>. HIDE DEF P
  <2>. QED  BY <1>7
<1>9. Total(i) = h[A]
  BY <1>3
<1>. HIDE DEF h
<1>10. Sums(h, f, A)
  BY <1>4, <1>8
<1>11. \A x \in A : f[x] \in Nat
  BY <1>1, <1>2
<1>12. \A s \in SUBSET A : h[s] \in Nat
  <2>. HIDE DEF P
  <2>. QED  BY <1>1, <1>10, <1>11, SumNatural
<1>13. \A r \in A : h[A] = f[r] + h[A \ {r}]
  <2>. HIDE DEF P
  <2>. QED  BY <1>1, <1>10, <1>11, SumAdds
<1>14. Total(i) \in Nat /\ \A r \in A : Total(i) = f[r] + h[A \ {r}]
  BY <1>9, <1>12, <1>13
<1>. QED  BY <1>1, <1>2, <1>9, <1>10, <1>12, <1>14 DEF A, f

(* No request is charged more.                                              *)
LEMMA TotalNoMore ==
  ASSUME NEW i \in [Requests -> Entry], NEW j \in [Requests -> Entry], Admitted(j) = Admitted(i),
         \A r \in Admitted(i) : j[r].intent.charge <= i[r].intent.charge
  PROVE  Total(j) <= Total(i)
<1>1. PICK g : Sums(g, ChargesOf(i), Admitted(i)) /\ Total(i) = g[Admitted(i)]
  BY TotalSums
<1>2. PICK h : Sums(h, ChargesOf(j), Admitted(i)) /\ Total(j) = h[Admitted(i)]
  BY TotalSums
<1>3. /\ IsFiniteSet(Admitted(i)) /\ Admitted(i) \subseteq Requests
      /\ \A r \in Admitted(i) : /\ ChargesOf(i)[r] \in Nat /\ ChargesOf(j)[r] \in Nat
                                /\ ChargesOf(j)[r] <= ChargesOf(i)[r]
  BY TotalSums
<1>4. \A s \in SUBSET (Admitted(i) \cap Admitted(i)) : h[s] <= g[s]
  BY <1>1, <1>2, <1>3, SumMonotone
<1>. QED  BY <1>1, <1>2, <1>4

(* One request is admitted.                                                 *)
LEMMA TotalAdds ==
  ASSUME NEW i \in [Requests -> Entry], NEW j \in [Requests -> Entry],
         NEW r \in Requests \ Admitted(i), Admitted(j) = Admitted(i) \cup {r},
         \A q \in Admitted(i) : j[q].intent.charge = i[q].intent.charge
  PROVE  Total(j) <= Total(i) + j[r].intent.charge
<1>. DEFINE A == Admitted(i)
            B == Admitted(j)
<1>1. PICK g : Sums(g, ChargesOf(i), A) /\ Total(i) = g[A]
  BY TotalSums
<1>2. PICK h : /\ Sums(h, ChargesOf(j), B)
               /\ \A s \in SUBSET B : h[s] \in Nat
               /\ \A q \in B : Total(j) = ChargesOf(j)[q] + h[B \ {q}]
  BY TotalSums
<1>3. /\ IsFiniteSet(A) /\ A \subseteq Requests
      /\ \A q \in Requests : ChargesOf(i)[q] = i[q].intent.charge /\ ChargesOf(i)[q] \in Nat
      /\ Total(i) \in Nat
  BY TotalSums
<1>4. /\ IsFiniteSet(B) /\ B \subseteq Requests
      /\ \A q \in Requests : ChargesOf(j)[q] = j[q].intent.charge /\ ChargesOf(j)[q] \in Nat
  BY TotalSums
<1>5. \A q \in B \cap A : ChargesOf(j)[q] <= ChargesOf(i)[q]
  BY <1>3, <1>4
<1>6. r \in B /\ B \ {r} = A /\ A \subseteq B \cap A /\ A \subseteq B
  OBVIOUS
<1>. HIDE DEF A, B
<1>7. \A s \in SUBSET (B \cap A) : h[s] <= g[s]
  <2>1. (\A q \in A : ChargesOf(i)[q] \in Nat) /\ (\A q \in B : ChargesOf(j)[q] \in Nat)
    BY <1>3, <1>4
  <2>2. Sums(g, ChargesOf(i), A) /\ Sums(h, ChargesOf(j), B) /\ IsFiniteSet(A) /\ IsFiniteSet(B)
    BY <1>1, <1>2, <1>3, <1>4
  <2>. QED  BY <1>5, <2>1, <2>2, SumMonotone
<1>8. h[A] <= Total(i) /\ h[A] \in Nat
  BY <1>1, <1>2, <1>6, <1>7
<1>9. Total(j) = j[r].intent.charge + h[A] /\ j[r].intent.charge \in Nat
  BY <1>2, <1>4, <1>6
<1>. QED  BY <1>3, <1>8, <1>9

(* Neither directory is charged beyond the limit; there still is room for the *)
(* intent that was only created; and what is about to be saved costs no more  *)
(* than what it replaces.                                                    *)
Limited ==
  /\ Total(inputs) <= MaxBytes
  /\ Total(disk.inputs) <= MaxBytes
  /\ op.step = "intent" => Total(inputs) + Reservation <= MaxBytes
  /\ op.step \in {"stage", "fill", "replace"} =>
       op.request \in Known /\ op.target.charge <= inputs[op.request].intent.charge

(* The intents stay what they are, and a new target costs no more.          *)
LEMMA NoNewCharge ==
  ASSUME RetentionInv, TypeOK', Limited, \A r \in Requests : inputs'[r].intent = inputs[r].intent,
         disk'.inputs \in {inputs, inputs', disk.inputs},
         op'.step = "intent" => op.step = "intent",
         op'.step \in {"stage", "fill", "replace"} =>
           op'.request \in Known /\ op'.target.charge <= inputs[op'.request].intent.charge
  PROVE  Limited'
<1>1. /\ inputs \in [Requests -> Entry] /\ inputs' \in [Requests -> Entry]
      /\ disk'.inputs \in [Requests -> Entry] /\ Known \subseteq Requests
  BY DEF RetentionInv, TypeOK, Known
<1>2. Admitted(inputs') = Admitted(inputs) /\ Known' = Known
  BY DEF Admitted, Known
<1>3. \A r \in Requests : inputs[r].intent.charge \in Nat
  BY <1>1, BuildRetentionAssumption DEF Entry, Intents
<1>4. Total(inputs') <= Total(inputs)
  <2>1. \A r \in Admitted(inputs) : inputs'[r].intent.charge <= inputs[r].intent.charge
    BY <1>3 DEF Admitted
  <2>. QED  BY <1>1, <1>2, <2>1, TotalNoMore
<1>5. Total(inputs) \in Nat /\ Total(inputs') \in Nat
  BY <1>1, TotalSums
<1>6. Total(inputs') <= MaxBytes
  BY <1>4, <1>5, BuildRetentionAssumption DEF Limited
<1>7. Total(disk'.inputs) <= MaxBytes
  BY <1>6 DEF Limited
<1>8. op'.step = "intent" => Total(inputs') + Reservation <= MaxBytes
  BY <1>4, <1>5, BuildRetentionAssumption DEF Limited
<1>9. op'.step \in {"stage", "fill", "replace"} =>
        op'.request \in Known' /\ op'.target.charge <= inputs'[op'.request].intent.charge
  BY <1>1, <1>2
<1>. QED  BY <1>6, <1>7, <1>8, <1>9 DEF Limited

(* The saved target costs no more than the intent it replaces.              *)
LEMMA ReplaceLimited ==
  ASSUME RetentionInv, TypeOK', Limited, NEW r \in Requests, Replace(r)
  PROVE  Limited'
<1>1. /\ inputs \in [Requests -> Entry] /\ inputs' \in [Requests -> Entry] /\ r \in Known
      /\ op.step = "replace" /\ op.request = r /\ disk' = disk /\ op'.step = "sync"
      /\ op.target.charge <= inputs[r].intent.charge
      /\ op.target.schema \in {"settled", "pruning"}
  BY DEF RetentionInv, TypeOK, Limited, Replace, GoTo, OperationKnows, Maintaining
<1>2. inputs'[r].intent = op.target /\ \A q \in Requests \ {r} : inputs'[q] = inputs[q]
  BY <1>1 DEF Replace, SetInputs, Entry
<1>3. \A q \in Requests : inputs[q].intent.charge \in Nat
  BY <1>1, BuildRetentionAssumption DEF Entry, Intents
<1>4. Admitted(inputs') = Admitted(inputs)
  BY <1>1, <1>2 DEF Admitted, Known
<1>5. \A q \in Admitted(inputs) : inputs'[q].intent.charge <= inputs[q].intent.charge
  BY <1>1, <1>2, <1>3 DEF Admitted
<1>6. Total(inputs') <= Total(inputs) /\ Total(inputs) \in Nat /\ Total(inputs') \in Nat
  BY <1>1, <1>4, <1>5, TotalNoMore, TotalSums
<1>7. Total(inputs') <= MaxBytes
  BY <1>6, BuildRetentionAssumption DEF Limited
<1>. QED  BY <1>1, <1>7 DEF Limited

(* Room for one reservation was found before the intent was created.        *)
LEMMA CreateLimited ==
  ASSUME RetentionInv, TypeOK', Limited, NEW r \in Requests, CreateIntent(r)
  PROVE  Limited'
<1>1. /\ inputs \in [Requests -> Entry] /\ inputs' \in [Requests -> Entry]
      /\ inputs[r].intent = Absent /\ Total(inputs) + Reservation <= MaxBytes
      /\ op'.step = "intent" /\ disk'.inputs \in {inputs, disk.inputs}
  BY ChargedInTotal, SyncTypes DEF RetentionInv, TypeOK, CreateIntent, HasRoom, NoOp
<1>2. inputs'[r].intent = Torn /\ \A q \in Requests \ {r} : inputs'[q] = inputs[q]
  BY <1>1 DEF CreateIntent, SetInputs, Entry
<1>3. Admitted(inputs') = Admitted(inputs) /\ r \notin Admitted(inputs)
  BY <1>1, <1>2, IntentFields DEF Admitted
<1>4. \A q \in Requests : inputs[q].intent.charge \in Nat
  BY <1>1, BuildRetentionAssumption DEF Entry, Intents
<1>5. \A q \in Admitted(inputs) : inputs'[q].intent.charge <= inputs[q].intent.charge
  BY <1>2, <1>3, <1>4 DEF Admitted
<1>6. Total(inputs') <= Total(inputs) /\ Total(inputs) \in Nat /\ Total(inputs') \in Nat
  BY <1>1, <1>3, <1>5, TotalNoMore, TotalSums
<1>7. Total(inputs') + Reservation <= MaxBytes /\ Total(inputs') <= MaxBytes
  BY <1>1, <1>6, BuildRetentionAssumption
<1>8. Total(disk'.inputs) <= MaxBytes
  BY <1>1 DEF Limited
<1>. QED  BY <1>1, <1>7, <1>8 DEF Limited

LEMMA WriteLimited ==
  ASSUME RetentionInv, TypeOK', Limited, NEW r \in Requests, WriteIntent(r)
  PROVE  Limited'
<1>1. /\ inputs \in [Requests -> Entry] /\ inputs' \in [Requests -> Entry]
      /\ inputs[r].intent = Torn /\ Total(inputs) + Reservation <= MaxBytes
      /\ op'.step = "sync-intent" /\ disk' = disk
  BY DEF RetentionInv, TypeOK, OperationKnows, WriteIntent, GoTo, Limited
<1>2. inputs'[r].intent = Reserved /\ \A q \in Requests \ {r} : inputs'[q] = inputs[q]
  BY <1>1 DEF WriteIntent, SetInputs, Entry
<1>3. Admitted(inputs') = Admitted(inputs) \cup {r} /\ r \in Requests \ Admitted(inputs)
  BY <1>1, <1>2, IntentFields DEF Admitted
<1>4. \A q \in Admitted(inputs) : inputs'[q].intent.charge = inputs[q].intent.charge
  BY <1>2, <1>3 DEF Admitted
<1>5. Total(inputs') <= Total(inputs) + Reservation
  BY <1>1, <1>2, <1>3, <1>4, TotalAdds, IntentFields
<1>6. Total(inputs) \in Nat /\ Total(inputs') \in Nat
  BY <1>1, TotalSums
<1>7. Total(inputs') <= MaxBytes
  BY <1>1, <1>5, <1>6, BuildRetentionAssumption
<1>. QED  BY <1>1, <1>7 DEF Limited

(* A maintenance operation begins with a target that costs no more.         *)
LEMMA BeginLimited ==
  ASSUME RetentionInv, TypeOK', Limited, NEW r \in Known, NEW step \in {"stage", "unlink"},
         NEW target \in Intents, Begin(r, step, target), target.charge <= inputs[r].intent.charge,
         \A q \in Requests : inputs'[q].intent = inputs[q].intent,
         disk'.inputs \in {inputs, inputs', disk.inputs}
  PROVE  Limited'
<1>1. op'.step = step /\ op'.request = r /\ op'.target = target
  BY DEF Begin
<1>. QED  BY <1>1, NoNewCharge

LEMMA SettleLimited ==
  ASSUME RetentionInv, TypeOK', Limited, NEW r \in Requests, Settle(r)
  PROVE  Limited'
<1>1. /\ TypeOK /\ r \in Known /\ DiscardStaged(r, {Settled(r)}) /\ Begin(r, "stage", Settled(r))
      /\ inputs[r].intent.schema = "reserved"
  BY DEF Settle, Maintainable, RetentionInv
<1>2. /\ disk'.inputs \in {inputs, inputs', disk.inputs}
      /\ \A q \in Requests : inputs'[q].intent = inputs[q].intent
  BY <1>1, Discarded DEF Same
<1>3. inputs[r].intent = Reserved /\ Payloads(r) \in SUBSET Kinds
  BY <1>1, Seen, IntentFields DEF Accounts
<1>4. Settled(r) \in Intents /\ Settled(r).charge = 1 + Cardinality(Payloads(r))
  BY <1>1, TargetTypes DEF Settled, Intent
<1>5. Cardinality(Payloads(r)) \in Nat /\ Cardinality(Payloads(r)) <= 3
  BY <1>3, KindsFinite
<1>6. Settled(r).charge <= inputs[r].intent.charge
  BY <1>3, <1>4, <1>5, IntentFields, BuildRetentionAssumption
<1>. QED  BY <1>1, <1>2, <1>4, <1>6, BeginLimited

LEMMA PruneLimited ==
  ASSUME RetentionInv, TypeOK', Limited, NEW r \in Requests, NEW kinds \in SUBSET Kinds,
         Prune(r, kinds)
  PROVE  Limited'
<1>. DEFINE intent == inputs[r].intent
            target == Pruning(intent, kinds)
<1>1. /\ TypeOK /\ r \in Known /\ DiscardStaged(r, {target, Pruned(target)})
      /\ Begin(r, "stage", target) /\ intent \in Intents
  BY Typed DEF Prune, Maintainable, RetentionInv, Entry
<1>2. /\ disk'.inputs \in {inputs, inputs', disk.inputs}
      /\ \A q \in Requests : inputs'[q].intent = inputs[q].intent
  BY <1>1, Discarded DEF Same
<1>3. target \in Intents /\ target.charge = intent.charge
  BY <1>1, TargetTypes DEF Pruning, Intents
<1>4. intent.charge \in Nat
  BY <1>1, BuildRetentionAssumption DEF Intents
<1>. HIDE DEF target
<1>. QED  BY <1>1, <1>2, <1>3, <1>4, BeginLimited

LEMMA ResumeLimited ==
  ASSUME RetentionInv, TypeOK', Limited, NEW r \in Requests, Resume(r)
  PROVE  Limited'
<1>. DEFINE intent == inputs[r].intent
<1>1. /\ TypeOK /\ r \in Known /\ DiscardStaged(r, {intent, Pruned(intent)})
      /\ Begin(r, "unlink", intent) /\ intent \in Intents
  BY Typed DEF Resume, Maintainable, RetentionInv, Entry
<1>2. /\ disk'.inputs \in {inputs, inputs', disk.inputs}
      /\ \A q \in Requests : inputs'[q].intent = inputs[q].intent
  BY <1>1, Discarded DEF Same
<1>3. intent.charge \in Nat
  BY <1>1, BuildRetentionAssumption DEF Intents
<1>. QED  BY <1>1, <1>2, <1>3, BeginLimited

LEMMA CreditLimited ==
  ASSUME RetentionInv, TypeOK', Limited, NEW r \in Requests, SyncDeleted(r)
  PROVE  Limited'
<1>. DEFINE target == Pruned(op.target)
<1>1. /\ TypeOK /\ inputs' = inputs /\ disk'.inputs \in {inputs, disk.inputs}
      /\ op.target \in Intents /\ inputs[r].intent = op.target
      /\ op.target.schema \in {"settled", "pruning"} /\ Begin(r, "stage", target)
  BY Typed DEF SyncDeleted, directories, RetentionInv, OperationKnows, Maintaining
<1>2. r \in Known /\ op.target \notin {Absent, Torn, Reserved}
  BY <1>1, IntentFields DEF Known
<1>3. /\ op.target.done \cap op.target.pending = {}
      /\ op.target.charge = 1 + Cardinality(op.target.recorded \ op.target.done)
  BY <1>1, <1>2, Seen DEF Accounts
<1>4. /\ target \in Intents
      /\ Cardinality(op.target.pending \cap op.target.recorded) <= op.target.charge
  BY <1>1, <1>3, CreditWithinCharge, TargetTypes
<1>5. target.charge = op.target.charge - Cardinality(op.target.pending \cap op.target.recorded)
  BY <1>1 DEF Pruned, Intents
<1>6. /\ Cardinality(op.target.pending \cap op.target.recorded) \in Nat
      /\ op.target.charge \in Nat
  BY <1>1, KindsFinite, BuildRetentionAssumption DEF Intents
<1>. HIDE DEF target
<1>7. target.charge <= inputs[r].intent.charge
  BY <1>1, <1>5, <1>6
<1>. QED  BY <1>1, <1>2, <1>4, <1>7, BeginLimited

(* The other steps leave the intents and the targets alone.                 *)
LEMMA QuietLimited ==
  ASSUME RetentionInv, TypeOK', Limited,
         \A r \in Requests : inputs'[r].intent = inputs[r].intent,
         disk'.inputs \in {inputs, inputs', disk.inputs},
         \/ op'.step \notin {"intent", "stage", "fill", "replace"}
         \/ op'.step = op.step /\ op'.request = op.request /\ op'.target = op.target
         \/ /\ op.step \in {"stage", "fill", "replace"} /\ op'.step # "intent"
            /\ op'.request = op.request /\ op'.target = op.target
  PROVE  Limited'
BY NoNewCharge DEF Limited

LEMMA LimitedInductive == ASSUME RetentionInv, TypeOK', Limited, [Next]_vars PROVE Limited'
<1>1. /\ inputs \in [Requests -> Entry]
      /\ \A step : GoTo(step) =>
           op'.step = step /\ op'.request = op.request /\ op'.target = op.target
      /\ Release => op'.step = "none"
  BY Typed, OpTypes DEF RetentionInv, GoTo, Release, NoOp, Ops
<1>2. CASE \/ SyncIntent \/ SyncSource \/ SyncSave \/ Abort
           \/ \E r \in Requests : AdmitAgain(r) \/ Submit(r)
  <2>1. inputs' = inputs /\ disk'.inputs \in {inputs, disk.inputs}
    BY <1>2, SyncTypes
    DEF SyncIntent, SyncSource, SyncSave, Abort, AdmitAgain, Submit, directories, RetentionInv
  <2>2. op'.step \notin {"intent", "stage", "fill", "replace"}
    <3>1. ASSUME NEW r \in Requests, AdmitAgain(r) PROVE op'.step = "submit"
      BY <3>1 DEF AdmitAgain, NoOp
    <3>. QED  BY <1>1, <1>2, <3>1 DEF SyncIntent, SyncSource, SyncSave, Abort, Submit
  <2>. QED  BY <2>1, <2>2, QuietLimited
<1>3. ASSUME NEW r \in Requests,
             Upload(r) \/ Publish(r) \/ Stage(r) \/ Fill(r) \/ SaveFails(r)
      PROVE  Limited'
  <2>1. disk' = disk /\ \A q \in Requests : inputs'[q].intent = inputs[q].intent
    <3>1. inputs[r] \in Entry
      BY <1>1
    <3>2. \E entry : entry.intent = inputs[r].intent /\ SetInputs(r, entry)
      BY <1>3, <3>1 DEF Upload, Publish, Stage, Fill, SaveFails, Entry
    <3>3. \A q \in Requests : inputs'[q].intent = inputs[q].intent
      BY <1>1, <3>2 DEF SetInputs
    <3>. QED  BY <1>3, <3>3 DEF Upload, Publish, Stage, Fill, SaveFails
  <2>2. \/ op'.step \notin {"intent", "stage", "fill", "replace"}
        \/ /\ op.step \in {"stage", "fill", "replace"} /\ op'.step # "intent"
           /\ op'.request = op.request /\ op'.target = op.target
    BY <1>1, <1>3 DEF Upload, Publish, Stage, Fill, SaveFails
  <2>. QED  BY <2>1, <2>2, QuietLimited
<1>4. ASSUME NEW r \in Requests, NEW kind \in Kinds, Unlink(r, kind) PROVE Limited'
  <2>1. disk' = disk /\ op' = op /\ \A q \in Requests : inputs'[q].intent = inputs[q].intent
    BY <1>1, <1>4 DEF Unlink, Entry
  <2>. QED  BY <2>1, QuietLimited
<1>5. CASE WorkerNext \/ UNCHANGED vars
  <2>1. inputs' = inputs /\ op' = op /\ disk'.inputs = disk.inputs
    BY <1>5, Typed
    DEF WorkerNext, StartJob, CreateLog, StageBundle, PublishBundle, DropBundle, FinishJob,
        WorkerDies, RecoverJob, EndQueued, vars, directories, RetentionInv, Dirs
  <2>. QED  BY <2>1, QuietLimited
<1>6. CASE PowerLoss
  <2>1. inputs' \in {inputs, disk.inputs} /\ disk'.inputs = inputs' /\ op'.step = "none"
    BY <1>6 DEF PowerLoss, Release, NoOp
  <2>. QED  BY <2>1 DEF Limited
<1>7. ASSUME NEW r \in Requests,
             \/ CreateIntent(r) \/ WriteIntent(r) \/ Replace(r) \/ SyncDeleted(r)
             \/ Settle(r) \/ Resume(r) \/ \E kinds \in SUBSET Kinds : Prune(r, kinds)
      PROVE  Limited'
  BY <1>7, CreateLimited, WriteLimited, ReplaceLimited, CreditLimited, SettleLimited,
     ResumeLimited, PruneLimited
<1>. QED
  BY <1>2, <1>3, <1>4, <1>5, <1>6, <1>7 DEF Next, Continue

LEMMA LimitedInitially == Init => Limited
<1>. SUFFICES ASSUME Init PROVE Limited
  OBVIOUS
<1>1. inputs \in [Requests -> Entry] /\ disk.inputs = inputs /\ op.step = "none"
  BY RetentionInitially DEF Init, RetentionInv, TypeOK, NoOp
<1>2. Admitted(inputs) = {}
  BY IntentFields DEF Admitted, Init, NoEntry
<1>3. Total(inputs) = 0
  <2>1. PICK g : Sums(g, ChargesOf(inputs), Admitted(inputs)) /\ Total(inputs) = g[Admitted(inputs)]
    BY <1>1, TotalSums
  <2>2. g[{}] = 0
    BY <1>2, <2>1, SumStep
  <2>. QED  BY <1>2, <2>1, <2>2
<1>. QED  BY <1>1, <1>3, BuildRetentionAssumption DEF Limited

(* Whatever is interrupted or lost, every file that is there is charged for, *)
(* and all charges together keep within the limit of the store, for any      *)
(* number of requests.                                                       *)
THEOREM ChargesDoCover == Spec => []ChargesCover
<1>1. RetentionInv /\ RetentionInv' /\ Limited /\ [Next]_vars => Limited'
  BY LimitedInductive DEF RetentionInv
<1>2. Spec => []Limited
  BY <1>1, LimitedInitially, RetentionInvariance, PTL DEF Spec
<1>3. FilesCharged /\ Limited => ChargesCover
  BY ChargedInTotal DEF ChargesCover, Limited
<1>. QED  BY <1>2, <1>3, FilesAreCharged, PTL

=============================================================================
