--------------------------- MODULE BuildJobsProofs ---------------------------
(***************************************************************************)
(* Theorems about BuildJobs, and about BuildWorker, which extends it, for     *)
(* every value of their constants.  In the second part every step of a run is *)
(* shown to be a step of the ledger, so that JobsInv holds throughout; what   *)
(* is added there follows the position of the one worker that has the lease.  *)
(***************************************************************************)
EXTENDS BuildWorker, FiniteSetTheorems, TLAPS

(* The operations compute with times that are natural numbers, and the      *)
(* durable clock bounds them from below.                                    *)
LEMMA NowType ==
  ASSUME TypeOK
  PROVE  Now \in Nat /\ Now >= lastTime
BY DEF TypeOK, Now

(* The expiry sweep yields a ledger of records again.                       *)
LEMMA SweptType ==
  ASSUME TypeOK
  PROVE  Swept \in [Requests -> Job]
<1>1. SUFFICES ASSUME NEW r \in Requests PROVE Swept[r] \in Job
  BY DEF Swept
<1>2. jobs[r] \in Job /\ Now \in Nat
  BY NowType DEF TypeOK
<1>3. [jobs[r] EXCEPT !.state = "expired", !.finished_at = Now] \in Job
  BY <1>2 DEF Job, Times, States, Terminal, Certain
<1>. QED  BY <1>2, <1>3 DEF Swept

(* Saving a ledger of records keeps the types of the durable variables.     *)
LEMMA SaveType ==
  ASSUME TypeOK, NEW records \in [Requests -> Job], Save(records)
  PROVE  jobs' \in [Requests -> Job] /\ lastTime' \in Nat
BY NowType DEF Save, TypeOK

(* Type correctness is inductive on its own.                                *)
LEMMA TypeStep == ASSUME TypeOK, [Next]_vars PROVE TypeOK'
<1>0. ASSUME SweepOnly PROVE TypeOK'
  BY <1>0, SweptType, SaveType DEF SweepOnly, slot, TypeOK
<1>1. ASSUME NEW r \in Requests, NEW o \in Owners, NEW d \in Digests, Admit(r, o, d)
      PROVE  TypeOK'
  <2>1. NewJob(o, d) \in Job
    <3>1. Now \in Nat /\ lastSequence \in Nat /\ QueueTTL \in Nat
      BY NowType, BuildJobsAssumption DEF TypeOK
    <3>2. Now + QueueTTL \in Nat /\ lastSequence + 1 \in Nat
      BY <3>1
    <3>. QED  BY <3>1, <3>2 DEF NewJob, NoJob, Job, States, Times, NoTime
  <2>2. [Swept EXCEPT ![r] = NewJob(o, d)] \in [Requests -> Job]
    BY <2>1, SweptType
  <2>3. Save([Swept EXCEPT ![r] = NewJob(o, d)])
    BY <1>1 DEF Admit
  <2>4. jobs' \in [Requests -> Job] /\ lastTime' \in Nat
    BY <2>2, <2>3, SaveType
  <2>. QED  BY <1>1, <2>4 DEF Admit, slot, TypeOK
<1>2. ASSUME NEW r \in Requests, NEW o \in Owners, Cancel(r, o)  PROVE TypeOK'
  <2>1. Swept[r] \in Job /\ Now \in Nat
    BY SweptType, NowType
  <2>2. Cancelled(Swept[r]) \in Job
    <3>1. CASE Swept[r].state = "queued"
      BY <2>1, <3>1 DEF Cancelled, Job, States, Terminal, Certain, Times
    <3>2. CASE Swept[r].state # "queued"
      <4>1. [Swept[r] EXCEPT !.cancel_requested = @ \/ Swept[r].state = "running"] \in Job
        BY <2>1 DEF Job
      <4>. QED  BY <3>2, <4>1 DEF Cancelled
    <3>. QED  BY <3>1, <3>2
  <2>3. [Swept EXCEPT ![r] = Cancelled(Swept[r])] \in [Requests -> Job]
    BY <2>2, SweptType
  <2>4. Save([Swept EXCEPT ![r] = Cancelled(Swept[r])])
    BY <1>2 DEF Cancel
  <2>5. jobs' \in [Requests -> Job] /\ lastTime' \in Nat
    BY <2>3, <2>4, SaveType
  <2>. QED  BY <1>2, <2>5 DEF Cancel, slot, TypeOK
<1>3. ASSUME NEW b \in BOOLEAN, SetDraining(b)  PROVE TypeOK'
  BY <1>3, SweptType, NowType DEF SetDraining, slot, TypeOK
<1>4. ASSUME SlotNext  PROVE TypeOK'
  BY <1>4 DEF SlotNext, Acquire, Inherit, HeirExits, Exit, ledger, slot, TypeOK, Idle, Tasks
<1>5. ASSUME NEW w \in Workers, NEW offered \in SUBSET Requests, ClaimFrom(w, offered)
      PROVE  TypeOK'
  <2>1. PICK r \in offered :
          Save([Swept EXCEPT ![r].state = "running", ![r].started_at = Now,
                             ![r].lease_id = lease[w]])
    BY <1>5 DEF ClaimFrom
  <2>2. Swept[r] \in Job /\ Now \in Nat /\ lease[w] \in Tokens \cup {None}
    BY SweptType, NowType DEF TypeOK
  <2>3. [Swept[r] EXCEPT !.state = "running", !.started_at = Now, !.lease_id = lease[w]] \in Job
    BY <2>2 DEF Job, States, Times
  <2>4. [Swept EXCEPT ![r].state = "running", ![r].started_at = Now,
                      ![r].lease_id = lease[w]] \in [Requests -> Job]
    BY <2>3, SweptType
  <2>5. jobs' \in [Requests -> Job] /\ lastTime' \in Nat
    BY <2>1, <2>4, SaveType
  <2>. QED  BY <1>5, <2>5 DEF ClaimFrom, slot, TypeOK
<1>6. ASSUME NEW r \in Requests, NEW outcome \in Terminal
      PROVE  [Swept EXCEPT ![r] = Ended(jobs[r], outcome)] \in [Requests -> Job]
  <2>1. jobs[r] \in Job /\ Now \in Nat
    BY NowType DEF TypeOK
  <2>2. Ended(jobs[r], outcome) \in Job
    <3>. DEFINE certain == outcome = "succeeded"
    <3>1. certain \in BOOLEAN
      OBVIOUS
    <3>. HIDE DEF certain
    <3>2. [jobs[r] EXCEPT !.state = outcome, !.finished_at = Now, !.lease_id = None,
                          !.artifact = certain] \in Job
      BY <2>1, <3>1 DEF Job, States, Times
    <3>. QED  BY <3>2 DEF Ended, certain
  <2>. QED  BY <2>2, SweptType
<1>7. ASSUME NEW w \in Workers, NEW r \in Requests, FinishVerify(w, r)  PROVE TypeOK'
  BY <1>7, SweptType, SaveType DEF FinishVerify, slot, TypeOK, Idle, Tasks
<1>8. ASSUME NEW w \in Workers, NEW r \in Requests, FinishSucceeded(w, r)  PROVE TypeOK'
  BY <1>8, <1>6, SaveType DEF FinishSucceeded, slot, TypeOK, Idle, Tasks, Terminal, Certain
<1>9. ASSUME NEW w \in Workers, NEW r \in Requests,
             NEW outcome \in {"failed", "cancelled", "uncertain"}, FinishOther(w, r, outcome)
      PROVE  TypeOK'
  BY <1>9, <1>6, SaveType DEF FinishOther, slot, TypeOK, Terminal, Certain
<1>10. ASSUME NEW w \in Workers, NEW r \in Requests, RecoverBegin(w, r)  PROVE TypeOK'
  <2>1. jobs[r].lease_id \in Tokens \cup {None}
    BY DEF TypeOK, Job
  <2>. QED  BY <1>10, <2>1, SweptType, SaveType DEF RecoverBegin, slot, TypeOK, Tasks
<1>11. ASSUME NEW w \in Workers, NEW r \in Requests, RecoverCommit(w, r)  PROVE TypeOK'
  BY <1>11, <1>6, SaveType DEF RecoverCommit, slot, TypeOK, Idle, Tasks, Terminal, Certain
<1>12. ASSUME NEW w \in Workers, Abandon(w)  PROVE TypeOK'
  BY <1>12 DEF Abandon, ledger, slot, TypeOK, Idle, Tasks
<1>13. ASSUME NEW w \in Workers, NEW r \in Requests, StartWork(w, r) \/ StopWork(r)
       PROVE  TypeOK'
  BY <1>13 DEF StartWork, StopWork, ledger, slot, TypeOK
<1>14. ASSUME NEW t \in 0 .. MaxTime, SetClock(t)  PROVE TypeOK'
  BY <1>14, BuildJobsAssumption DEF SetClock, ledger, slot, TypeOK
<1>15. ASSUME NEW r \in Requests, StopWork(r)  PROVE TypeOK'
  BY <1>15 DEF StopWork, ledger, slot, TypeOK
<1>16. CASE ClientNext
  BY <1>16, <1>0, <1>1, <1>2, <1>3 DEF ClientNext, Refuse, Replay, Status
<1>17. CASE WorkerNext
  <2>1. \A w \in Workers : ClaimOldest(w) => ClaimFrom(w, Waiting \ Nested)
    BY DEF ClaimOldest
  <2>2. \A w \in Workers, r \in Requests : ClaimExact(w, r) => ClaimFrom(w, Waiting \cap {r})
    BY DEF ClaimExact
  <2>3. Waiting \subseteq Requests
    BY DEF Waiting
  <2>. QED
    BY <1>17, <1>0, <1>5, <1>7, <1>8, <1>9, <1>10, <1>11, <1>12, <1>13, <1>15, <2>1, <2>2, <2>3
    DEF WorkerNext, ClaimNothing
<1>18. CASE UNCHANGED vars
  BY <1>18 DEF vars, ledger, slot, TypeOK
<1>. QED  BY <1>4, <1>14, <1>16, <1>17, <1>18 DEF Next

LEMMA InitType == Init => TypeOK
<1>1. NoJob \in Job
  BY DEF NoJob, Job, Times, NoTime
<1>2. Idle \in Tasks
  BY DEF Idle, Tasks
<1>. SUFFICES ASSUME Init PROVE TypeOK
  OBVIOUS
<1>3. draining \in BOOLEAN
  BY DEF Init
<1>4. jobs \in [Requests -> Job] /\ task \in [Workers -> Tasks]
  BY <1>1, <1>2 DEF Init
<1>5. lease \in [Workers -> Tokens \cup {None}] /\ heirs \subseteq Tokens /\ work \subseteq Requests
  BY DEF Init
<1>6. lastSequence \in Nat /\ lastTime \in Nat /\ clock \in Nat
  BY DEF Init
<1>. QED  BY <1>3, <1>4, <1>5, <1>6 DEF TypeOK

(* Every reachable state has its type: BuildJobStore never stores a record  *)
(* of another shape, whatever the constants.                                *)
THEOREM Typing == Spec => []TypeOK
BY InitType, TypeStep, PTL DEF Spec

-----------------------------------------------------------------------------
(* One record through each operation that rewrites it.                      *)

(* A record that is not overdue stays valid as the durable clock advances,  *)
(* an overdue one is valid once expired.                                    *)
LEMMA SweptRecord ==
  ASSUME TypeOK, NEW r \in Requests, jobs[r].state # "absent",
         RecordValid(jobs[r]), ClockValid(jobs[r], lastTime)
  PROVE  /\ RecordValid(Swept[r]) /\ ClockValid(Swept[r], Now)
         /\ Swept[r].state # "absent"
         /\ Swept[r].sequence = jobs[r].sequence
         /\ Swept[r].state = "running" => Swept[r] = jobs[r]
<1>1. jobs[r] \in Job /\ Now \in Nat /\ lastTime \in Nat /\ Now >= lastTime
  BY NowType DEF TypeOK
<1>2. CASE Overdue(r)
  <2>1. Swept[r] = [jobs[r] EXCEPT !.state = "expired", !.finished_at = Now]
    BY <1>2 DEF Swept
  <2>2. jobs[r].state = "queued" /\ Now >= jobs[r].expires_at
    BY <1>2 DEF Overdue
  <2>3. /\ Swept[r].state = "expired" /\ Swept[r].finished_at = Now
        /\ Swept[r].owner = jobs[r].owner /\ Swept[r].digest = jobs[r].digest
        /\ Swept[r].sequence = jobs[r].sequence
        /\ Swept[r].created_at = jobs[r].created_at
        /\ Swept[r].expires_at = jobs[r].expires_at
        /\ Swept[r].started_at = jobs[r].started_at
        /\ Swept[r].cancel_requested = jobs[r].cancel_requested
        /\ Swept[r].lease_id = jobs[r].lease_id
        /\ Swept[r].artifact = jobs[r].artifact
    BY <1>1, <2>1 DEF Job
  <2>. QED
    BY <1>1, <2>2, <2>3 DEF RecordValid, ClockValid, Job, Times, NoTime, Terminal, Certain
<1>3. CASE ~Overdue(r)
  <2>1. Swept[r] = jobs[r]
    BY <1>3 DEF Swept
  <2>. QED
    BY <1>1, <1>3, <2>1 DEF Overdue, ClockValid, RecordValid, Job, Times, NoTime
<1>. QED  BY <1>2, <1>3

(* A claimed record.                                                        *)
LEMMA ClaimedRecord ==
  ASSUME TypeOK, NEW r \in Waiting, NEW token \in Tokens,
         RecordValid(jobs[r]), ClockValid(jobs[r], lastTime),
         NEW claimed,
         claimed = [jobs[r] EXCEPT !.state = "running", !.started_at = Now, !.lease_id = token]
  PROVE  /\ RecordValid(claimed) /\ ClockValid(claimed, Now)
         /\ claimed.state = "running"
         /\ claimed.sequence = jobs[r].sequence
<1>1. /\ jobs[r] \in Job /\ Now \in Nat /\ lastTime \in Nat /\ Now >= lastTime
      /\ token # None
  BY NowType, BuildJobsAssumption DEF TypeOK, Waiting
<1>2. jobs[r].state = "queued" /\ ~(Now >= jobs[r].expires_at)
  BY DEF Waiting, Overdue
<1>3. /\ claimed.state = "running" /\ claimed.started_at = Now /\ claimed.lease_id = token
      /\ claimed.owner = jobs[r].owner /\ claimed.digest = jobs[r].digest
      /\ claimed.sequence = jobs[r].sequence
      /\ claimed.created_at = jobs[r].created_at
      /\ claimed.expires_at = jobs[r].expires_at
      /\ claimed.finished_at = jobs[r].finished_at
      /\ claimed.cancel_requested = jobs[r].cancel_requested
      /\ claimed.artifact = jobs[r].artifact
  BY <1>1 DEF Job
<1>. QED
  BY <1>1, <1>2, <1>3 DEF RecordValid, ClockValid, Job, Times, NoTime, Terminal, Certain

(* A cancelled record.                                                      *)
LEMMA CancelledRecord ==
  ASSUME NEW j \in Job, NEW c, c = Cancelled(j), Now \in Nat, j.state # "absent",
         RecordValid(j), ClockValid(j, Now)
  PROVE  /\ RecordValid(c) /\ ClockValid(c, Now)
         /\ c.state # "absent"
         /\ c.sequence = j.sequence
         /\ c.state = "running" => j.state = "running"
<1>1. CASE j.state = "queued"
  <2>1. c = [j EXCEPT !.state = "cancelled", !.cancel_requested = TRUE, !.finished_at = Now]
    BY <1>1 DEF Cancelled
  <2>2. /\ c.state = "cancelled" /\ c.cancel_requested /\ c.finished_at = Now
        /\ c.owner = j.owner /\ c.digest = j.digest /\ c.sequence = j.sequence
        /\ c.created_at = j.created_at /\ c.expires_at = j.expires_at
        /\ c.started_at = j.started_at /\ c.lease_id = j.lease_id /\ c.artifact = j.artifact
    BY <2>1 DEF Job
  <2>. QED
    BY <1>1, <2>2 DEF RecordValid, ClockValid, Job, Times, NoTime, Terminal, Certain
<1>2. CASE j.state # "queued"
  <2>1. c = [j EXCEPT !.cancel_requested = @ \/ j.state = "running"]
    BY <1>2 DEF Cancelled
  <2>2. /\ c.state = j.state /\ c.finished_at = j.finished_at
        /\ c.owner = j.owner /\ c.digest = j.digest /\ c.sequence = j.sequence
        /\ c.created_at = j.created_at /\ c.expires_at = j.expires_at
        /\ c.started_at = j.started_at /\ c.lease_id = j.lease_id /\ c.artifact = j.artifact
    BY <2>1 DEF Job
  <2>3. c.cancel_requested = (j.cancel_requested \/ j.state = "running")
    BY <2>1 DEF Job
  <2>. QED
    BY <1>2, <2>2, <2>3 DEF RecordValid, ClockValid, Terminal, Certain
<1>. QED  BY <1>1, <1>2

(* A finished or recovered record.                                          *)
LEMMA EndedRecord ==
  ASSUME TypeOK, NEW r \in Requests, jobs[r].state = "running",
         RecordValid(jobs[r]), ClockValid(jobs[r], lastTime),
         NEW outcome \in {"succeeded", "failed", "cancelled", "uncertain"},
         outcome = "succeeded" => ~jobs[r].cancel_requested,
         outcome = "cancelled" => jobs[r].cancel_requested,
         NEW e, e = Ended(jobs[r], outcome)
  PROVE  /\ RecordValid(e) /\ ClockValid(e, Now)
         /\ e.state = outcome
         /\ e.sequence = jobs[r].sequence
<1>1. jobs[r] \in Job /\ Now \in Nat /\ lastTime \in Nat /\ Now >= lastTime
  BY NowType DEF TypeOK
<1>2. /\ e.state = outcome /\ e.finished_at = Now /\ e.lease_id = None
      /\ e.owner = jobs[r].owner /\ e.digest = jobs[r].digest
      /\ e.sequence = jobs[r].sequence
      /\ e.created_at = jobs[r].created_at /\ e.expires_at = jobs[r].expires_at
      /\ e.started_at = jobs[r].started_at
      /\ e.cancel_requested = jobs[r].cancel_requested
  BY <1>1 DEF Job, Ended
<1>3. e.artifact = (outcome = "succeeded")
  BY <1>1 DEF Job, Ended
<1>4. e.artifact <=> e.state = "succeeded"
  BY <1>2, <1>3
<1>5. ClockValid(e, Now)
  BY <1>1, <1>2 DEF ClockValid, Job, Times, NoTime
<1>6. jobs[r].started_at # NoTime /\ jobs[r].started_at >= 0 /\ jobs[r].started_at <= Now
  BY <1>1 DEF RecordValid, ClockValid, Job, Times, NoTime
<1>7. RecordValid(e)
  <2>1. e.finished_at >= e.created_at /\ e.finished_at >= e.started_at /\ e.finished_at # NoTime
    BY <1>1, <1>2, <1>6 DEF ClockValid, RecordValid, NoTime, Job, Times
  <2>2. e.started_at \in e.created_at .. e.expires_at - 1 /\ e.expires_at > e.created_at
    BY <1>1, <1>2, <1>6 DEF RecordValid
  <2>3. /\ e.owner # None /\ e.digest # None /\ e.sequence \in 1 .. MaxOperations
        /\ e.created_at >= 0
    BY <1>2 DEF RecordValid
  <2>4. e.state \in Terminal /\ e.state \notin {"queued", "running", "expired"}
    BY <1>2 DEF Terminal, Certain
  <2>5. (e.lease_id # None) <=> e.state = "running"
    BY <1>2, <2>4
  <2>6. /\ e.state = "succeeded" => ~e.cancel_requested
        /\ e.state = "cancelled" => e.cancel_requested
    BY <1>2
  <2>7. e.started_at # NoTime
    BY <1>2, <1>6
  <2>. QED  BY <1>4, <2>1, <2>2, <2>3, <2>4, <2>5, <2>6, <2>7 DEF RecordValid
<1>. QED  BY <1>2, <1>5, <1>7

-----------------------------------------------------------------------------
(* The whole ledger through a save.                                         *)

(* What _save writes passes the validation that guards it.                  *)
LEMMA SaveValid ==
  ASSUME TypeOK, StateValid, NEW records \in [Requests -> Job], Save(records),
         lastSequence' = lastSequence,
         \A r \in Requests : records[r].state = "absent" <=> jobs[r].state = "absent",
         \A r \in Present : /\ RecordValid(records[r]) /\ ClockValid(records[r], Now)
                            /\ records[r].sequence = jobs[r].sequence,
         \A r, q \in Requests :
           records[r].state = "running" /\ records[q].state = "running" => r = q
  PROVE  StateValid'
<1>1. Present' = Present
  BY DEF Save, Present
<1>2. SequencesValid'
  BY <1>1 DEF Save, StateValid, SequencesValid, Present
<1>3. OneClaim'
  BY DEF Save, OneClaim, InState
<1>4. CASE records = jobs
  BY <1>1, <1>2, <1>3, <1>4 DEF Save, StateValid
<1>5. CASE records # jobs
  BY <1>1, <1>2, <1>3, <1>5 DEF Save, StateValid
<1>. QED  BY <1>4, <1>5

(* The sweep, record by record.                                             *)
LEMMA SweptAll ==
  ASSUME TypeOK, StateValid
  PROVE  \A r \in Requests :
           /\ Swept[r] \in Job
           /\ Swept[r].state = "absent" <=> jobs[r].state = "absent"
           /\ Swept[r].state = "running" <=> jobs[r].state = "running"
           /\ jobs[r].state = "running" => Swept[r] = jobs[r]
           /\ r \in Present => /\ RecordValid(Swept[r]) /\ ClockValid(Swept[r], Now)
                               /\ Swept[r].sequence = jobs[r].sequence
<1>. SUFFICES ASSUME NEW r \in Requests
     PROVE  /\ Swept[r] \in Job
            /\ Swept[r].state = "absent" <=> jobs[r].state = "absent"
            /\ Swept[r].state = "running" <=> jobs[r].state = "running"
            /\ jobs[r].state = "running" => Swept[r] = jobs[r]
            /\ r \in Present => /\ RecordValid(Swept[r]) /\ ClockValid(Swept[r], Now)
                                /\ Swept[r].sequence = jobs[r].sequence
  OBVIOUS
<1>1. Swept[r] \in Job
  BY SweptType
<1>2. jobs[r].state # "queued" => Swept[r] = jobs[r]
  BY DEF Swept, Overdue
<1>3. r \in Present =>
        /\ RecordValid(Swept[r]) /\ ClockValid(Swept[r], Now)
        /\ Swept[r].state # "absent"
        /\ Swept[r].sequence = jobs[r].sequence
        /\ Swept[r].state = "running" => Swept[r] = jobs[r]
  BY SweptRecord DEF StateValid, Present
<1>. QED  BY <1>1, <1>2, <1>3 DEF Present

(* An operation that only sweeps.                                           *)
LEMMA SweepValid ==
  ASSUME TypeOK, StateValid, Save(Swept), lastSequence' = lastSequence
  PROVE  /\ StateValid'
         /\ \A q \in Requests : jobs[q].state = "running" => jobs'[q] = jobs[q]
<1>1. \A r, q \in Requests :
        Swept[r].state = "running" /\ Swept[q].state = "running" => r = q
  BY SweptAll DEF StateValid, OneClaim, InState
<1>2. /\ \A r \in Requests : Swept[r].state = "absent" <=> jobs[r].state = "absent"
      /\ \A r \in Present : /\ RecordValid(Swept[r]) /\ ClockValid(Swept[r], Now)
                             /\ Swept[r].sequence = jobs[r].sequence
  BY SweptAll DEF Present
<1>3. StateValid'
  BY <1>1, <1>2, SweptType, SaveValid
<1>. QED  BY <1>3, SweptAll DEF Save

(* An operation that sweeps and rewrites one record.                        *)
LEMMA UpdateValid ==
  ASSUME TypeOK, StateValid, NEW r \in Present, NEW x \in Job,
         RecordValid(x), ClockValid(x, Now), x.state # "absent",
         x.sequence = jobs[r].sequence,
         x.state = "running" => \A q \in Requests \ {r} : jobs[q].state # "running",
         Save([Swept EXCEPT ![r] = x]), lastSequence' = lastSequence
  PROVE  /\ StateValid'
         /\ jobs'[r] = x
         /\ \A q \in Requests \ {r} : jobs[q].state = "running" => jobs'[q] = jobs[q]
<1>. DEFINE records == [Swept EXCEPT ![r] = x]
<1>0. r \in Requests
  BY DEF Present
<1>1. records \in [Requests -> Job] /\ records[r] = x
      /\ \A q \in Requests \ {r} : records[q] = Swept[q]
  BY <1>0, SweptType
<1>2. \A q \in Requests : records[q].state = "absent" <=> jobs[q].state = "absent"
  BY <1>1, SweptAll DEF Present
<1>3. \A q \in Present : /\ RecordValid(records[q]) /\ ClockValid(records[q], Now)
                         /\ records[q].sequence = jobs[q].sequence
  BY <1>1, SweptAll DEF Present
<1>4. \A p, q \in Requests :
        records[p].state = "running" /\ records[q].state = "running" => p = q
  <2>1. \A q \in Requests \ {r} : records[q].state = "running" => jobs[q].state = "running"
    BY <1>1, SweptAll
  <2>2. \A p, q \in Requests : jobs[p].state = "running" /\ jobs[q].state = "running" => p = q
    BY DEF StateValid, OneClaim, InState
  <2>. QED  BY <1>1, <2>1, <2>2
<1>5. Save(records)
  OBVIOUS
<1>. HIDE DEF records
<1>6. StateValid'
  BY <1>1, <1>2, <1>3, <1>4, <1>5, SaveValid
<1>7. jobs' = records
  BY <1>5 DEF Save
<1>. QED  BY <1>0, <1>1, <1>6, <1>7, SweptAll

(* The admission of a new record keeps the numbering dense.                 *)
LEMMA AdmitValid ==
  ASSUME TypeOK, StateValid, NEW r \in Requests, NEW o \in Owners, NEW d \in Digests,
         Admit(r, o, d)
  PROVE  /\ StateValid'
         /\ \A q \in Requests : jobs[q].state = "running" => jobs'[q] = jobs[q]
<1>. DEFINE x == NewJob(o, d)
<1>1. /\ Now \in Nat /\ lastTime \in Nat /\ lastSequence \in Nat
      /\ QueueTTL \in Nat \ {0} /\ MaxOperations \in Nat
      /\ o # None /\ d # None /\ IsFiniteSet(Requests)
  BY NowType, BuildJobsAssumption DEF TypeOK
<1>2. /\ x.state = "queued" /\ x.owner = o /\ x.digest = d
      /\ x.sequence = lastSequence + 1
      /\ x.created_at = Now /\ x.expires_at = Now + QueueTTL
      /\ x.cancel_requested = FALSE /\ x.started_at = NoTime /\ x.finished_at = NoTime
      /\ x.lease_id = None /\ x.artifact = FALSE
  BY DEF NewJob, NoJob
<1>. HIDE DEF x
<1>3. jobs' = [Swept EXCEPT ![r] = x] /\ lastSequence' = lastSequence + 1
  BY DEF Admit, Save, x
<1>4. /\ jobs'[r] = x
      /\ \A q \in Requests \ {r} : jobs'[q] = Swept[q]
  BY <1>3, SweptType
<1>5. lastTime' = Now
  <2>1. jobs'[r] # jobs[r]
    BY <1>2, <1>4 DEF Admit
  <2>. QED  BY <2>1 DEF Admit, Save
<1>6. r \notin Present /\ Present' = Present \cup {r}
  BY <1>2, <1>4, SweptAll DEF Admit, Present
<1>7. IsFiniteSet(Present) /\ Cardinality(Present) \in Nat
  BY <1>1, FS_Subset, FS_CardinalityType DEF Present
<1>8. Cardinality(Present') = Cardinality(Present) + 1
  BY <1>6, <1>7, FS_AddElement
<1>9. lastSequence' \in 1 .. MaxOperations /\ lastSequence' = Cardinality(Present')
  BY <1>1, <1>3, <1>7, <1>8 DEF Admit, Admissible, StoreFull, StateValid, SequencesValid
<1>10. SequencesValid'
  <2>1. \A q \in Present : jobs'[q].sequence = jobs[q].sequence /\ jobs[q].sequence \in 1 .. lastSequence
    BY <1>4, <1>6, SweptAll DEF StateValid, SequencesValid, Present
  <2>2. \A q \in Present' : jobs'[q].sequence \in 1 .. lastSequence'
    BY <1>1, <1>2, <1>3, <1>4, <1>6, <2>1
  <2>3. \A p, q \in Present' : jobs'[p].sequence = jobs'[q].sequence => p = q
    BY <1>1, <1>2, <1>4, <1>6, <2>1 DEF StateValid, SequencesValid
  <2>. QED  BY <1>1, <1>9, <2>2, <2>3 DEF SequencesValid
<1>11. RecordValid(x) /\ ClockValid(x, Now)
  BY <1>1, <1>2, <1>3, <1>9 DEF RecordValid, ClockValid, NoTime, Terminal, Certain
<1>12. \A q \in Present' : RecordValid(jobs'[q]) /\ ClockValid(jobs'[q], lastTime')
  <2>1. \A q \in Present : q # r /\ q \in Requests
    BY <1>6 DEF Present
  <2>. QED  BY <1>4, <1>5, <1>6, <1>11, <2>1, SweptAll
<1>13. OneClaim'
  BY <1>2, <1>4, SweptAll DEF StateValid, OneClaim, InState
<1>14. \A q \in Requests : jobs[q].state = "running" => jobs'[q] = jobs[q]
  BY <1>4, SweptAll DEF Admit
<1>. QED  BY <1>10, <1>12, <1>13, <1>14 DEF StateValid

-----------------------------------------------------------------------------
(* The inductive invariant, one step per operation.                         *)

(* An operation that leaves the slot, the tasks and the builds alone keeps   *)
(* the parts about them when running records stay running.                  *)
LEMMA LedgerOnly ==
  ASSUME JobsInv, UNCHANGED <<slot, work>>,
         task' = task,
         \A r \in work : jobs'[r].state = "running"
  PROVE  SlotExclusive' /\ OneBuildAtATime' /\ TasksSettled'
BY DEF JobsInv, SlotExclusive, OneBuildAtATime, TasksSettled, slot

LEMMA SweepStep == ASSUME JobsInv, SweepOnly PROVE JobsInv'
<1>1. TypeOK' /\ lastSequence' = lastSequence /\ Save(Swept)
  BY SweptType, SaveType DEF JobsInv, SweepOnly, slot, TypeOK
<1>2. StateValid' /\ \A q \in Requests : jobs[q].state = "running" => jobs'[q] = jobs[q]
  BY <1>1, SweepValid DEF JobsInv, LedgerValid
<1>3. \A r \in work : jobs'[r].state = "running"
  BY <1>2 DEF JobsInv, TypeOK, OneBuildAtATime
<1>. QED  BY <1>1, <1>2, <1>3, LedgerOnly DEF JobsInv, LedgerValid, SweepOnly

LEMMA AdmitStep ==
  ASSUME JobsInv, TypeOK', NEW r \in Requests, NEW o \in Owners, NEW d \in Digests,
         Admit(r, o, d)
  PROVE  JobsInv'
<1>1. StateValid' /\ \A q \in Requests : jobs[q].state = "running" => jobs'[q] = jobs[q]
  BY AdmitValid DEF JobsInv, LedgerValid
<1>2. \A q \in work : jobs'[q].state = "running"
  BY <1>1 DEF JobsInv, TypeOK, OneBuildAtATime
<1>. QED  BY <1>1, <1>2, LedgerOnly DEF JobsInv, LedgerValid, Admit

LEMMA CancelStep ==
  ASSUME JobsInv, TypeOK', NEW r \in Requests, NEW o \in Owners, Cancel(r, o)
  PROVE  JobsInv'
<1>. DEFINE x == Cancelled(Swept[r])
<1>1. TypeOK /\ StateValid /\ Now \in Nat
  BY NowType DEF JobsInv, LedgerValid
<1>2. r \in Present /\ Save([Swept EXCEPT ![r] = x]) /\ lastSequence' = lastSequence
  BY DEF Cancel, Present
<1>3. /\ Swept[r] \in Job /\ RecordValid(Swept[r]) /\ ClockValid(Swept[r], Now)
      /\ Swept[r].state # "absent" /\ Swept[r].sequence = jobs[r].sequence
      /\ Swept[r].state = "running" <=> jobs[r].state = "running"
  BY <1>1, <1>2, SweptAll DEF Present
<1>4. /\ RecordValid(x) /\ ClockValid(x, Now) /\ x.state # "absent"
      /\ x.sequence = jobs[r].sequence
      /\ x.state = "running" => jobs[r].state = "running"
  BY <1>1, <1>3, CancelledRecord
<1>5. x.state = "running" <=> jobs[r].state = "running"
  BY <1>3, <1>4 DEF Cancelled, Job
<1>6. x \in Job
  <2>1. jobs' = [Swept EXCEPT ![r] = x]
    BY <1>2 DEF Save
  <2>2. jobs'[r] = x
    BY <1>1, <2>1, SweptType
  <2>. QED  BY <2>2 DEF TypeOK
<1>. HIDE DEF x
<1>7. x.state = "running" => \A q \in Requests \ {r} : jobs[q].state # "running"
  BY <1>1, <1>4 DEF StateValid, OneClaim, InState
<1>8. /\ StateValid' /\ jobs'[r] = x
      /\ \A q \in Requests \ {r} : jobs[q].state = "running" => jobs'[q] = jobs[q]
  BY <1>1, <1>2, <1>4, <1>6, <1>7, UpdateValid
<1>9. \A q \in work : jobs'[q].state = "running"
  BY <1>5, <1>8 DEF JobsInv, TypeOK, OneBuildAtATime
<1>. QED  BY <1>8, <1>9, LedgerOnly DEF JobsInv, LedgerValid, Cancel

LEMMA DrainingStep ==
  ASSUME JobsInv, TypeOK', NEW b \in BOOLEAN, SetDraining(b)
  PROVE  JobsInv'
<1>1. CASE Swept = jobs
  <2>1. jobs' = jobs /\ lastSequence' = lastSequence /\ lastTime' \in {lastTime, Now}
    BY <1>1 DEF SetDraining
  <2>2. \A r \in Present : RecordValid(jobs[r]) /\ ClockValid(jobs[r], Now)
    BY <1>1, SweptAll DEF JobsInv, LedgerValid, Present
  <2>3. Present' = Present
    BY <2>1 DEF Present
  <2>4. StateValid'
    BY <2>1, <2>2, <2>3 DEF JobsInv, LedgerValid, StateValid, SequencesValid, OneClaim, InState
  <2>. QED
    BY <2>1, <2>4, LedgerOnly DEF JobsInv, LedgerValid, SetDraining, OneBuildAtATime
<1>2. CASE Swept # jobs
  <2>1. Save(Swept) /\ lastSequence' = lastSequence
    BY <1>2 DEF SetDraining, Save
  <2>2. StateValid' /\ \A q \in Requests : jobs[q].state = "running" => jobs'[q] = jobs[q]
    BY <2>1, SweepValid DEF JobsInv, LedgerValid
  <2>3. \A q \in work : jobs'[q].state = "running"
    BY <2>2 DEF JobsInv, TypeOK, OneBuildAtATime
  <2>. QED  BY <2>2, <2>3, LedgerOnly DEF JobsInv, LedgerValid, SetDraining
<1>. QED  BY <1>1, <1>2

LEMMA SlotStep == ASSUME JobsInv, TypeOK', SlotNext PROVE JobsInv'
<1>1. StateValid' /\ OneBuildAtATime'
  BY DEF SlotNext, Acquire, Inherit, HeirExits, Exit, ledger, JobsInv, LedgerValid,
         StateValid, SequencesValid, OneClaim, InState, Present, OneBuildAtATime
<1>2. ASSUME NEW w \in Workers, NEW t \in Tokens, Acquire(w, t)
      PROVE  SlotExclusive' /\ TasksSettled'
  <2>1. t # None
    BY BuildJobsAssumption
  <2>. QED  BY <1>2, <2>1 DEF Acquire, SlotFree, JobsInv, TypeOK, SlotExclusive, TasksSettled
<1>3. ASSUME NEW w \in Workers, Inherit(w)
      PROVE  SlotExclusive' /\ TasksSettled'
  BY <1>3 DEF Inherit, JobsInv, TypeOK, SlotExclusive, TasksSettled
<1>4. ASSUME NEW w \in Workers, Exit(w)
      PROVE  SlotExclusive' /\ TasksSettled'
  BY <1>4 DEF Exit, JobsInv, TypeOK, SlotExclusive, TasksSettled, Idle, Tasks
<1>5. ASSUME NEW t \in Tokens, HeirExits(t)
      PROVE  SlotExclusive' /\ TasksSettled'
  BY <1>5 DEF HeirExits, JobsInv, TypeOK, SlotExclusive, TasksSettled
<1>. QED  BY <1>1, <1>2, <1>3, <1>4, <1>5 DEF SlotNext, JobsInv, LedgerValid

LEMMA ClaimStep ==
  ASSUME JobsInv, TypeOK', NEW w \in Workers, NEW offered \in SUBSET Waiting,
         ClaimFrom(w, offered)
  PROVE  JobsInv'
<1>1. PICK r \in offered :
        Save([Swept EXCEPT ![r].state = "running", ![r].started_at = Now,
                           ![r].lease_id = lease[w]])
  BY DEF ClaimFrom
<1>2. TypeOK /\ StateValid /\ r \in Requests /\ r \in Present
      /\ jobs[r].state = "queued" /\ ~Overdue(r)
  BY DEF JobsInv, LedgerValid, Waiting, Present
<1>3. lease[w] \in Tokens /\ lease[w] # None
  BY <1>2 DEF ClaimFrom, Ready, TypeOK
<1>4. Swept[r] = jobs[r] /\ Swept \in [Requests -> Job]
  BY <1>2, SweptType DEF Swept
<1>. DEFINE x == [jobs[r] EXCEPT !.state = "running", !.started_at = Now, !.lease_id = lease[w]]
<1>5. Save([Swept EXCEPT ![r] = x])
  <2>1. [Swept EXCEPT ![r] = x] =
          [Swept EXCEPT ![r].state = "running", ![r].started_at = Now, ![r].lease_id = lease[w]]
    BY <1>2, <1>4
  <2>. QED  BY <1>1, <2>1
<1>6. /\ RecordValid(x) /\ ClockValid(x, Now)
      /\ x.state = "running" /\ x.sequence = jobs[r].sequence
  BY <1>2, <1>3, ClaimedRecord DEF TypeOK, StateValid
<1>7. x \in Job
  <2>1. jobs'[r] = x
    BY <1>2, <1>4, <1>5 DEF Save
  <2>. QED  BY <1>2, <2>1 DEF TypeOK
<1>. HIDE DEF x
<1>8. \A q \in Requests : jobs[q].state # "running"
  BY DEF ClaimFrom, Claimable, InState
<1>9. lastSequence' = lastSequence
  BY DEF ClaimFrom
<1>10. StateValid'
  BY <1>2, <1>5, <1>6, <1>7, <1>8, <1>9, UpdateValid
<1>11. \A q \in work : jobs'[q].state = "running"
  BY <1>8 DEF JobsInv, TypeOK, OneBuildAtATime
<1>. QED  BY <1>10, <1>11, LedgerOnly DEF JobsInv, LedgerValid, ClaimFrom

(* A running record is given an outcome while nothing executes under it.    *)
LEMMA EndStep ==
  ASSUME JobsInv, TypeOK', NEW r \in Requests, r \notin work,
         jobs[r].state = "running",
         NEW outcome \in {"succeeded", "failed", "cancelled", "uncertain"},
         outcome = "succeeded" => ~jobs[r].cancel_requested,
         outcome = "cancelled" => jobs[r].cancel_requested,
         Save([Swept EXCEPT ![r] = Ended(jobs[r], outcome)]),
         lastSequence' = lastSequence, UNCHANGED <<slot, work>>
  PROVE  StateValid' /\ SlotExclusive' /\ OneBuildAtATime'
<1>. DEFINE x == Ended(jobs[r], outcome)
<1>1. TypeOK /\ StateValid /\ r \in Present /\ jobs[r] \in Job
  BY DEF JobsInv, LedgerValid, Present, TypeOK
<1>2. RecordValid(x) /\ ClockValid(x, Now)
  BY <1>1, EndedRecord DEF StateValid
<1>3. x.state = outcome /\ x.sequence = jobs[r].sequence
  BY <1>1 DEF Ended, Job
<1>4. x \in Job
  <2>1. jobs'[r] = x
    BY <1>1, SweptType DEF Save
  <2>. QED  BY <2>1 DEF TypeOK
<1>. HIDE DEF x
<1>5. Save([Swept EXCEPT ![r] = x])
  BY DEF x
<1>6. x.state # "running" /\ x.state # "absent"
  BY <1>3
<1>7. /\ StateValid'
      /\ \A q \in Requests \ {r} : jobs[q].state = "running" => jobs'[q] = jobs[q]
  BY <1>1, <1>2, <1>3, <1>4, <1>5, <1>6, UpdateValid
<1>8. \A q \in work : jobs'[q].state = "running"
  BY <1>7 DEF JobsInv, TypeOK, OneBuildAtATime
<1>. QED  BY <1>7, <1>8 DEF JobsInv, SlotExclusive, OneBuildAtATime, slot

LEMMA FinishStep ==
  ASSUME JobsInv, TypeOK', NEW w \in Workers, NEW r \in Requests,
         \/ FinishSucceeded(w, r) \/ RecoverCommit(w, r)
         \/ \E outcome \in {"failed", "cancelled", "uncertain"} : FinishOther(w, r, outcome)
  PROVE  JobsInv'
<1>1. TasksSettled'
  BY DEF FinishSucceeded, RecoverCommit, FinishOther, JobsInv, TypeOK, TasksSettled, Idle, slot
<1>2. CASE FinishSucceeded(w, r)
  <2>1. r \notin work
    BY <1>2 DEF FinishSucceeded, JobsInv, TasksSettled
  <2>. QED
    BY <1>1, <1>2, <2>1, EndStep DEF FinishSucceeded, ActiveClaim, JobsInv, LedgerValid
<1>3. CASE RecoverCommit(w, r)
  BY <1>1, <1>3, EndStep DEF RecoverCommit, JobsInv, LedgerValid
<1>4. ASSUME NEW outcome \in {"failed", "cancelled", "uncertain"}, FinishOther(w, r, outcome)
      PROVE  JobsInv'
  BY <1>1, <1>4, EndStep DEF FinishOther, ActiveClaim, JobsInv, LedgerValid
<1>. QED  BY <1>2, <1>3, <1>4

(* The first sections of finish(succeeded) and recover_interrupted.          *)
LEMMA BeginStep ==
  ASSUME JobsInv, TypeOK', NEW w \in Workers, NEW r \in Requests,
         FinishVerify(w, r) \/ RecoverBegin(w, r)
  PROVE  JobsInv'
<1>1. Save(Swept) /\ lastSequence' = lastSequence /\ UNCHANGED <<slot, work>>
  BY DEF FinishVerify, RecoverBegin
<1>2. StateValid' /\ \A q \in Requests : jobs[q].state = "running" => jobs'[q] = jobs[q]
  BY <1>1, SweepValid DEF JobsInv, LedgerValid
<1>3. SlotExclusive' /\ OneBuildAtATime'
  BY <1>1, <1>2 DEF JobsInv, TypeOK, SlotExclusive, OneBuildAtATime, slot
<1>4. TasksSettled'
  <2>1. lease[w] # None
    BY DEF FinishVerify, RecoverBegin, Ready
  <2>2. task \in [Workers -> Tasks] /\ lease' = lease /\ work' = work
    BY <1>1 DEF JobsInv, TypeOK, slot
  <2>3. CASE task' = task
    BY <2>2, <2>3 DEF JobsInv, TasksSettled
  <2>4. ASSUME NEW s \in Tasks, task' = [task EXCEPT ![w] = s],
               s.step = "verified" => s.request \notin work
        PROVE  TasksSettled'
    <3>1. task'[w] = s /\ \A v \in Workers \ {w} : task'[v] = task[v]
      BY <2>2, <2>4
    <3>2. \A v \in Workers \ {w} :
            /\ task[v].step # "idle" => lease[v] # None
            /\ task[v].step = "verified" => task[v].request \notin work
      BY DEF JobsInv, TasksSettled
    <3>. QED  BY <2>1, <2>2, <2>4, <3>1, <3>2 DEF TasksSettled
  <2>5. CASE FinishVerify(w, r) /\ task' # task
    <3>. DEFINE s == [Idle EXCEPT !.step = "verified", !.request = r]
    <3>1. s \in Tasks /\ s.step = "verified" /\ s.request = r
      BY DEF Idle, Tasks
    <3>2. task' = [task EXCEPT ![w] = s] /\ r \notin work
      BY <2>5 DEF FinishVerify
    <3>. HIDE DEF s
    <3>. QED  BY <2>4, <3>1, <3>2
  <2>6. CASE RecoverBegin(w, r)
    <3>. DEFINE s == [step |-> "recovering", request |-> r, interrupted |-> jobs[r].lease_id]
    <3>1. jobs[r] \in Job
      BY DEF JobsInv, TypeOK
    <3>2. s \in Tasks /\ s.step = "recovering"
      BY <3>1 DEF Job, Tasks
    <3>3. task' = [task EXCEPT ![w] = s]
      BY <2>6 DEF RecoverBegin
    <3>. HIDE DEF s
    <3>. QED  BY <2>4, <3>2, <3>3
  <2>. QED  BY <2>3, <2>5, <2>6
<1>. QED  BY <1>2, <1>3, <1>4 DEF JobsInv, LedgerValid

(* A build starts under its own claim, which is the only running record and *)
(* whose worker is the only lease holder.                                   *)
LEMMA WorkStep ==
  ASSUME JobsInv, TypeOK', NEW r \in Requests,
         StopWork(r) \/ \E w \in Workers : StartWork(w, r)
  PROVE  JobsInv'
<1>0. UNCHANGED <<ledger, slot>>
  BY DEF StopWork, StartWork
<1>1. StateValid' /\ SlotExclusive'
  BY <1>0 DEF ledger, slot, JobsInv, LedgerValid, StateValid,
              SequencesValid, OneClaim, InState, Present, SlotExclusive
<1>2. CASE StopWork(r)
  BY <1>1, <1>2 DEF StopWork, ledger, slot, JobsInv, LedgerValid, TypeOK,
                    OneBuildAtATime, TasksSettled
<1>3. ASSUME NEW w \in Workers, StartWork(w, r)
      PROVE  JobsInv'
  <2>1. /\ jobs' = jobs /\ lease' = lease /\ task' = task /\ work' = work \cup {r}
        /\ jobs[r].state = "running" /\ lease[w] # None /\ task[w] = Idle
    BY <1>3 DEF StartWork, Ready, ActiveClaim, ledger, slot
  <2>2. OneBuildAtATime'
    BY <2>1 DEF JobsInv, LedgerValid, TypeOK, StateValid, OneClaim, InState, OneBuildAtATime
  <2>3. \A v \in Workers : task[v].step = "verified" => v = w
    BY <2>1 DEF JobsInv, TasksSettled, SlotExclusive
  <2>4. TasksSettled'
    BY <2>1, <2>3 DEF JobsInv, TasksSettled, Idle
  <2>. QED  BY <1>1, <2>2, <2>4 DEF JobsInv, LedgerValid
<1>. QED  BY <1>2, <1>3

LEMMA IdleStep ==
  ASSUME JobsInv, TypeOK', UNCHANGED <<ledger, slot, work>>,
         task' = task \/ \E w \in Workers : task' = [task EXCEPT ![w] = Idle]
  PROVE  JobsInv'
<1>1. StateValid' /\ SlotExclusive' /\ OneBuildAtATime'
  BY DEF ledger, slot, JobsInv, LedgerValid, StateValid, SequencesValid, OneClaim,
         InState, Present, SlotExclusive, OneBuildAtATime
<1>2. TasksSettled'
  BY DEF JobsInv, TypeOK, TasksSettled, Idle, slot
<1>. QED  BY <1>1, <1>2 DEF JobsInv, LedgerValid

(* JobsInv is inductive.                                                    *)
LEMMA Inductive == ASSUME JobsInv, [Next]_vars PROVE JobsInv'
<1>1. TypeOK'
  BY TypeStep DEF JobsInv
<1>2. CASE ClientNext
  <2>1. ASSUME NEW r \in Requests, NEW o \in Owners, NEW d \in Digests,
               Replay(r, o, d) \/ Status(r, o) \/ Refuse(r)
        PROVE  JobsInv'
    BY <2>1, SweepStep DEF Replay, Status, Refuse
  <2>2. ASSUME NEW r \in Requests, NEW o \in Owners, Status(r, o) \/ Refuse(r)
        PROVE  JobsInv'
    BY <2>2, SweepStep DEF Status, Refuse
  <2>3. ASSUME NEW r \in Requests, Refuse(r) PROVE JobsInv'
    BY <2>3, SweepStep DEF Refuse
  <2>. QED
    BY <1>1, <1>2, <2>1, <2>2, <2>3, AdmitStep, CancelStep, DrainingStep DEF ClientNext
<1>3. CASE SlotNext
  BY <1>1, <1>3, SlotStep
<1>4. CASE WorkerNext
  <2>1. ASSUME NEW w \in Workers, ClaimOldest(w) \/ ClaimNothing(w) \/ Abandon(w)
        PROVE  JobsInv'
    <3>1. CASE ClaimOldest(w)
      BY <1>1, <3>1, ClaimStep DEF ClaimOldest
    <3>2. CASE ClaimNothing(w)
      BY <3>2, SweepStep DEF ClaimNothing
    <3>3. CASE Abandon(w)
      BY <1>1, <3>3, IdleStep DEF Abandon
    <3>. QED  BY <2>1, <3>1, <3>2, <3>3
  <2>2. ASSUME NEW w \in Workers, NEW r \in Requests, ClaimExact(w, r)
        PROVE  JobsInv'
    BY <1>1, <2>2, ClaimStep DEF ClaimExact
  <2>. QED
    BY <1>1, <1>4, <2>1, <2>2, FinishStep, BeginStep, WorkStep DEF WorkerNext
<1>5. CASE \E t \in 0 .. MaxTime : SetClock(t)
  BY <1>1, <1>5, IdleStep DEF SetClock
<1>6. CASE UNCHANGED vars
  BY <1>1, <1>6, IdleStep DEF vars
<1>. QED  BY <1>2, <1>3, <1>4, <1>5, <1>6 DEF Next

LEMMA Initially == Init => JobsInv
<1>. SUFFICES ASSUME Init PROVE JobsInv
  OBVIOUS
<1>1. TypeOK
  BY InitType
<1>2. Present = {} /\ \A s \in States : InState(s) = {}
  BY DEF Init, Present, InState, NoJob, States, Terminal, Certain
<1>3. StateValid
  <2>1. Cardinality({}) = 0
    BY FS_EmptySet
  <2>2. lastSequence = 0 /\ MaxOperations \in Nat
    BY BuildJobsAssumption DEF Init
  <2>3. InState("running") = {}
    BY <1>2 DEF States
  <2>. QED  BY <1>2, <2>1, <2>2, <2>3 DEF StateValid, SequencesValid, OneClaim
<1>4. SlotExclusive /\ OneBuildAtATime /\ TasksSettled
  BY DEF Init, SlotExclusive, OneBuildAtATime, TasksSettled, Idle
<1>. QED  BY <1>1, <1>3, <1>4 DEF JobsInv, LedgerValid

THEOREM Invariance == Spec => []JobsInv
BY Initially, Inductive, PTL DEF Spec

(* Whatever sequence of calls, crashes and clock jumps happens, the ledger   *)
(* satisfies what _validate_state demands, for any queue size, TTL, store    *)
(* limit, number of workers and requests: _save and _load never raise on the *)
(* store's own data.                                                        *)
THEOREM LedgerNeverWedged == Spec => []LedgerValid
<1>1. JobsInv => LedgerValid
  BY DEF JobsInv
<1>. QED  BY <1>1, Invariance, PTL

(* One lease at a time owns the host slot, inherited descriptors included.   *)
THEOREM SlotIsExclusive == Spec => []SlotExclusive
<1>1. JobsInv => SlotExclusive
  BY DEF JobsInv
<1>. QED  BY <1>1, Invariance, PTL

(* Two builds never execute together, and none executes without a running    *)
(* record, also across worker crashes that leave a build behind.             *)
THEOREM NoConcurrentBuilds == Spec => []OneBuildAtATime
<1>1. JobsInv => OneBuildAtATime
  BY DEF JobsInv
<1>. QED  BY <1>1, Invariance, PTL

(* A lease holder between two locked sections keeps its slot and its build   *)
(* stays stopped.                                                           *)
THEOREM SectionsSettled == Spec => []TasksSettled
<1>1. JobsInv => TasksSettled
  BY DEF JobsInv
<1>. QED  BY <1>1, Invariance, PTL

-----------------------------------------------------------------------------
(* What one step may do to the records.  Every operation sweeps, and at most *)
(* one record is rewritten beside that; the properties below need no more.    *)

Claimed(w, r) ==
  [jobs[r] EXCEPT !.state = "running", !.started_at = Now, !.lease_id = lease[w]]

Admits ==
  \E r \in Requests, o \in Owners, d \in Digests :
    /\ jobs[r].state = "absent"
    /\ jobs' = [Swept EXCEPT ![r] = NewJob(o, d)]

Cancels ==
  \E r \in Requests :
    /\ jobs[r].state # "absent"
    /\ jobs' = [Swept EXCEPT ![r] = Cancelled(Swept[r])]

Claims ==
  \E w \in Workers, r \in Waiting :
    /\ InState("running") = {}
    /\ r \notin Nested => \A q \in Waiting \ Nested : jobs[r].sequence <= jobs[q].sequence
    /\ jobs' = [Swept EXCEPT ![r] = Claimed(w, r)]

Decides ==
  \E r \in Requests, outcome \in {"succeeded", "failed", "cancelled", "uncertain"} :
    /\ jobs[r].state = "running"
    /\ outcome = "succeeded" => ~jobs[r].cancel_requested
    /\ outcome = "cancelled" => jobs[r].cancel_requested
    /\ outcome # "uncertain" => \E w \in Workers : lease[w] = jobs[r].lease_id
    /\ jobs' = [Swept EXCEPT ![r] = Ended(jobs[r], outcome)]

LEMMA OneRecord ==
  ASSUME JobsInv, [Next]_vars
  PROVE  jobs' = jobs \/ jobs' = Swept \/ Admits \/ Cancels \/ Claims \/ Decides
<1>1. ASSUME ClientNext PROVE jobs' = Swept \/ Admits \/ Cancels
  BY <1>1 DEF ClientNext, Admit, Replay, Status, Cancel, Refuse, SetDraining, SweepOnly, Save,
              Admits, Cancels
<1>2. ASSUME SlotNext PROVE jobs' = jobs
  BY <1>2 DEF SlotNext, Acquire, Inherit, HeirExits, Exit, ledger
<1>3. ASSUME NEW w \in Workers, NEW offered \in SUBSET Waiting, ClaimFrom(w, offered),
             offered = Waiting \ Nested \/ offered \subseteq Nested
      PROVE  Claims
  <2>1. PICK r \in offered :
          /\ \A q \in offered : jobs[r].sequence <= jobs[q].sequence
          /\ jobs' = [Swept EXCEPT ![r].state = "running", ![r].started_at = Now,
                                   ![r].lease_id = lease[w]]
    BY <1>3 DEF ClaimFrom, Save
  <2>2. Swept[r] = jobs[r] /\ Swept \in [Requests -> Job] /\ r \in Requests /\ r \in Waiting
    BY SweptType DEF Swept, Waiting, JobsInv
  <2>3. jobs' = [Swept EXCEPT ![r] = Claimed(w, r)]
    BY <2>1, <2>2 DEF Claimed
  <2>4. InState("running") = {}
    BY <1>3 DEF ClaimFrom, Claimable
  <2>. QED  BY <1>3, <2>1, <2>2, <2>3, <2>4 DEF Claims
<1>4. ASSUME NEW w \in Workers, NEW r \in Requests,
             \/ FinishSucceeded(w, r)
             \/ RecoverCommit(w, r)
             \/ \E outcome \in {"failed", "cancelled", "uncertain"} : FinishOther(w, r, outcome)
      PROVE  Decides
  BY <1>4 DEF FinishSucceeded, RecoverCommit, FinishOther, ActiveClaim, Save, Decides
<1>5. ASSUME NEW w \in Workers, NEW r \in Requests,
             ClaimNothing(w) \/ FinishVerify(w, r) \/ RecoverBegin(w, r)
      PROVE  jobs' = Swept
  BY <1>5 DEF ClaimNothing, SweepOnly, FinishVerify, RecoverBegin, Save
<1>6. ASSUME NEW w \in Workers, ClaimNothing(w)
      PROVE  jobs' = Swept
  BY <1>6 DEF ClaimNothing, SweepOnly, Save
<1>7. ASSUME NEW w \in Workers, NEW r \in Requests, StartWork(w, r) \/ StopWork(r)
      PROVE  jobs' = jobs
  BY <1>7 DEF StartWork, StopWork, ledger
<1>8. ASSUME NEW r \in Requests, StopWork(r) PROVE jobs' = jobs
  BY <1>8 DEF StopWork, ledger
<1>9. ASSUME NEW w \in Workers, Abandon(w) PROVE jobs' = jobs
  BY <1>9 DEF Abandon, ledger
<1>10. ASSUME NEW w \in Workers, ClaimOldest(w) PROVE Claims
  BY <1>3, <1>10 DEF ClaimOldest
<1>11. ASSUME NEW w \in Workers, NEW r \in Requests, ClaimExact(w, r) PROVE Claims
  BY <1>3, <1>11 DEF ClaimExact
<1>12. ASSUME WorkerNext PROVE jobs' = jobs \/ jobs' = Swept \/ Claims \/ Decides
  BY <1>4, <1>5, <1>6, <1>7, <1>8, <1>9, <1>10, <1>11, <1>12 DEF WorkerNext
<1>13. ASSUME (\E t \in 0 .. MaxTime : SetClock(t)) \/ UNCHANGED vars PROVE jobs' = jobs
  BY <1>13 DEF SetClock, vars, ledger
<1>. QED  BY <1>1, <1>2, <1>12, <1>13 DEF Next

(* The sweep only ends queued work.                                          *)
LEMMA SweptFields ==
  ASSUME TypeOK, NEW r \in Requests
  PROVE  /\ jobs[r] \in Job
         /\ Swept[r].state = IF Overdue(r) THEN "expired" ELSE jobs[r].state
         /\ Swept[r].sequence = jobs[r].sequence
         /\ Swept[r].started_at = jobs[r].started_at
         /\ Swept[r].cancel_requested = jobs[r].cancel_requested
<1>1. jobs[r] \in Job
  BY DEF TypeOK
<1>. QED  BY <1>1 DEF Swept, Job

(* One record through each operation, in the fields a client can see.        *)
LEMMA NewFields ==
  ASSUME NEW o \in Owners, NEW d \in Digests
  PROVE  /\ NewJob(o, d).state = "queued" /\ ~NewJob(o, d).cancel_requested
         /\ NewJob(o, d).sequence = lastSequence + 1
         /\ NewJob(o, d).started_at = NoTime
BY DEF NewJob, NoJob

LEMMA CancelledFields ==
  ASSUME NEW record \in Job
  PROVE  /\ Cancelled(record).state = IF record.state = "queued" THEN "cancelled" ELSE record.state
         /\ Cancelled(record).cancel_requested
              <=> record.cancel_requested \/ record.state \in {"queued", "running"}
         /\ Cancelled(record).sequence = record.sequence
         /\ Cancelled(record).started_at = record.started_at
BY DEF Cancelled, Job

LEMMA ClaimedFields ==
  ASSUME TypeOK, NEW w \in Workers, NEW r \in Requests
  PROVE  /\ Claimed(w, r).state = "running"
         /\ Claimed(w, r).cancel_requested = jobs[r].cancel_requested
         /\ Claimed(w, r).sequence = jobs[r].sequence
         /\ Claimed(w, r).started_at = Now
<1>1. jobs[r] \in Job
  BY DEF TypeOK
<1>. QED  BY <1>1 DEF Claimed, Job

LEMMA EndedFields ==
  ASSUME TypeOK, NEW r \in Requests, NEW outcome
  PROVE  /\ Ended(jobs[r], outcome).state = outcome
         /\ Ended(jobs[r], outcome).cancel_requested = jobs[r].cancel_requested
         /\ Ended(jobs[r], outcome).sequence = jobs[r].sequence
         /\ Ended(jobs[r], outcome).started_at = jobs[r].started_at
<1>1. jobs[r] \in Job
  BY DEF TypeOK
<1>. QED  BY <1>1 DEF Ended, Job

(* The record that is not merely swept, and the others.                      *)
LEMMA Rewritten ==
  ASSUME TypeOK, NEW r \in Requests, NEW x, jobs' = [Swept EXCEPT ![r] = x]
  PROVE  jobs'[r] = x /\ \A q \in Requests \ {r} : jobs'[q] = Swept[q]
BY SweptType

-----------------------------------------------------------------------------
(* An interrupted claim.                                                    *)

(* A claim whose lease nobody holds stays running or becomes uncertain.      *)
THEOREM InterruptionIsUncertain == Spec => InterruptedOnlyUncertain
<1>. DEFINE Kept ==
       \A r \in Requests :
         /\ jobs[r].state = "running"
         /\ \A w \in Workers : lease[w] # jobs[r].lease_id
         => jobs'[r].state \in {"running", "uncertain"}
<1>1. ASSUME JobsInv, [Next]_vars PROVE Kept
  <2>. SUFFICES ASSUME NEW r \in Requests, jobs[r].state = "running",
                       \A w \in Workers : lease[w] # jobs[r].lease_id
                PROVE  jobs'[r].state \in {"running", "uncertain"}
    OBVIOUS
  <2>1. TypeOK
    BY <1>1 DEF JobsInv
  <2>2. Swept[r].state = "running" /\ ~Overdue(r) /\ Swept[r] \in Job
    BY <2>1, SweptFields, SweptType DEF Overdue
  <2>3. CASE jobs' = jobs \/ jobs' = Swept
    BY <2>2, <2>3
  <2>4. CASE Admits
    BY <2>1, <2>2, <2>4, Rewritten DEF Admits
  <2>5. CASE Cancels
    <3>1. PICK q \in Requests : jobs' = [Swept EXCEPT ![q] = Cancelled(Swept[q])]
      BY <2>5 DEF Cancels
    <3>. QED  BY <2>1, <2>2, <3>1, Rewritten, CancelledFields
  <2>6. CASE Claims
    BY <2>6 DEF Claims, InState
  <2>7. CASE Decides
    <3>1. PICK q \in Requests, outcome \in {"succeeded", "failed", "cancelled", "uncertain"} :
            /\ outcome # "uncertain" => \E w \in Workers : lease[w] = jobs[q].lease_id
            /\ jobs' = [Swept EXCEPT ![q] = Ended(jobs[q], outcome)]
      BY <2>7 DEF Decides
    <3>2. CASE q = r
      <4>1. outcome = "uncertain" /\ jobs'[r] = Ended(jobs[r], outcome)
        BY <2>1, <3>1, <3>2, Rewritten
      <4>. QED  BY <2>1, <4>1, EndedFields
    <3>3. CASE q # r
      BY <2>1, <2>2, <3>1, <3>3, Rewritten
    <3>. QED  BY <3>2, <3>3
  <2>. QED  BY <1>1, <2>3, <2>4, <2>5, <2>6, <2>7, OneRecord
<1>2. JobsInv /\ [Next]_vars => [Kept]_vars
  BY <1>1
<1>. QED  BY <1>2, Invariance, PTL DEF Spec, InterruptedOnlyUncertain

-----------------------------------------------------------------------------
(* The order of admission.                                                  *)

LEMMA OrderKept ==
  ASSUME JobsInv, JobsInv', NoOvertaking, [Next]_vars
  PROVE  NoOvertaking'
<1>. SUFFICES ASSUME NEW p \in Present' \ Nested, NEW q \in Present' \ Nested,
                     jobs'[p].sequence < jobs'[q].sequence, jobs'[q].started_at # NoTime
              PROVE  /\ jobs'[p].state # "queued"
                     /\ jobs'[p].started_at <= jobs'[q].started_at
  BY DEF NoOvertaking
<1>1. /\ TypeOK /\ p \in Requests /\ q \in Requests /\ p # q
      /\ Now \in Nat /\ lastTime \in Nat /\ lastTime <= Now
  <2>1. TypeOK /\ TypeOK' /\ p \in Requests /\ q \in Requests
    BY DEF JobsInv, Present
  <2>2. jobs'[p] \in Job
    BY <2>1 DEF TypeOK
  <2>. QED  BY <2>1, <2>2, NowType DEF TypeOK, Job
(* A step that rewrites neither sequence nor start, and queues nothing.      *)
<1>2. ASSUME \A r \in {p, q} :
               /\ jobs'[r].sequence = jobs[r].sequence
               /\ jobs'[r].started_at = jobs[r].started_at
               /\ jobs[r].state = "absent" => jobs'[r].state = "absent"
               /\ jobs'[r].state = "queued" => jobs[r].state = "queued"
      PROVE  /\ jobs'[p].state # "queued"
             /\ jobs'[p].started_at <= jobs'[q].started_at
  <2>1. p \in Present \ Nested /\ q \in Present \ Nested
    BY <1>1, <1>2 DEF Present
  <2>. QED  BY <1>2, <2>1 DEF NoOvertaking
<1>3. \A r \in Requests : jobs'[r] = jobs[r] \/ jobs'[r] = Swept[r] =>
        /\ jobs'[r].sequence = jobs[r].sequence
        /\ jobs'[r].started_at = jobs[r].started_at
        /\ jobs[r].state = "absent" => jobs'[r].state = "absent"
        /\ jobs'[r].state = "queued" => jobs[r].state = "queued"
  BY <1>1, SweptFields DEF Overdue
<1>4. CASE jobs' = jobs \/ jobs' = Swept
  BY <1>1, <1>2, <1>3, <1>4
<1>5. CASE Admits
  <2>1. PICK r \in Requests, o \in Owners, d \in Digests :
          /\ jobs[r].state = "absent"
          /\ jobs' = [Swept EXCEPT ![r] = NewJob(o, d)]
    BY <1>5 DEF Admits
  <2>2. jobs'[r] = NewJob(o, d) /\ \A s \in Requests \ {r} : jobs'[s] = Swept[s]
    BY <1>1, <2>1, Rewritten
  <2>3. CASE r = q
    BY <2>2, <2>3, NewFields
  <2>4. CASE r = p
    <3>1. jobs'[q].sequence = jobs[q].sequence /\ q \in Present
      BY <1>1, <1>3, <2>2, <2>4 DEF Present
    <3>2. jobs[q].sequence \in 1 .. lastSequence
      BY <3>1 DEF JobsInv, LedgerValid, StateValid, SequencesValid
    <3>3. jobs'[p].sequence = lastSequence + 1 /\ lastSequence \in Nat
      BY <1>1, <2>2, <2>4, NewFields DEF TypeOK
    <3>. QED  BY <3>1, <3>2, <3>3
  <2>5. CASE r \notin {p, q}
    BY <1>1, <1>2, <1>3, <2>2, <2>5
  <2>. QED  BY <2>3, <2>4, <2>5
<1>6. CASE Cancels
  <2>1. PICK r \in Requests :
          /\ jobs[r].state # "absent"
          /\ jobs' = [Swept EXCEPT ![r] = Cancelled(Swept[r])]
    BY <1>6 DEF Cancels
  <2>2. jobs'[r] = Cancelled(Swept[r]) /\ \A s \in Requests \ {r} : jobs'[s] = Swept[s]
    BY <1>1, <2>1, Rewritten
  <2>3. Swept[r] \in Job
    BY <1>1, SweptType
  <2>4. /\ jobs'[r].sequence = jobs[r].sequence
        /\ jobs'[r].started_at = jobs[r].started_at
        /\ jobs'[r].state # "queued"
    BY <1>1, <2>2, <2>3, SweptFields, CancelledFields
  <2>. QED  BY <1>1, <1>2, <1>3, <2>1, <2>2, <2>4
<1>7. CASE Claims
  <2>1. PICK w \in Workers, r \in Waiting :
          /\ r \notin Nested => \A s \in Waiting \ Nested : jobs[r].sequence <= jobs[s].sequence
          /\ jobs' = [Swept EXCEPT ![r] = Claimed(w, r)]
    BY <1>7 DEF Claims
  <2>2. r \in Requests /\ jobs[r].state = "queued"
    BY <2>1 DEF Waiting
  <2>3. jobs'[r] = Claimed(w, r) /\ \A s \in Requests \ {r} : jobs'[s] = Swept[s]
    BY <1>1, <2>1, <2>2, Rewritten
  <2>4. /\ jobs'[r].sequence = jobs[r].sequence
        /\ jobs'[r].started_at = Now
        /\ jobs'[r].state = "running"
    BY <1>1, <2>2, <2>3, ClaimedFields
  <2>5. CASE r = q
    <3>1. /\ jobs'[p] = Swept[p] /\ jobs'[p].sequence = jobs[p].sequence
          /\ jobs'[p].started_at = jobs[p].started_at /\ p \in Present
      BY <1>1, <1>3, <2>3, <2>5 DEF Present
    <3>2. p \notin Waiting
      <4>1. jobs[p] \in Job /\ jobs[q] \in Job
        BY <1>1 DEF TypeOK
      <4>2. jobs[p].sequence < jobs[q].sequence
        BY <2>4, <2>5, <3>1
      <4>. QED  BY <2>1, <2>5, <4>1, <4>2 DEF Job
    <3>3. jobs'[p].state # "queued"
      BY <1>1, <3>1, <3>2, SweptFields DEF Waiting
    <3>4. jobs[p].started_at <= lastTime /\ jobs[p] \in Job
      BY <1>1, <3>1 DEF JobsInv, LedgerValid, StateValid, ClockValid, TypeOK
    <3>. QED  BY <1>1, <2>4, <2>5, <3>1, <3>3, <3>4 DEF Job, Times, NoTime
  <2>6. CASE r = p
    <3>1. /\ jobs'[q].sequence = jobs[q].sequence
          /\ jobs'[q].started_at = jobs[q].started_at /\ q \in Present
      BY <1>1, <1>3, <2>3, <2>6 DEF Present
    <3>2. p \in Present
      BY <2>2, <2>6 DEF Present
    <3>. QED  BY <2>2, <2>4, <2>6, <3>1, <3>2 DEF NoOvertaking
  <2>7. CASE r \notin {p, q}
    BY <1>1, <1>2, <1>3, <2>3, <2>7
  <2>. QED  BY <2>5, <2>6, <2>7
<1>8. CASE Decides
  <2>1. PICK r \in Requests, outcome \in {"succeeded", "failed", "cancelled", "uncertain"} :
          /\ jobs[r].state = "running"
          /\ jobs' = [Swept EXCEPT ![r] = Ended(jobs[r], outcome)]
    BY <1>8 DEF Decides
  <2>2. jobs'[r] = Ended(jobs[r], outcome) /\ \A s \in Requests \ {r} : jobs'[s] = Swept[s]
    BY <1>1, <2>1, Rewritten
  <2>3. /\ jobs'[r].sequence = jobs[r].sequence
        /\ jobs'[r].started_at = jobs[r].started_at
        /\ jobs'[r].state # "queued"
    BY <1>1, <2>2, EndedFields
  <2>. QED  BY <1>1, <1>2, <1>3, <2>1, <2>2, <2>3
<1>. QED  BY <1>4, <1>5, <1>6, <1>7, <1>8, OneRecord

(* Ordinary requests start in the order of admission, whatever the clock     *)
(* does and whoever cancels, expires or dies (BuildJobStore._claim).         *)
THEOREM AdmissionOrder == Spec => []NoOvertaking
<1>1. Init => NoOvertaking
  BY DEF Init, NoOvertaking, Present, NoJob
<1>2. JobsInv /\ JobsInv' /\ NoOvertaking /\ [Next]_vars => NoOvertaking'
  BY OrderKept
<1>. QED  BY <1>1, <1>2, Invariance, PTL DEF Spec

-----------------------------------------------------------------------------
(* The refinement: each kind of step is one of the client's.                 *)

(* A request nobody submitted was not cancelled.                            *)
AbsentBlank == \A r \in Requests : jobs[r].state = "absent" => ~jobs[r].cancel_requested

LEMMA BlankKept ==
  ASSUME JobsInv, AbsentBlank, [Next]_vars
  PROVE  AbsentBlank'
<1>1. TypeOK
  BY DEF JobsInv
<1>2. ASSUME NEW r \in Requests, jobs'[r] = jobs[r] \/ jobs'[r] = Swept[r]
      PROVE  jobs'[r].state = "absent" => ~jobs'[r].cancel_requested
  BY <1>1, <1>2, SweptFields DEF AbsentBlank
<1>3. ASSUME NEW r \in Requests, NEW x, jobs' = [Swept EXCEPT ![r] = x], x.state # "absent"
      PROVE  AbsentBlank'
  BY <1>1, <1>2, <1>3, Rewritten DEF AbsentBlank
<1>4. CASE jobs' = jobs \/ jobs' = Swept
  BY <1>2, <1>4 DEF AbsentBlank
<1>5. CASE Admits
  BY <1>3, <1>5, NewFields DEF Admits
<1>6. CASE Cancels
  <2>1. PICK r \in Requests : jobs[r].state # "absent" /\ jobs' = [Swept EXCEPT ![r] = Cancelled(Swept[r])]
    BY <1>6 DEF Cancels
  <2>2. Cancelled(Swept[r]).state # "absent"
    BY <1>1, <2>1, SweptType, SweptFields, CancelledFields
  <2>. QED  BY <1>3, <2>1, <2>2
<1>7. CASE Claims
  <2>1. PICK w \in Workers, r \in Waiting : jobs' = [Swept EXCEPT ![r] = Claimed(w, r)]
    BY <1>7 DEF Claims
  <2>. QED  BY <1>1, <1>3, <2>1, ClaimedFields DEF Waiting
<1>8. CASE Decides
  <2>1. PICK r \in Requests, outcome \in {"succeeded", "failed", "cancelled", "uncertain"} :
          jobs' = [Swept EXCEPT ![r] = Ended(jobs[r], outcome)]
    BY <1>8 DEF Decides
  <2>. QED  BY <1>1, <1>3, <2>1, EndedFields
<1>. QED  BY <1>4, <1>5, <1>6, <1>7, <1>8, OneRecord

(* What the client sees, named apart from the mapping for the provers.       *)
Phase     == [r \in Requests |-> jobs[r].state]
CancelSet == {r \in Requests : jobs[r].cancel_requested}
LateSet   == {r \in Requests : Overdue(r)}

LEMMA LateView ==
  ASSUME TypeOK
  PROVE  /\ LateSet \in SUBSET Lifecycle!In("queued")
         /\ Lifecycle!Late(LateSet) = [r \in Requests |-> Swept[r].state]
         /\ CancelSet = {r \in Requests : Swept[r].cancel_requested}
         /\ \A r \in Waiting : r \in Requests \ LateSet /\ jobs[r].state = "queued"
         /\ \A r \in Requests : jobs[r].state # "queued" => r \notin LateSet
<1>1. \A r \in Requests : Overdue(r) => jobs[r].state = "queued"
  BY DEF Overdue
<1>. QED  BY <1>1, SweptFields DEF LateSet, CancelSet, Waiting, Lifecycle!In, Lifecycle!Late

(* The view after one record was rewritten beside the sweep.                 *)
LEMMA RewrittenView ==
  ASSUME TypeOK, NEW r \in Requests, NEW x, jobs' = [Swept EXCEPT ![r] = x]
  PROVE  /\ Phase' = [Lifecycle!Late(LateSet) EXCEPT ![r] = x.state]
         /\ (x.cancel_requested <=> jobs[r].cancel_requested) => CancelSet' = CancelSet
         /\ x.cancel_requested => CancelSet' = CancelSet \cup {r}
<1>1. jobs'[r] = x /\ \A q \in Requests \ {r} : jobs'[q] = Swept[q]
  BY Rewritten
<1>2. \A q \in Requests : Swept[q].cancel_requested = jobs[q].cancel_requested
  BY SweptFields
<1>3. Phase' = [q \in Requests |-> IF q = r THEN x.state ELSE Swept[q].state]
  BY <1>1 DEF Phase
<1>4. \A q \in Requests : q \in CancelSet' <=>
        IF q = r THEN x.cancel_requested ELSE jobs[q].cancel_requested
  BY <1>1, <1>2 DEF CancelSet
<1>. QED  BY <1>3, <1>4, LateView DEF CancelSet

LEMMA LifecycleStep ==
  ASSUME JobsInv, AbsentBlank, [Next]_vars
  PROVE  [Lifecycle!Next]_(Lifecycle!vars)
<1>0. PICK S : S = LateSet
  OBVIOUS
<1>. DEFINE L == Lifecycle!Late(S)
<1>1. TypeOK
  BY DEF JobsInv
<1>2. S \in SUBSET Lifecycle!In("queued")
  BY <1>0, <1>1, LateView
<1>3. CASE jobs' = jobs
  BY <1>3 DEF Lifecycle!vars
<1>4. ASSUME Phase' = L, CancelSet' = CancelSet PROVE Lifecycle!Next
  <2>1. Lifecycle!Expire(S)
    BY <1>4 DEF Lifecycle!Expire, Phase, CancelSet
  <2>. QED  BY <1>2, <2>1 DEF Lifecycle!Next
<1>5. CASE jobs' = Swept
  BY <1>0, <1>1, <1>4, <1>5, LateView, SweptFields DEF Phase, CancelSet
<1>6. CASE Admits
  <2>1. PICK r \in Requests, o \in Owners, d \in Digests :
          /\ jobs[r].state = "absent"
          /\ jobs' = [Swept EXCEPT ![r] = NewJob(o, d)]
    BY <1>6 DEF Admits
  <2>2. Phase' = [L EXCEPT ![r] = "queued"] /\ CancelSet' = CancelSet /\ r \notin S
    <3>1. NewJob(o, d).state = "queued" /\ ~NewJob(o, d).cancel_requested
      BY NewFields
    <3>. QED  BY <1>0, <1>1, <2>1, <3>1, RewrittenView, LateView DEF AbsentBlank
  <2>3. Lifecycle!Accept(r, S)
    BY <2>1, <2>2 DEF Lifecycle!Accept, Phase, CancelSet
  <2>. QED  BY <1>2, <2>2, <2>3 DEF Lifecycle!Next
<1>7. CASE Cancels
  <2>1. PICK r \in Requests :
          /\ jobs[r].state # "absent"
          /\ jobs' = [Swept EXCEPT ![r] = Cancelled(Swept[r])]
    BY <1>7 DEF Cancels
  <2>. DEFINE x == Cancelled(Swept[r])
  <2>2. /\ x.state = IF Swept[r].state = "queued" THEN "cancelled" ELSE Swept[r].state
        /\ x.cancel_requested <=> jobs[r].cancel_requested \/ Swept[r].state \in {"queued", "running"}
        /\ jobs[r] \in Job
        /\ Swept[r].state = IF r \in S THEN "expired" ELSE jobs[r].state
    BY <1>0, <1>1, SweptType, SweptFields, CancelledFields DEF LateSet
  <2>3. /\ Phase' = [L EXCEPT ![r] = x.state]
        /\ (x.cancel_requested <=> jobs[r].cancel_requested) => CancelSet' = CancelSet
        /\ x.cancel_requested => CancelSet' = CancelSet \cup {r}
    <3>1. x.cancel_requested \in BOOLEAN /\ jobs[r].cancel_requested \in BOOLEAN
      <4>1. Swept[r] \in Job
        BY <1>1, SweptType
      <4>. QED  BY <2>2, <4>1 DEF Cancelled, Job
    <3>. QED  BY <1>0, <1>1, <2>1, <3>1, RewrittenView
  <2>4. L[r] = Swept[r].state /\ L \in [Requests -> {Swept[q].state : q \in Requests}]
    BY <1>0, <1>1, LateView
  <2>. HIDE DEF x
  <2>5. CASE r \notin S /\ jobs[r].state \in {"queued", "running"}
    <3>1. Lifecycle!Cancel(r, S)
      <4>1. CancelSet' = CancelSet \cup {r}
        BY <2>2, <2>3, <2>5
      <4>2. Phase' = IF jobs[r].state = "queued" THEN [L EXCEPT ![r] = "cancelled"] ELSE L
        BY <2>2, <2>3, <2>4, <2>5
      <4>. QED  BY <2>5, <4>1, <4>2 DEF Lifecycle!Cancel, Phase, CancelSet
    <3>. QED  BY <1>2, <2>5, <3>1 DEF Lifecycle!Next
  <2>6. CASE r \in S \/ jobs[r].state \notin {"queued", "running"}
    <3>1. Phase' = L /\ CancelSet' = CancelSet
      BY <2>2, <2>3, <2>4, <2>6
    <3>. QED  BY <1>4, <3>1
  <2>. QED  BY <2>5, <2>6
<1>8. CASE Claims
  <2>1. PICK w \in Workers, r \in Waiting :
          /\ InState("running") = {}
          /\ jobs' = [Swept EXCEPT ![r] = Claimed(w, r)]
    BY <1>8 DEF Claims
  <2>2. r \in Requests \ S /\ jobs[r].state = "queued"
    BY <1>0, <1>1, LateView
  <2>3. Phase' = [L EXCEPT ![r] = "running"] /\ CancelSet' = CancelSet
    <3>1. /\ Claimed(w, r).state = "running"
          /\ Claimed(w, r).cancel_requested = jobs[r].cancel_requested
      BY <1>1, <2>2, ClaimedFields
    <3>2. /\ Phase' = [L EXCEPT ![r] = Claimed(w, r).state]
          /\ (Claimed(w, r).cancel_requested <=> jobs[r].cancel_requested) => CancelSet' = CancelSet
      BY <1>0, <1>1, <2>1, <2>2, RewrittenView
    <3>. QED  BY <3>1, <3>2
  <2>4. Lifecycle!Start(r, S)
    BY <2>1, <2>2, <2>3 DEF Lifecycle!Start, Lifecycle!In, InState, Phase, CancelSet
  <2>. QED  BY <1>2, <2>2, <2>4 DEF Lifecycle!Next
<1>9. CASE Decides
  <2>1. PICK r \in Requests, outcome \in {"succeeded", "failed", "cancelled", "uncertain"} :
          /\ jobs[r].state = "running"
          /\ outcome = "succeeded" => ~jobs[r].cancel_requested
          /\ outcome = "cancelled" => jobs[r].cancel_requested
          /\ jobs' = [Swept EXCEPT ![r] = Ended(jobs[r], outcome)]
    BY <1>9 DEF Decides
  <2>2. r \in Requests \ S
    BY <1>0, <1>1, <2>1, LateView
  <2>3. Phase' = [L EXCEPT ![r] = outcome] /\ CancelSet' = CancelSet
    <3>1. /\ Ended(jobs[r], outcome).state = outcome
          /\ Ended(jobs[r], outcome).cancel_requested = jobs[r].cancel_requested
      BY <1>1, EndedFields
    <3>2. /\ Phase' = [L EXCEPT ![r] = Ended(jobs[r], outcome).state]
          /\ (Ended(jobs[r], outcome).cancel_requested <=> jobs[r].cancel_requested)
               => CancelSet' = CancelSet
      BY <1>0, <1>1, <2>1, RewrittenView
    <3>. QED  BY <3>1, <3>2
  <2>4. Lifecycle!Decide(r, S, outcome)
    BY <2>1, <2>2, <2>3 DEF Lifecycle!Decide, Phase, CancelSet
  <2>. QED  BY <1>2, <2>2, <2>4 DEF Lifecycle!Next, Lifecycle!Outcomes
<1>. QED  BY <1>3, <1>5, <1>6, <1>7, <1>8, <1>9, OneRecord

(* To its clients the store is the abstract lifecycle: a receipt never       *)
(* changes, a job moves only forward, and a cancellation that was            *)
(* acknowledged before the outcome excludes success, for every interleaving  *)
(* of clients, workers, deaths and clock jumps.                              *)
THEOREM LifecycleImplemented == Spec => ImplementsLifecycle
<1>1. Init => AbsentBlank /\ Lifecycle!Init
  BY DEF Init, AbsentBlank, NoJob, Lifecycle!Init
<1>2. JobsInv /\ AbsentBlank /\ [Next]_vars => AbsentBlank'
  BY BlankKept
<1>3. JobsInv /\ AbsentBlank /\ [Next]_vars => [Lifecycle!Next]_(Lifecycle!vars)
  BY LifecycleStep
<1>. QED  BY <1>1, <1>2, <1>3, Invariance, PTL DEF Spec, ImplementsLifecycle, Lifecycle!Spec

-----------------------------------------------------------------------------
(* The worker's run.                                                        *)

(* The positions between a claim and its receipt, for the provers.          *)
Placed == {"claimed", "prepared", "dispatching", "executing", "built", "failing", "swept",
           "failed", "cancelling", "published", "released", "finishing", "refused"}

(* A worker that is not idle has the only lease, so all others are idle.    *)
LEMMA Alone ==
  ASSUME RunInv, NEW w \in Workers, lease[w] # None, NEW v \in Workers \ {w}
  PROVE  at[w] # "idle" /\ lease[v] = None /\ at[v] = "idle"
BY DEF RunInv, JobsInv, SlotExclusive, LeaseInHand

-----------------------------------------------------------------------------
(* A run takes the ledger's steps.                                          *)

LEMMA LedgerStep == ASSUME RunInv, [RunNext]_all PROVE [Next]_vars
<1>1. ASSUME NEW w \in Workers, TakeLease(w) PROVE Next
  BY <1>1 DEF TakeLease, Next, SlotNext
<1>2. ASSUME NEW w \in Workers, Claim(w) PROVE Next
  BY <1>2, BuildJobsAssumption DEF Claim, Next, WorkerNext
<1>3. ASSUME NEW w \in Workers,
             \/ Reject(w) \/ CreateScratch(w) \/ Provision(w)
             \/ Returned(w) \/ Publish(w) \/ Release(w) \/ ReadOutcome(w)
      PROVE  UNCHANGED vars
  BY <1>3 DEF Reject, CreateScratch, Provision, Returned, Publish, Release, ReadOutcome, Step
<1>4. ASSUME NEW w \in Workers, Dispatch(w) PROVE [Next]_vars
  <2>1. job[w] \in Requests
    BY <1>4 DEF Dispatch, RunInv, ClaimInHand
  <2>. QED  BY <1>4, <2>1 DEF Dispatch, Next, WorkerNext
<1>5. ASSUME NEW w \in Workers, FinishStopped(w) \/ FinishReceipt(w) PROVE Next
  <2>1. job[w] \in Requests
    BY <1>5 DEF FinishStopped, FinishReceipt, RunInv, ClaimInHand
  <2>. QED  BY <1>5, <2>1 DEF FinishStopped, FinishReceipt, Next, WorkerNext
<1>6. ASSUME NEW w \in Workers, EndRun(w) \/ Recover(w) PROVE Next
  BY <1>6 DEF EndRun, Recover, Next, SlotNext, WorkerNext
<1>7. ASSUME BuildStops \/ Clients \/ ClockMoves PROVE Next
  BY <1>7 DEF BuildStops, Clients, ClockMoves, Next, WorkerNext
<1>8. ASSUME UNCHANGED all PROVE UNCHANGED vars
  BY <1>8 DEF all
<1>. QED  BY <1>1, <1>2, <1>3, <1>4, <1>5, <1>6, <1>7, <1>8 DEF RunNext, RunStep

-----------------------------------------------------------------------------
(* What operations do to the records of others.                             *)

(* A record is left as it was, except that it may be admitted or end while  *)
(* it is still queued.                                                      *)
Unclaimed == {"absent", "queued", "cancelled", "expired"}

Undisturbed(r) ==
  /\ jobs'[r].lease_id \in {jobs[r].lease_id, None}
  /\ jobs[r].state \notin {"absent", "queued"} =>
       jobs'[r].state = jobs[r].state /\ jobs'[r].lease_id = jobs[r].lease_id
  /\ jobs[r].state \in {"absent", "queued"} => jobs'[r].state \in Unclaimed

LEMMA SweptUndisturbed ==
  ASSUME TypeOK, NEW r \in Requests, jobs'[r] = Swept[r]
  PROVE  Undisturbed(r)
<1>1. jobs[r] \in Job
  BY DEF TypeOK
<1>. QED  BY <1>1 DEF Swept, Overdue, Undisturbed, Unclaimed, Job

(* An operation of the worker rewrites one record and sweeps the others.    *)
LEMMA SaveOne ==
  ASSUME TypeOK, NEW r \in Requests, NEW x, Save([Swept EXCEPT ![r] = x])
  PROVE  /\ jobs'[r] = x
         /\ \A q \in Requests \ {r} : Undisturbed(q)
<1>1. /\ jobs'[r] = x
      /\ \A q \in Requests \ {r} : jobs'[q] = Swept[q]
  BY SweptType DEF Save
<1>. QED  BY <1>1, SweptUndisturbed

LEMMA SweepUndisturbed ==
  ASSUME TypeOK, jobs' = Swept
  PROVE  \A r \in Requests : Undisturbed(r)
BY SweptUndisturbed

LEMMA ClientsUndisturbed ==
  ASSUME TypeOK, ClientNext
  PROVE  (\A r \in Requests : Undisturbed(r)) /\ UNCHANGED <<slot, work>>
<1>1. ASSUME SweepOnly
      PROVE  (\A r \in Requests : Undisturbed(r)) /\ UNCHANGED <<slot, work>>
  BY <1>1, SweepUndisturbed DEF SweepOnly, Save
<1>2. ASSUME NEW r \in Requests, NEW o \in Owners, NEW d \in Digests, Admit(r, o, d)
      PROVE  (\A q \in Requests : Undisturbed(q)) /\ UNCHANGED <<slot, work>>
  <2>1. jobs'[r] = NewJob(o, d) /\ \A q \in Requests \ {r} : Undisturbed(q)
    BY <1>2, SaveOne DEF Admit
  <2>2. NewJob(o, d).state = "queued" /\ NewJob(o, d).lease_id = None
    BY DEF NewJob, NoJob
  <2>3. Undisturbed(r)
    BY <1>2, <2>1, <2>2 DEF Admit, Undisturbed, Unclaimed
  <2>. QED  BY <1>2, <2>1, <2>3 DEF Admit
<1>3. ASSUME NEW r \in Requests, NEW o \in Owners, Cancel(r, o)
      PROVE  (\A q \in Requests : Undisturbed(q)) /\ UNCHANGED <<slot, work>>
  <2>1. jobs'[r] = Cancelled(Swept[r]) /\ \A q \in Requests \ {r} : Undisturbed(q)
    BY <1>3, SaveOne DEF Cancel
  <2>2. Swept[r] \in Job /\ jobs[r] \in Job
    BY SweptType DEF TypeOK
  <2>3. /\ Cancelled(Swept[r]).lease_id = Swept[r].lease_id
        /\ Cancelled(Swept[r]).state =
             IF Swept[r].state = "queued" THEN "cancelled" ELSE Swept[r].state
    BY <2>2 DEF Cancelled, Job
  <2>4. /\ Swept[r].lease_id = jobs[r].lease_id
        /\ Swept[r].state \in {jobs[r].state, "expired"}
        /\ jobs[r].state # "queued" => Swept[r].state = jobs[r].state
    BY <2>2 DEF Swept, Overdue, Job
  <2>5. Undisturbed(r)
    BY <2>1, <2>3, <2>4 DEF Undisturbed, Unclaimed
  <2>. QED  BY <1>3, <2>1, <2>5 DEF Cancel
<1>4. ASSUME NEW b \in BOOLEAN, SetDraining(b)
      PROVE  (\A r \in Requests : Undisturbed(r)) /\ UNCHANGED <<slot, work>>
  BY <1>4, SweepUndisturbed DEF SetDraining
<1>. QED  BY <1>1, <1>2, <1>3, <1>4 DEF ClientNext, Replay, Status, Refuse

(* Such a step of others preserves everything about the run.                *)
LEMMA OthersStep ==
  ASSUME RunInv, JobsInv', UNCHANGED <<slot, run>>, work' \subseteq work,
         \A r \in Requests : Undisturbed(r)
  PROVE  RunInv'
<1>1. UNCHANGED <<at, job, scratch, bundles, launched, lease>>
  BY DEF run, slot
<1>2. RunTypeOK'
  BY <1>1 DEF RunInv, RunTypeOK
<1>3. LeaseInHand'
  BY <1>1 DEF RunInv, LeaseInHand, Undisturbed
<1>4. ClaimInHand'
  BY <1>1 DEF RunInv, ClaimInHand, ActiveClaim, Undisturbed
<1>5. TracesKnown'
  BY <1>1 DEF RunInv, TracesKnown
<1>6. LaunchedOnce'
  BY <1>1 DEF RunInv, RunTypeOK, LaunchedOnce, Undisturbed
<1>7. ScratchAccounted'
  BY <1>1 DEF RunInv, RunTypeOK, ScratchAccounted, Undisturbed
<1>8. ReceiptBacked'
  BY <1>1 DEF RunInv, ReceiptBacked, Undisturbed, Unclaimed
<1>. QED  BY <1>2, <1>3, <1>4, <1>5, <1>6, <1>7, <1>8 DEF RunInv

-----------------------------------------------------------------------------
(* The steps of the worker.                                                 *)

LEMMA LeaseStep ==
  ASSUME RunInv, JobsInv', NEW w \in Workers, TakeLease(w)
  PROVE  RunInv'
<1>1. PICK t \in Tokens : Acquire(w, t)
  BY DEF TakeLease
<1>2. /\ jobs' = jobs /\ work' = work /\ UNCHANGED <<job, scratch, bundles, launched>>
      /\ lease' = [lease EXCEPT ![w] = t] /\ at' = [at EXCEPT ![w] = "leased"]
  BY <1>1 DEF Acquire, TakeLease, GoTo, ledger
<1>3. \A v \in Workers : lease[v] = None /\ at[v] = "idle"
  BY <1>1 DEF Acquire, SlotFree, RunInv, LeaseInHand
<1>4. t # None /\ \A r \in Requests : jobs[r].lease_id # t
  BY <1>1, BuildJobsAssumption DEF Acquire, Fresh
<1>5. at \in [Workers -> Places] /\ lease \in [Workers -> Tokens \cup {None}]
  BY DEF RunInv, RunTypeOK, JobsInv, TypeOK
<1>6. /\ at'[w] = "leased" /\ lease'[w] = t
      /\ \A v \in Workers \ {w} : at'[v] = "idle" /\ lease'[v] = None
  BY <1>2, <1>3, <1>5
<1>7. RunTypeOK'
  BY <1>2, <1>5 DEF RunInv, RunTypeOK, Places
<1>8. LeaseInHand'
  BY <1>2, <1>4, <1>6 DEF LeaseInHand
<1>9. ClaimInHand' /\ TracesKnown'
  BY <1>6 DEF ClaimInHand, TracesKnown, Settling
<1>10. LaunchedOnce' /\ ScratchAccounted' /\ ReceiptBacked'
  BY <1>2 DEF RunInv, LaunchedOnce, ScratchAccounted, ReceiptBacked
<1>. QED  BY <1>7, <1>8, <1>9, <1>10 DEF RunInv

(* A claim turns a queued record into the worker's own.  It was never       *)
(* launched, and nothing executes under it.                                 *)
LEMMA ClaimRunStep ==
  ASSUME RunInv, JobsInv', NEW w \in Workers, Claim(w)
  PROVE  RunInv'
<1>1. TypeOK /\ at \in [Workers -> Places] /\ job \in [Workers -> Requests \cup {None}]
  BY DEF RunInv, RunTypeOK, JobsInv
<1>2. at[w] = "leased" /\ UNCHANGED <<scratch, bundles, launched, work, lease>>
  BY DEF Claim, ClaimOldest, ClaimExact, ClaimFrom, ClaimNothing, SweepOnly, slot
<1>3. lease[w] # None /\ \A v \in Workers \ {w} : at[v] = "idle" /\ lease[v] = None
  BY <1>2, Alone DEF RunInv, LeaseInHand
<1>4. CASE ClaimNothing(w) /\ GoTo(w, "done") /\ UNCHANGED job
  <2>1. \A r \in Requests : Undisturbed(r)
    BY <1>1, <1>4, SweepUndisturbed DEF ClaimNothing, SweepOnly, Save
  <2>2. at'[w] = "done" /\ \A v \in Workers \ {w} : at'[v] = "idle"
    BY <1>1, <1>3, <1>4 DEF GoTo
  <2>3. RunTypeOK'
    BY <1>1, <1>2, <1>4 DEF GoTo, RunInv, RunTypeOK, Places
  <2>4. LeaseInHand' /\ ClaimInHand' /\ TracesKnown'
    BY <1>2, <1>3, <2>2 DEF LeaseInHand, ClaimInHand, TracesKnown, Settling
  <2>5. LaunchedOnce' /\ ScratchAccounted' /\ ReceiptBacked'
    BY <1>2, <2>1 DEF RunInv, RunTypeOK, LaunchedOnce, ScratchAccounted, ReceiptBacked,
                      Undisturbed, Unclaimed
  <2>. QED  BY <2>3, <2>4, <2>5 DEF RunInv
<1>5. ASSUME NEW offered \in SUBSET Waiting, ClaimFrom(w, offered), GoTo(w, "claimed"),
             job' = [job EXCEPT ![w] = CHOOSE r \in Requests : jobs'[r].lease_id = lease[w]]
      PROVE  RunInv'
  <2>1. PICK r \in offered :
          Save([Swept EXCEPT ![r].state = "running", ![r].started_at = Now,
                             ![r].lease_id = lease[w]])
    BY <1>5 DEF ClaimFrom
  <2>2. r \in Requests /\ jobs[r].state = "queued"
    BY DEF Waiting
  <2>. DEFINE x == [Swept[r] EXCEPT !.state = "running", !.started_at = Now,
                                    !.lease_id = lease[w]]
  <2>3. Save([Swept EXCEPT ![r] = x])
    BY <1>1, <2>1, <2>2, SweptType
  <2>4. x.state = "running" /\ x.lease_id = lease[w]
    BY <1>1, <2>2, SweptType DEF Job
  <2>. HIDE DEF x
  <2>5. jobs'[r] = x /\ \A q \in Requests \ {r} : Undisturbed(q)
    BY <1>1, <2>2, <2>3, SaveOne
  <2>6. \A q \in Requests : jobs[q].lease_id # lease[w]
    BY <1>2 DEF RunInv, LeaseInHand
  <2>7. \A q \in Requests \ {r} : jobs'[q].lease_id # lease[w]
    BY <1>3, <2>5, <2>6 DEF Undisturbed
  <2>8. job'[w] = r
    BY <1>1, <1>5, <2>2, <2>4, <2>5, <2>7
  <2>9. at'[w] = "claimed" /\ \A v \in Workers \ {w} : at'[v] = "idle"
    BY <1>1, <1>3, <1>5 DEF GoTo
  <2>10. r \notin work /\ r \notin launched /\ r \notin scratch
    BY <2>2 DEF RunInv, JobsInv, OneBuildAtATime, LaunchedOnce, ScratchAccounted
  <2>11. RunTypeOK'
    BY <1>1, <1>2, <1>5, <2>2, <2>8 DEF GoTo, RunInv, RunTypeOK, Places, Preparing
  <2>12. LeaseInHand' /\ TracesKnown'
    BY <1>2, <1>3, <2>9 DEF LeaseInHand, TracesKnown, Settling
  <2>13. ClaimInHand'
    BY <1>2, <2>2, <2>4, <2>5, <2>8, <2>9, <2>10 DEF ClaimInHand, ActiveClaim
  <2>14. LaunchedOnce' /\ ScratchAccounted' /\ ReceiptBacked'
    BY <1>2, <2>4, <2>5 DEF RunInv, RunTypeOK, LaunchedOnce, ScratchAccounted, ReceiptBacked,
                            Undisturbed, Unclaimed
  <2>. QED  BY <2>11, <2>12, <2>13, <2>14 DEF RunInv
<1>6. Waiting \ Nested \subseteq Waiting /\ \A r : Waiting \cap {r} \subseteq Waiting
  OBVIOUS
<1>. QED  BY <1>4, <1>5, <1>6 DEF Claim, ClaimOldest, ClaimExact

(* Steps that leave the ledger alone, or only let the claimed build start.  *)
LEMMA ProgressStep ==
  ASSUME RunInv, JobsInv', NEW w \in Workers,
         \/ Reject(w) \/ CreateScratch(w) \/ Provision(w) \/ Dispatch(w)
         \/ Returned(w) \/ Publish(w) \/ Release(w) \/ ReadOutcome(w)
  PROVE  RunInv'
<1>. DEFINE place == at'[w]
            r == job[w]
<1>1. /\ at \in [Workers -> Places] /\ job \in [Workers -> Requests \cup {None}]
      /\ scratch \subseteq Requests /\ bundles \subseteq Requests /\ launched \subseteq Requests
  BY DEF RunInv, RunTypeOK
<1>2. /\ at[w] \notin {"idle", "leased", "done"} /\ place \in Placed
      /\ at' = [at EXCEPT ![w] = place]
      /\ UNCHANGED <<jobs, lease, job>>
  BY <1>1 DEF Reject, CreateScratch, Provision, Dispatch, Returned, Publish, Release, ReadOutcome,
            Step, GoTo, StartWork, vars, ledger, slot, Placed
<1>3. /\ r \in Requests /\ ActiveClaim(w, r)
      /\ at[w] # "executing" => r \notin work
      /\ at[w] \in Preparing => r \notin launched
  BY <1>2 DEF RunInv, ClaimInHand
<1>4. lease[w] # None /\ \A v \in Workers \ {w} : at[v] = "idle" /\ lease[v] = None
  BY <1>2, Alone DEF RunInv, LeaseInHand
<1>5. \A v \in Workers \ {w} : at'[v] = "idle"
  BY <1>1, <1>2, <1>4
<1>6. /\ place # "executing" => r \notin work'
      /\ place \in Preparing => r \notin launched'
  BY <1>1, <1>3 DEF Reject, CreateScratch, Provision, Dispatch, Returned, Publish, Release,
                    ReadOutcome, Step, GoTo, vars, Preparing
<1>7. /\ launched' \subseteq launched \cup {r}
      /\ scratch' \subseteq scratch \cup {r}
      /\ bundles \subseteq bundles' /\ bundles' \subseteq bundles \cup {r}
  BY DEF Reject, CreateScratch, Provision, Dispatch, Returned, Publish, Release, ReadOutcome,
         Step, MountScratch, UnmountScratch, PublishBundle
<1>8. /\ place \in Settling \ {"failing", "published"} => r \notin scratch'
      /\ place \in {"published", "released", "finishing"} => r \in bundles'
  <2>1. /\ at[w] \in Settling \ {"failing", "published"} => r \notin scratch
        /\ at[w] \in {"published", "released", "finishing"} => r \in bundles
    BY DEF RunInv, TracesKnown
  <2>2. CASE Reject(w) \/ CreateScratch(w) \/ Provision(w) \/ Dispatch(w) \/ Returned(w)
    BY <1>1, <2>2 DEF Reject, CreateScratch, Provision, Dispatch, Returned, Step, GoTo, Settling
  <2>3. CASE Publish(w) \/ Release(w)
    BY <1>1, <2>1, <2>3 DEF Publish, Release, Step, GoTo, PublishBundle, UnmountScratch, Settling
  <2>4. CASE ReadOutcome(w)
    BY <1>1, <2>1, <2>4 DEF ReadOutcome, Step, GoTo, Settling
  <2>. QED  BY <2>2, <2>3, <2>4
<1>. HIDE DEF place, r
<1>9. RunTypeOK'
  BY <1>1, <1>2, <1>3, <1>7 DEF RunTypeOK, Placed, Places, Preparing, Settling
<1>10. LeaseInHand'
  BY <1>2, <1>4, <1>5 DEF LeaseInHand, Placed, place
<1>11. ClaimInHand'
  BY <1>2, <1>3, <1>5, <1>6 DEF ClaimInHand, ActiveClaim, place, r
<1>12. TracesKnown'
  BY <1>2, <1>5, <1>8 DEF TracesKnown, Settling, place, r
<1>13. LaunchedOnce' /\ ScratchAccounted' /\ ReceiptBacked'
  BY <1>2, <1>3, <1>7 DEF RunInv, LaunchedOnce, ScratchAccounted, ReceiptBacked, ActiveClaim
<1>. QED  BY <1>9, <1>10, <1>11, <1>12, <1>13 DEF RunInv

(* The claimed record gets its receipt.                                     *)
LEMMA ReceiptStep ==
  ASSUME RunInv, JobsInv', NEW w \in Workers, NEW r \in Requests,
         NEW outcome \in {"succeeded", "failed", "cancelled"},
         r = job[w], at[w] \in Settling \ {"failing", "published"},
         outcome = "succeeded" => at[w] = "finishing",
         Save([Swept EXCEPT ![r] = Ended(jobs[r], outcome)]),
         GoTo(w, "done"), UNCHANGED <<slot, work, job, scratch, bundles, launched>>
  PROVE  RunInv'
<1>1. TypeOK /\ at \in [Workers -> Places]
  BY DEF RunInv, RunTypeOK, JobsInv
<1>2. jobs'[r].state = outcome
  <2>1. jobs'[r] = Ended(jobs[r], outcome)
    BY <1>1, SaveOne
  <2>2. jobs[r] \in Job
    BY <1>1 DEF TypeOK
  <2>. QED  BY <2>1, <2>2 DEF Ended, Job
<1>3. \A q \in Requests \ {r} : Undisturbed(q)
  BY <1>1, SaveOne
<1>4. lease' = lease /\ lease[w] # None
      /\ \A v \in Workers \ {w} : at[v] = "idle" /\ lease[v] = None
  BY Alone DEF RunInv, LeaseInHand, Settling, slot
<1>5. at'[w] = "done" /\ \A v \in Workers \ {w} : at'[v] = "idle"
  BY <1>1, <1>4 DEF GoTo
<1>6. r \notin scratch /\ (outcome = "succeeded" => r \in bundles)
  BY DEF RunInv, TracesKnown
<1>7. RunTypeOK'
  BY <1>1 DEF GoTo, RunInv, RunTypeOK, Places
<1>8. LeaseInHand' /\ ClaimInHand' /\ TracesKnown'
  BY <1>4, <1>5 DEF LeaseInHand, ClaimInHand, TracesKnown, Settling
<1>9. LaunchedOnce' /\ ScratchAccounted' /\ ReceiptBacked'
  BY <1>2, <1>3, <1>6 DEF RunInv, RunTypeOK, LaunchedOnce, ScratchAccounted, ReceiptBacked,
                          Undisturbed, Unclaimed
<1>. QED  BY <1>7, <1>8, <1>9 DEF RunInv

LEMMA FinishRunStep ==
  ASSUME RunInv, JobsInv', NEW w \in Workers, FinishStopped(w) \/ FinishReceipt(w)
  PROVE  RunInv'
<1>1. TypeOK /\ at \in [Workers -> Places] /\ job \in [Workers -> Requests \cup {None}]
  BY DEF RunInv, RunTypeOK, JobsInv
<1>2. at[w] \in {"cancelling", "failed", "finishing"} /\ UNCHANGED <<job, scratch, bundles, launched>>
  BY DEF FinishStopped, FinishReceipt
<1>3. job[w] \in Requests
  BY <1>2 DEF RunInv, ClaimInHand
<1>4. CASE FinishStopped(w)
  BY <1>2, <1>3, <1>4, ReceiptStep DEF FinishStopped, FinishOther, Settling
<1>5. CASE FinishSucceeded(w, job[w]) /\ GoTo(w, "done") /\ at[w] = "finishing"
  BY <1>2, <1>3, <1>5, ReceiptStep DEF FinishSucceeded, Settling
<1>6. ASSUME at[w] = "finishing", NEW place \in {"finishing", "refused"}, GoTo(w, place),
             UNCHANGED <<slot, work>>, \A q \in Requests : Undisturbed(q)
      PROVE  RunInv'
  <2>1. lease' = lease /\ lease[w] # None
        /\ \A v \in Workers \ {w} : at[v] = "idle" /\ lease[v] = None
    BY <1>6, Alone DEF RunInv, LeaseInHand, slot
  <2>2. at'[w] = place /\ \A v \in Workers \ {w} : at'[v] = "idle"
    BY <1>1, <1>6, <2>1 DEF GoTo
  <2>3. RunTypeOK'
    BY <1>1, <1>2, <1>6 DEF GoTo, RunInv, RunTypeOK, Places, Settling
  <2>4. LeaseInHand'
    BY <2>1, <2>2 DEF LeaseInHand
  <2>5. ClaimInHand'
    BY <1>2, <1>3, <1>6, <2>1, <2>2
    DEF RunInv, ClaimInHand, ActiveClaim, Undisturbed, Preparing
  <2>6. TracesKnown'
    BY <1>2, <1>6, <2>2 DEF RunInv, TracesKnown, Settling
  <2>7. LaunchedOnce' /\ ScratchAccounted' /\ ReceiptBacked'
    BY <1>2, <1>6 DEF RunInv, RunTypeOK, LaunchedOnce, ScratchAccounted, ReceiptBacked,
                      Undisturbed, Unclaimed
  <2>. QED  BY <2>3, <2>4, <2>5, <2>6, <2>7 DEF RunInv
<1>7. CASE /\ at[w] = "finishing" /\ FinishVerify(w, job[w])
           /\ GoTo(w, IF CancelRequested(w) THEN "refused" ELSE "finishing")
  <2>1. (\A q \in Requests : Undisturbed(q)) /\ UNCHANGED <<slot, work>>
    BY <1>1, <1>7, SweepUndisturbed DEF FinishVerify, Save
  <2>. QED  BY <1>6, <1>7, <2>1
<1>8. CASE at[w] = "finishing" /\ Abandon(w) /\ GoTo(w, "refused")
  <2>1. (\A q \in Requests : Undisturbed(q)) /\ UNCHANGED <<slot, work>>
    BY <1>1, <1>8 DEF Abandon, ledger, Undisturbed, Unclaimed
  <2>. QED  BY <1>6, <1>8, <2>1
<1>. QED  BY <1>4, <1>5, <1>7, <1>8 DEF FinishReceipt

LEMMA EndRunStep ==
  ASSUME RunInv, JobsInv', NEW w \in Workers, EndRun(w)
  PROVE  RunInv'
<1>1. /\ at \in [Workers -> Places] /\ job \in [Workers -> Requests \cup {None}]
      /\ lease \in [Workers -> Tokens \cup {None}]
  BY DEF RunInv, RunTypeOK, JobsInv, TypeOK
<1>2. /\ UNCHANGED <<jobs, work, scratch, bundles, launched>> /\ lease[w] # None
      /\ lease' = [lease EXCEPT ![w] = None] /\ at' = [at EXCEPT ![w] = "idle"]
      /\ job' = [job EXCEPT ![w] = None]
  BY DEF EndRun, Exit, GoTo, ledger
<1>3. \A v \in Workers : at'[v] = "idle" /\ lease'[v] = None
  BY <1>1, <1>2, Alone
<1>4. RunTypeOK'
  BY <1>1, <1>2 DEF RunInv, RunTypeOK, Places
<1>5. LeaseInHand' /\ ClaimInHand' /\ TracesKnown'
  BY <1>3 DEF LeaseInHand, ClaimInHand, TracesKnown, Settling
<1>6. LaunchedOnce' /\ ScratchAccounted' /\ ReceiptBacked'
  BY <1>2 DEF RunInv, LaunchedOnce, ScratchAccounted, ReceiptBacked
<1>. QED  BY <1>4, <1>5, <1>6 DEF RunInv

(* Recovery ends a claim whose worker is gone: its own lease has none, and  *)
(* the only other worker there could be would hold the lease.               *)
LEMMA RecoverStep ==
  ASSUME RunInv, JobsInv', NEW w \in Workers, Recover(w)
  PROVE  RunInv'
<1>1. TypeOK /\ at[w] = "leased" /\ UNCHANGED <<at, job, scratch, bundles, launched>>
  BY DEF Recover, run, RunInv, JobsInv
<1>2. lease[w] # None /\ \A v \in Workers \ {w} : at[v] = "idle" /\ lease[v] = None
  BY <1>1, Alone DEF RunInv, LeaseInHand
<1>3. CASE Abandon(w)
  BY <1>1, <1>3, OthersStep DEF Abandon, ledger, run, Undisturbed, Unclaimed
<1>4. ASSUME NEW r \in Requests, RecoverBegin(w, r) PROVE RunInv'
  <2>1. \A q \in Requests : Undisturbed(q)
    BY <1>1, <1>4, SweepUndisturbed DEF RecoverBegin, Save
  <2>. QED  BY <1>1, <1>4, <2>1, OthersStep DEF RecoverBegin, run
<1>5. ASSUME NEW r \in Requests, RecoverCommit(w, r) PROVE RunInv'
  <2>1. jobs'[r] = Ended(jobs[r], "uncertain") /\ \A q \in Requests \ {r} : Undisturbed(q)
    BY <1>1, <1>5, SaveOne DEF RecoverCommit
  <2>2. jobs'[r].state = "uncertain" /\ jobs'[r].lease_id = None
    BY <1>1, <2>1 DEF Ended, TypeOK, Job
  <2>3. UNCHANGED <<lease, work>>
    BY <1>5 DEF RecoverCommit, slot
  <2>4. RunTypeOK' /\ ClaimInHand' /\ TracesKnown'
    BY <1>1, <1>2 DEF RunInv, RunTypeOK, ClaimInHand, TracesKnown, Settling
  <2>5. LeaseInHand'
    BY <1>1, <1>2, <2>1, <2>2, <2>3 DEF RunInv, LeaseInHand, Undisturbed
  <2>6. LaunchedOnce' /\ ScratchAccounted' /\ ReceiptBacked'
    BY <1>1, <2>1, <2>2 DEF RunInv, RunTypeOK, LaunchedOnce, ScratchAccounted, ReceiptBacked,
                            Undisturbed, Unclaimed
  <2>. QED  BY <2>4, <2>5, <2>6 DEF RunInv
<1>. QED  BY <1>3, <1>4, <1>5 DEF Recover

-----------------------------------------------------------------------------
(* The invariant and what follows from it.                                  *)

LEMMA RunInductive == ASSUME RunInv, [RunNext]_all PROVE RunInv'
<1>1. JobsInv'
  BY LedgerStep, Inductive DEF RunInv
<1>2. ASSUME NEW w \in Workers, TakeLease(w) \/ RunStep(w) \/ EndRun(w) \/ Recover(w)
      PROVE  RunInv'
  BY <1>1, <1>2, LeaseStep, ClaimRunStep, ProgressStep, FinishRunStep, EndRunStep, RecoverStep
  DEF RunStep
<1>3. CASE Clients
  <2>1. (\A r \in Requests : Undisturbed(r)) /\ UNCHANGED <<slot, work>>
    BY <1>3, ClientsUndisturbed DEF Clients, RunInv, JobsInv
  <2>. QED  BY <1>1, <1>3, <2>1, OthersStep DEF Clients
<1>4. CASE BuildStops \/ ClockMoves \/ UNCHANGED all
  <2>1. jobs' = jobs /\ work' \subseteq work /\ UNCHANGED <<slot, run>>
    BY <1>4 DEF BuildStops, ClockMoves, all, vars, StopWork, SetClock, ledger
  <2>. QED  BY <1>1, <2>1, OthersStep DEF Undisturbed, Unclaimed
<1>. QED  BY <1>2, <1>3, <1>4 DEF RunNext

LEMMA RunInitially == RunInit => RunInv
<1>. SUFFICES ASSUME RunInit PROVE RunInv
  OBVIOUS
<1>1. JobsInv
  BY Initially DEF RunInit
<1>2. \A w \in Workers : at[w] = "idle" /\ lease[w] = None
  BY DEF RunInit, Init
<1>3. RunTypeOK
  BY DEF RunInit, RunTypeOK, Places
<1>4. LeaseInHand /\ ClaimInHand /\ TracesKnown
  BY <1>2 DEF LeaseInHand, ClaimInHand, TracesKnown, Settling
<1>5. LaunchedOnce /\ ScratchAccounted /\ ReceiptBacked
  BY DEF RunInit, Init, NoJob, LaunchedOnce, ScratchAccounted, ReceiptBacked
<1>. QED  BY <1>1, <1>3, <1>4, <1>5 DEF RunInv

(* The ledger's invariant holds throughout runs that leave mounts, bundles   *)
(* and builds behind wherever they die, and every position in run_next knows *)
(* what is behind it.                                                        *)
THEOREM RunInvariance == RunSpec => []RunInv
BY RunInitially, RunInductive, PTL DEF RunSpec

(* Whenever run_next may release or finish, the claim is its own and nothing *)
(* of the build executes: work_stopped=True, which the ledger takes on       *)
(* trust, is true, for any number of workers, requests and deaths.           *)
THEOREM PromisesAreKept == RunSpec => []PromisesKept
<1>1. RunInv => PromisesKept
  BY DEF RunInv, ClaimInHand, PromisesKept, Settling
<1>. QED  BY <1>1, RunInvariance, PTL

(* A definite receipt has no scratch filesystem, a success has its bundle.   *)
THEOREM ReceiptsMatchTheDisk == RunSpec => []ReceiptTrue
<1>1. RunInv => ReceiptTrue
  BY DEF RunInv, ReceiptTrue
<1>. QED  BY <1>1, RunInvariance, PTL

(* No build is dispatched twice: a launched request is never queued again,   *)
(* and a worker that dies takes its only chance with it.                     *)
THEOREM NothingReplayed == RunSpec => NeverReplayed
<1>1. ASSUME RunInv, [RunNext]_all, NEW r \in work' \ work PROVE r \notin launched
  <2>1. PICK w \in Workers : Dispatch(w) /\ r = job[w] /\ at[w] = "dispatching"
    <3>1. ASSUME NEW w \in Workers, RunStep(w) PROVE Dispatch(w)
      BY <1>1, <3>1
      DEF RunStep, Claim, ClaimOldest, ClaimExact, ClaimFrom, ClaimNothing, SweepOnly,
          Reject, CreateScratch, Provision, Returned, Publish, Release, ReadOutcome, Step, vars,
          FinishStopped, FinishReceipt, FinishOther, FinishVerify, FinishSucceeded, Abandon
    <3>2. ASSUME NEW w \in Workers, TakeLease(w) \/ EndRun(w) \/ Recover(w) PROVE FALSE
      BY <1>1, <3>2
      DEF TakeLease, Acquire, EndRun, Exit, Recover, RecoverBegin, RecoverCommit, Abandon
    <3>3. ASSUME BuildStops \/ Clients \/ ClockMoves \/ UNCHANGED all PROVE FALSE
      BY <1>1, <3>3, ClientsUndisturbed
      DEF BuildStops, StopWork, Clients, ClockMoves, SetClock, all, vars, RunInv, JobsInv
    <3>4. PICK w \in Workers : Dispatch(w)
      BY <1>1, <3>1, <3>2, <3>3 DEF RunNext
    <3>. QED  BY <1>1, <3>4 DEF Dispatch, StartWork, vars
  <2>. QED  BY <1>1, <2>1 DEF RunInv, ClaimInHand, Preparing
<1>2. RunInv /\ [RunNext]_all => [\A r \in work' \ work : r \notin launched]_all
  BY <1>1
<1>. QED  BY <1>2, RunInvariance, PTL DEF RunSpec, NeverReplayed

=============================================================================
