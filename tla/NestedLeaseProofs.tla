--------------------------- MODULE NestedLeaseProofs ---------------------------
(* Theorems about NestedLease for every value of its constants.              *)
EXTENDS NestedLease, FiniteSetTheorems, TLAPS

-----------------------------------------------------------------------------
(* The inductive invariant.                                                 *)

(* What was proved is known to belong to a job whose guardian has run, and   *)
(* a guardian only runs for a worker that got through.                       *)
Registered ==
  /\ \A r \in Requests : client[r] # "none" => proof[r] \in Jobs
  /\ \A j \in Jobs : \A r \in guardian[j].requests : client[r] # "none" /\ proof[r] = j
  /\ \A j \in Jobs : parent[j] \in {"none", "waiting"} => guardian[j].at = "none"
  /\ \A j \in Jobs, r \in Requests : guardian[j].at = "none" => proof[r] # j

(* What the service considers is evidence, what it asks for on loan is of    *)
(* the job that lends, and what it claims in the FIFO is no evidence.        *)
Evident ==
  /\ service.records \subseteq Records
  /\ service.at \in {"asking"} \cup OnLoan =>
       service.request \in Records /\ service.lease = proof[service.request]
  /\ service.at \in InRun =>
       /\ service.request \in Requests /\ service.lease \in Jobs \cup {Fifo}
       /\ IF service.lease = Fifo THEN service.request \notin Records
          ELSE service.request \in Records /\ service.lease = proof[service.request]
  /\ service.at \in InFifo => service.lease = Fifo
  /\ service.at \in {"guarded"} \cup InRun /\ service.lease = Fifo =>
       ~service.handled /\ service.records = Records

(* Who has which descriptors.                                               *)
Descriptors ==
  /\ \A j \in Jobs : Serving(j) => <<j, "guardian">> \in holders
  /\ \A l \in Leases :
       <<l, "service">> \in holders => l = service.lease /\ service.at \notin Away
  /\ service.at \in OnLoan \cup InRun \cup InFifo => <<service.lease, "service">> \in holders

(* All descriptors, and all that works under a lease, are of one lease.      *)
Holds(l) == <<l, "guardian">> \in holders \/ <<l, "service">> \in holders

Works(l) ==
  \/ l \in Jobs /\ parent[l] = "running"
  \/ l \in orphans
  \/ \E r \in Requests : <<l, r>> \in work

InUse(l) == Holds(l) \/ Works(l)

OneLease == \A l, m \in Leases : InUse(l) /\ InUse(m) => l = m

Marked ==
  /\ \A l \in Leases : Works(l) => marker
  /\ \A j \in Jobs : Serving(j) => marker

(* A service that has a lease has nothing executing but its own build.       *)
Clear ==
  /\ <<service.lease, "service">> \in holders /\ service.at # "executing" => work = {}
  /\ service.at = "executing" => work \subseteq {<<service.lease, service.request>>}

(* A guardian clears the marker once nothing executes: its loan lasts until  *)
(* the borrower said so.                                                     *)
Lent ==
  /\ <<service.lease, "service">> \in holders /\ service.at # "waiting" =>
       /\ marker
       /\ service.lease \in Jobs /\ Serving(service.lease) =>
            guardian[service.lease].borrower # None /\ ~mail[service.lease].stopped
  /\ \A j \in Jobs :
       Serving(j) /\ ~guardian[j].uncertain /\ guardian[j].borrower = None => work = {}

(* No claim is unresolved when the borrower says so.                         *)
Settled ==
  /\ service.at \in {"returned", "waiting"} => Running = {}
  /\ service.at \in InRun => Running \subseteq {service.request}
  /\ \A j \in Jobs :
       Serving(j) /\ ~guardian[j].uncertain /\ guardian[j].borrower = None =>
         \A r \in Running : proof[r] # j

LInv ==
  /\ TypeOK /\ Registered /\ Evident /\ Descriptors /\ OneLease /\ Marked /\ Clear /\ Lent
  /\ Settled

-----------------------------------------------------------------------------
(* The types.                                                               *)

LEMMA GuardianUpdates ==
  ASSUME guardian \in [Jobs -> Guardians], NEW j \in Jobs
  PROVE  /\ [guardian EXCEPT ![j].at = "serving"] \in [Jobs -> Guardians]
         /\ [guardian EXCEPT ![j].at = "gone"] \in [Jobs -> Guardians]
         /\ [guardian EXCEPT ![j].exited = TRUE] \in [Jobs -> Guardians]
         /\ [guardian EXCEPT ![j].borrower = None] \in [Jobs -> Guardians]
         /\ \A b \in Requests \cup {None} : [guardian EXCEPT ![j].borrower = b] \in [Jobs -> Guardians]
         /\ [guardian EXCEPT ![j].borrower = None, ![j].uncertain = TRUE] \in [Jobs -> Guardians]
         /\ \A r \in Requests : [guardian EXCEPT ![j].requests = @ \cup {r}] \in [Jobs -> Guardians]
<1>1. guardian[j] \in Guardians
  OBVIOUS
<1> QED
  BY <1>1 DEF Guardians

LEMMA MailUpdates ==
  ASSUME mail \in [Jobs -> Mails], NEW j \in Jobs
  PROVE  /\ [mail EXCEPT ![j] = NoMail] \in [Jobs -> Mails]
         /\ [mail EXCEPT ![j].stopped = TRUE] \in [Jobs -> Mails]
         /\ [mail EXCEPT ![j].replies = Append(@, "cancel")] \in [Jobs -> Mails]
         /\ [mail EXCEPT ![j].replies = Append(@, "confirmed")] \in [Jobs -> Mails]
         /\ mail[j].replies # << >> => [mail EXCEPT ![j].replies = Tail(@)] \in [Jobs -> Mails]
<1>1. mail[j] \in Mails
  OBVIOUS
<1>2. mail[j].replies \in Seq({"cancel", "confirmed"})
  BY <1>1 DEF Mails
<1>3. NoMail \in Mails
  BY DEF NoMail, Mails
<1>4. \A m \in {"cancel", "confirmed"} : Append(mail[j].replies, m) \in Seq({"cancel", "confirmed"})
  BY <1>2
<1>5. mail[j].replies # << >> => Tail(mail[j].replies) \in Seq({"cancel", "confirmed"})
  BY <1>2
<1>6. [mail EXCEPT ![j] = NoMail] \in [Jobs -> Mails]
  BY <1>3
<1>7. [mail EXCEPT ![j].stopped = TRUE] \in [Jobs -> Mails]
  BY <1>1 DEF Mails
<1>8. /\ [mail EXCEPT ![j].replies = Append(@, "cancel")] \in [Jobs -> Mails]
      /\ [mail EXCEPT ![j].replies = Append(@, "confirmed")] \in [Jobs -> Mails]
  BY <1>1, <1>4 DEF Mails
<1>9. mail[j].replies # << >> => [mail EXCEPT ![j].replies = Tail(@)] \in [Jobs -> Mails]
  BY <1>1, <1>5 DEF Mails
<1> QED
  BY <1>6, <1>7, <1>8, <1>9

LEMMA StoppedTyped ==
  /\ Stopped \in Services
  /\ [Stopped EXCEPT !.at = "start"] \in Services
  /\ \A s \in SUBSET Requests : [Stopped EXCEPT !.at = "next", !.records = s] \in Services
  /\ [Stopped EXCEPT !.at = "slot", !.handled = TRUE] \in Services
BY DEF Stopped, Services, Away

LEMMA StepTyped == TypeOK /\ Registered /\ Evident /\ [Next]_vars => TypeOK'
<1> SUFFICES ASSUME TypeOK, Registered, Evident, [Next]_vars PROVE TypeOK'
  OBVIOUS
<1> USE DEF slot, runner, loans, requests, ledger
<1> USE NestedLeaseAssumption DEF TypeOK, Away, OnLoan, InRun, InFifo
<1>1. ASSUME NEW j \in Jobs, Assign(j) PROVE TypeOK'
  BY <1>1 DEF Assign, Services
<1>2. ASSUME NEW j \in Jobs, Acquire(j) PROVE TypeOK'
  <2>1. guardian' \in [Jobs -> Guardians]
    BY <1>2, GuardianUpdates DEF Acquire
  <2> QED
    BY <1>2, <2>1 DEF Acquire
<1>3. ASSUME NEW j \in Jobs, HandoffFails(j) PROVE TypeOK'
  BY <1>3 DEF HandoffFails, Services
<1>4. ASSUME NEW j \in Jobs, Deny(j) PROVE TypeOK'
  BY <1>4 DEF Deny, Services
<1>5. ASSUME NEW j \in Jobs, ParentExits(j) PROVE TypeOK'
  BY <1>5 DEF ParentExits, Services
<1>6. ASSUME NEW j \in Jobs, OrphanEnds(j) PROVE TypeOK'
  BY <1>6 DEF OrphanEnds, Services
<1>7. ASSUME NEW j \in Jobs, NoticeParent(j) PROVE TypeOK'
  <2>1. \/ guardian' = [guardian EXCEPT ![j].at = "gone"]
        \/ guardian' = [guardian EXCEPT ![j].exited = TRUE]
    BY <1>7 DEF NoticeParent, GuardianLeaves, Noticed
  <2>2. guardian' \in [Jobs -> Guardians]
    <3>1. CASE guardian' = [guardian EXCEPT ![j].at = "gone"]
      BY <3>1, GuardianUpdates
    <3>2. CASE guardian' = [guardian EXCEPT ![j].exited = TRUE]
      BY <3>2, GuardianUpdates
    <3> QED
      BY <2>1, <3>1, <3>2
  <2>3. mail' = mail \/ mail' = [mail EXCEPT ![j].replies = Append(@, "cancel")]
    BY <1>7 DEF NoticeParent, GuardianLeaves
  <2>4. mail' \in [Jobs -> Mails]
    <3> HIDE DEF TypeOK
    <3>1. mail \in [Jobs -> Mails]
      BY DEF TypeOK
    <3> QED
      BY <2>3, <3>1, MailUpdates, Zenon
  <2>5. parent' \in {parent, [parent EXCEPT ![j] = "exited"]} /\ holders' \in {holders, holders \ {<<j, "guardian">>}}
        /\ UNCHANGED <<marker, drained, orphans, client, proof, job, work, service, faults>>
    BY <1>7 DEF NoticeParent, GuardianLeaves
  <2> QED
    BY <2>2, <2>4, <2>5
<1>8. ASSUME NEW j \in Jobs, Lend(j) PROVE TypeOK'
  <2>1. service.request \in Requests \cup {None}
    BY DEF Services
  <2>2. guardian' \in [Jobs -> Guardians]
    BY <1>8, <2>1, GuardianUpdates DEF Lend
  <2>3. mail' \in [Jobs -> Mails]
    BY <1>8, MailUpdates DEF Lend
  <2> QED
    BY <1>8, <2>2, <2>3 DEF Lend
<1>9. ASSUME NEW j \in Jobs, FinishBorrow(j) PROVE TypeOK'
  <2>1. \/ guardian' = [guardian EXCEPT ![j].borrower = None]
        \/ guardian' = [guardian EXCEPT ![j].borrower = None, ![j].uncertain = TRUE]
    BY <1>9 DEF FinishBorrow
  <2>2. guardian' \in [Jobs -> Guardians]
    <3>1. CASE guardian' = [guardian EXCEPT ![j].borrower = None]
      BY <3>1, GuardianUpdates
    <3>2. CASE guardian' = [guardian EXCEPT ![j].borrower = None, ![j].uncertain = TRUE]
      BY <3>2, GuardianUpdates
    <3> QED
      BY <2>1, <3>1, <3>2
  <2>3. mail' = mail \/ mail' = [mail EXCEPT ![j].replies = Append(@, "confirmed")]
    BY <1>9 DEF FinishBorrow
  <2>4. mail' \in [Jobs -> Mails]
    <3> HIDE DEF TypeOK
    <3>1. mail \in [Jobs -> Mails]
      BY DEF TypeOK
    <3> QED
      BY <2>3, <3>1, MailUpdates, Zenon
  <2> QED
    BY <1>9, <2>2, <2>4 DEF FinishBorrow
<1>10. ASSUME NEW j \in Jobs, LeaveUncertain(j) PROVE TypeOK'
  <2>1. guardian' = [guardian EXCEPT ![j].at = "gone"]
    BY <1>10 DEF LeaveUncertain, GuardianLeaves
  <2>2. guardian' \in [Jobs -> Guardians]
    BY <2>1, GuardianUpdates
  <2>3. /\ parent' \in {parent, [parent EXCEPT ![j] = "exited"]} /\ holders' = holders \ {<<j, "guardian">>}
        /\ UNCHANGED <<drained, orphans, mail, client, proof, job, work, service>> /\ faults' \in 0 .. MaxFaults
    BY <1>10 DEF LeaveUncertain, GuardianLeaves
  <2>4. marker' \in BOOLEAN
    BY <1>10 DEF LeaveUncertain
  <2> QED
    BY <2>2, <2>3, <2>4
<1>11. ASSUME NEW j \in Jobs, End(j) PROVE TypeOK'
  <2>1. guardian' = [guardian EXCEPT ![j].at = "gone"]
    BY <1>11 DEF End, GuardianLeaves
  <2>2. guardian' \in [Jobs -> Guardians]
    BY <2>1, GuardianUpdates
  <2>3. /\ parent' \in {parent, [parent EXCEPT ![j] = "exited"]} /\ holders' = holders \ {<<j, "guardian">>}
        /\ UNCHANGED <<drained, orphans, mail, client, proof, job, work, service>> /\ faults' \in 0 .. MaxFaults
    BY <1>11 DEF End, GuardianLeaves
  <2>4. marker' \in BOOLEAN
    BY <1>11 DEF End, Releasable
  <2> QED
    BY <2>2, <2>3, <2>4
<1>12. ASSUME NEW j \in Jobs, GuardianDies(j) PROVE TypeOK'
  <2>1. guardian' = [guardian EXCEPT ![j].at = "gone"]
    BY <1>12 DEF GuardianDies, GuardianLeaves
  <2>2. guardian' \in [Jobs -> Guardians]
    BY <2>1, GuardianUpdates
  <2>3. /\ parent' \in {parent, [parent EXCEPT ![j] = "exited"]} /\ holders' = holders \ {<<j, "guardian">>}
        /\ UNCHANGED <<drained, orphans, mail, client, proof, job, work, service>> /\ faults' \in 0 .. MaxFaults
    BY <1>12 DEF GuardianDies, GuardianLeaves
  <2>4. marker' \in BOOLEAN
    BY <1>12 DEF GuardianDies
  <2> QED
    BY <2>2, <2>3, <2>4
<1>13. ASSUME NEW r \in Requests, SubmitPlain(r) PROVE TypeOK'
  BY <1>13 DEF SubmitPlain, Services
<1>14. ASSUME NEW j \in Jobs, NEW r \in Requests, Prove(j, r) PROVE TypeOK'
  <2>1. guardian' \in [Jobs -> Guardians]
    BY <1>14, GuardianUpdates DEF Prove
  <2> QED
    BY <1>14, <2>1 DEF Prove
<1>15. ASSUME NEW r \in Requests, Verify(r) PROVE TypeOK'
  BY <1>15 DEF Verify, Advance, Services
<1>16. ASSUME NEW r \in Requests, Record(r) PROVE TypeOK'
  BY <1>16 DEF Record, Advance, Guarded, Services
<1>17. ASSUME NEW r \in Requests, Admit(r) PROVE TypeOK'
  BY <1>17 DEF Admit, Services
<1>18. ASSUME NEW r \in Requests, ClientCancels(r) PROVE TypeOK'
  BY <1>18 DEF ClientCancels, Ledger, Services
<1>19. CASE Restart
  BY <1>19 DEF Restart, Step, Services
<1>20. CASE Scan
  <2>1. Records \in SUBSET Requests
    BY DEF Records
  <2>2. service' \in Services
    BY <1>20, <2>1, StoppedTyped DEF Scan
  <2> QED
    BY <1>20, <2>2 DEF Scan
<1>21. ASSUME NEW r \in Requests, Consider(r) PROVE TypeOK'
  <2>1. proof[r] \in Jobs \cup {None}
    OBVIOUS
  <2>2. \/ service' = [service EXCEPT !.at = "asking", !.request = r, !.lease = proof[r]]
        \/ service' = [service EXCEPT !.records = @ \ {r}]
    BY <1>21 DEF Consider
  <2>3. service' \in Services
    <3>1. CASE service' = [service EXCEPT !.at = "asking", !.request = r, !.lease = proof[r]]
      BY <2>1, <3>1 DEF Services
    <3>2. CASE service' = [service EXCEPT !.records = @ \ {r}]
      BY <3>2 DEF Services
    <3> QED
      BY <2>2, <3>1, <3>2
  <2>4. job' \in {job, [job EXCEPT ![r] = "ended"]}
    BY <1>21 DEF Consider, CancelQueued, Ledger
  <2>5. UNCHANGED <<slot, runner, loans, requests, work, faults>>
    BY <1>21 DEF Consider, CancelQueued, Ledger
  <2> QED
    BY <2>3, <2>4, <2>5
<1>22. CASE NoneLeft
  BY <1>22 DEF NoneLeft, Step, Services
<1>23. CASE Receive
  BY <1>23 DEF Receive, Step, Services
<1>24. CASE SendStopped
  <2>1. service.lease \in Jobs
    BY <1>24 DEF SendStopped, Step, Evident, Registered, Records
  <2>2. mail' \in [Jobs -> Mails]
    BY <1>24, <2>1, MailUpdates DEF SendStopped
  <2> QED
    BY <1>24, <2>2 DEF SendStopped, Step, Services
<1>25. CASE SkipCancel
  <2>1. service.lease \in Jobs
    BY <1>25 DEF SkipCancel, Step, Evident, Registered, Records
  <2>2. mail' \in [Jobs -> Mails]
    BY <1>25, <2>1, MailUpdates DEF SkipCancel, Replies
  <2> QED
    BY <1>25, <2>2 DEF SkipCancel, Step, Services
<1>26. CASE Acknowledged
  BY <1>26 DEF Acknowledged, Stopped, Without, Replies, Services
<1>27. CASE Unacknowledged
  BY <1>27 DEF Unacknowledged, Down, Stopped, Without, Connected, Replies, Services
<1>28. CASE LoanFails
  BY <1>28 DEF LoanFails, Without, Connected, Services
<1>29. CASE AfterFailure
  <2>1. \/ service' = Stopped
        \/ service' = [service EXCEPT !.at = "next", !.records = @ \ {service.request},
                                      !.request = None, !.lease = None]
    BY <1>29 DEF AfterFailure, Down
  <2>2. service' \in Services
    <3>1. CASE service' = Stopped
      BY <3>1, StoppedTyped
    <3>2. CASE service' = [service EXCEPT !.at = "next", !.records = @ \ {service.request},
                                          !.request = None, !.lease = None]
      BY <3>2 DEF Services
    <3> QED
      BY <2>1, <3>1, <3>2
  <2>3. holders' \subseteq holders /\ job' \in {job, [job EXCEPT ![service.request] = "ended"]}
        /\ UNCHANGED <<marker, drained, runner, loans, requests, work, faults>>
    BY <1>29 DEF AfterFailure, Down, Without, CancelQueued, Ledger
  <2> QED
    BY <2>2, <2>3
<1>30. CASE Interrupted
  BY <1>30 DEF Interrupted, Down, Stopped, Without, Services
<1>31. CASE Claim
  BY <1>31 DEF Claim, Step, Ledger, Services
<1>32. CASE ClaimNothing
  BY <1>32 DEF ClaimNothing, Step, CancelQueued, Ledger, Services
<1>33. CASE Launch
  <2>1. service.request \in Requests /\ service.lease \in Jobs \cup {Fifo}
    BY <1>33 DEF Launch, Step, Evident
  <2> QED
    BY <1>33, <2>1 DEF Launch, Step, Services
<1>34. CASE Poll
  BY <1>34 DEF Poll, Step, Ledger, Cancelled, Connected, Services
<1>35. ASSUME NEW l \in Jobs \cup {Fifo}, NEW r \in Requests, BuildEnds(l, r) PROVE TypeOK'
  BY <1>35 DEF BuildEnds, Services
<1>36. CASE Finish
  BY <1>36 DEF Finish, Ledger, Services
<1>37. CASE Raise
  BY <1>37 DEF Raise, Down, Stopped, Without, Services
<1>38. CASE ServiceDies
  BY <1>38 DEF ServiceDies, Down, Stopped, Without, Services
<1>39. CASE Busy
  BY <1>39 DEF Busy, Step, Services
<1>40. CASE NeedsRecovery
  BY <1>40 DEF NeedsRecovery, Down, Stopped, Without, Services
<1>41. CASE TakeSlot
  <2>1. Records \in SUBSET Requests
    BY DEF Records
  <2>2. service' \in Services
    BY <1>41, <2>1 DEF TakeSlot, Services
  <2> QED
    BY <1>41, <2>2 DEF TakeSlot
<1>42. ASSUME NEW r \in Requests, ClaimOrdinary(r) PROVE TypeOK'
  BY <1>42 DEF ClaimOrdinary, Ordinary, Ledger, Services
<1>43. CASE NoOrdinary
  BY <1>43 DEF NoOrdinary, Step, Services
<1>44. CASE ReleaseSlot
  BY <1>44 DEF ReleaseSlot, Stopped, Without, Services
<1>45. ASSUME NEW b \in BOOLEAN, SetDrain(b) PROVE TypeOK'
  BY <1>45 DEF SetDrain, Services
<1>46. CASE ClearMarker
  BY <1>46 DEF ClearMarker, Services
<1>47. ASSUME NEW r \in Requests, RecoverClaim(r) PROVE TypeOK'
  BY <1>47 DEF RecoverClaim, Ledger, Services
<1>48. CASE UNCHANGED vars
  BY <1>48 DEF vars
<1> QED
  BY <1>1, <1>2, <1>3, <1>4, <1>5, <1>6, <1>7, <1>8, <1>9, <1>10, <1>11, <1>12, <1>13, <1>14,
     <1>15, <1>16, <1>17, <1>18, <1>19, <1>20, <1>21, <1>22, <1>23, <1>24, <1>25, <1>26, <1>27, <1>28,
     <1>29, <1>30, <1>31, <1>32, <1>33, <1>34, <1>35, <1>36, <1>37, <1>38, <1>39, <1>40, <1>41, <1>42,
     <1>43, <1>44, <1>45, <1>46, <1>47, <1>48
     DEF Next, RunnerNext, GuardianNext, ClientNext, ServiceNext

(* What the steps that update records do to their fields.                    *)
AcquireFields(j) ==
  /\ \A k \in Jobs : k # j => guardian'[k] = guardian[k] /\ parent'[k] = parent[k]
  /\ guardian'[j].at = "serving" /\ parent'[j] = "running" /\ parent[j] = "waiting"
  /\ guardian'[j].requests = guardian[j].requests
  /\ ~marker /\ holders = {} /\ marker' /\ holders' = {<<j, "guardian">>}
  /\ UNCHANGED <<orphans, mail, client, proof, job, work, service>>

NoticeFields(j) ==
  /\ \A k \in Jobs : /\ guardian'[k].requests = guardian[k].requests
                     /\ guardian'[k].borrower = guardian[k].borrower
                     /\ guardian'[k].uncertain = guardian[k].uncertain
                     /\ mail'[k].stopped = mail[k].stopped
                     /\ k # j => guardian'[k].at = guardian[k].at
  /\ parent' = parent
  /\ guardian[j].at = "serving"
  /\ \/ holders' = holders /\ guardian'[j].at = guardian[j].at
     \/ holders' = holders \ {<<j, "guardian">>} /\ guardian'[j].at = "gone"
  /\ UNCHANGED <<marker, orphans, client, proof, job, work, service>>

LendFields(j) ==
  /\ \A k \in Jobs : /\ guardian'[k].requests = guardian[k].requests
                     /\ guardian'[k].uncertain = guardian[k].uncertain
                     /\ guardian'[k].at = guardian[k].at
                     /\ k # j => guardian'[k].borrower = guardian[k].borrower
                     /\ k # j => mail'[k] = mail[k]
  /\ guardian'[j].borrower = service.request /\ ~mail'[j].stopped
  /\ guardian[j].at = "serving" /\ guardian[j].borrower = None /\ ~guardian[j].uncertain
  /\ service.at = "asking" /\ service.request \in guardian[j].requests
  /\ holders' = holders \cup {<<j, "service">>}
  /\ UNCHANGED <<marker, parent, orphans, client, proof, job, work, service>>

FinishFields(j) ==
  /\ \A k \in Jobs : /\ guardian'[k].requests = guardian[k].requests
                     /\ guardian'[k].at = guardian[k].at
                     /\ k # j => guardian'[k] = guardian[k]
                     /\ mail'[k].stopped = mail[k].stopped
  /\ mail[j].stopped \/ <<j, "service">> \notin holders
  /\ guardian[j].at = "serving" /\ guardian[j].borrower # None
  /\ ~guardian'[j].uncertain => mail[j].stopped /\ <<j, "service">> \in holders
  /\ UNCHANGED <<marker, holders, parent, orphans, client, proof, job, work, service>>

LeaveFields(j) ==
  /\ \A k \in Jobs : k # j => guardian'[k] = guardian[k] /\ parent'[k] = parent[k]
  /\ guardian'[j].at = "gone" /\ parent'[j] \in {parent[j], "exited"}
  /\ guardian'[j].requests = guardian[j].requests
  /\ holders' = holders \ {<<j, "guardian">>}
  /\ UNCHANGED <<orphans, mail, client, proof, job, work, service>>

ConsiderFields(r) ==
  /\ service.at = "next" /\ r \in service.records
  /\ \/ /\ service'.at = "asking" /\ service'.request = r /\ service'.lease = proof[r]
        /\ service'.records = service.records
     \/ service'.at = "next" /\ service'.records \subseteq service.records
  /\ Running' = Running
  /\ UNCHANGED <<marker, holders, parent, orphans, guardian, mail, client, proof, work>>

FailureFields ==
  /\ service.at = "failed"
  /\ \/ service'.at = "down" /\ service'.records = {}
     \/ service'.at = "next" /\ service'.records \subseteq service.records
  /\ \A l \in Leases : <<l, "service">> \in holders' => <<l, "service">> \in holders
  /\ \A l \in Leases : <<l, "guardian">> \in holders' <=> <<l, "guardian">> \in holders
  /\ Running' = Running
  /\ UNCHANGED <<marker, parent, orphans, guardian, mail, client, proof, work>>

LaunchFields ==
  /\ service.at = "claimed" /\ service'.at = "executing"
  /\ service'.lease = service.lease /\ service'.request = service.request
  /\ service'.records = service.records /\ service'.handled = service.handled
  /\ work' = work \cup {<<service.lease, service.request>>}
  /\ UNCHANGED <<marker, holders, parent, orphans, guardian, mail, client, proof, job>>

LEMMA AcquireEffect ==
  ASSUME TypeOK, NEW j \in Jobs, Acquire(j)
  PROVE  AcquireFields(j)
BY DEF AcquireFields, Acquire, TypeOK, Guardians, requests, ledger

LEMMA NoticeEffect ==
  ASSUME TypeOK, NEW j \in Jobs, NoticeParent(j)
  PROVE  NoticeFields(j)
<1> USE DEF NoticeFields
<1> USE DEF slot, runner, requests, ledger
<1>1. CASE guardian[j].borrower # None /\ <<j, "service">> \notin holders
  <2>1. /\ guardian' = [guardian EXCEPT ![j].at = "gone"] /\ UNCHANGED mail
        /\ holders' = holders \ {<<j, "guardian">>} /\ parent' = parent /\ guardian[j].at = "serving"
        /\ UNCHANGED <<marker, orphans, client, proof, job, work, service>>
    BY <1>1 DEF NoticeParent, GuardianLeaves, Serving
  <2> QED
    BY <2>1 DEF TypeOK, Guardians
<1>2. CASE ~(guardian[j].borrower # None /\ <<j, "service">> \notin holders)
  <2>1. /\ guardian' = [guardian EXCEPT ![j].exited = TRUE] /\ guardian[j].at = "serving"
        /\ UNCHANGED <<holders, parent, marker, orphans, client, proof, job, work, service>>
    BY <1>2 DEF NoticeParent, Noticed, Serving
  <2>2. mail' = mail \/ mail' = [mail EXCEPT ![j].replies = Append(@, "cancel")]
    BY <1>2 DEF NoticeParent
  <2>3. \A k \in Jobs : mail'[k].stopped = mail[k].stopped
    <3>1. CASE mail' = [mail EXCEPT ![j].replies = Append(@, "cancel")]
      BY <3>1 DEF TypeOK, Mails
    <3> QED
      BY <2>2, <3>1
  <2>4. \A k \in Jobs : /\ guardian'[k].requests = guardian[k].requests
                        /\ guardian'[k].borrower = guardian[k].borrower
                        /\ guardian'[k].uncertain = guardian[k].uncertain
                        /\ guardian'[k].at = guardian[k].at
    BY <2>1 DEF TypeOK, Guardians
  <2> QED
    BY <2>1, <2>3, <2>4
<1> QED
  BY <1>1, <1>2

LEMMA LendEffect ==
  ASSUME TypeOK, NEW j \in Jobs, Lend(j)
  PROVE  LendFields(j)
<1> USE DEF LendFields
<1> USE DEF runner, requests, ledger
<1>1. \A k \in Jobs : /\ guardian'[k].requests = guardian[k].requests
                      /\ guardian'[k].uncertain = guardian[k].uncertain
                      /\ guardian'[k].at = guardian[k].at
                      /\ k # j => guardian'[k].borrower = guardian[k].borrower
  BY DEF Lend, TypeOK, Guardians
<1>2. \A k \in Jobs : k # j => mail'[k] = mail[k]
  BY DEF Lend, TypeOK
<1>3. guardian'[j].borrower = service.request /\ ~mail'[j].stopped
  BY DEF Lend, TypeOK, Guardians, NoMail
<1> QED
  BY <1>1, <1>2, <1>3 DEF Lend, Serving

LEMMA FinishEffect ==
  ASSUME TypeOK, NEW j \in Jobs, FinishBorrow(j)
  PROVE  FinishFields(j)
<1> USE DEF FinishFields
<1> USE DEF slot, runner, requests, ledger
<1>0. /\ mail[j].stopped \/ <<j, "service">> \notin holders
      /\ guardian[j].at = "serving" /\ guardian[j].borrower # None
      /\ UNCHANGED <<marker, holders, parent, orphans, client, proof, job, work, service>>
  BY DEF FinishBorrow, Serving
<1>1. CASE Confirmable(j)
  <2>1. /\ guardian' = [guardian EXCEPT ![j].borrower = None]
        /\ mail' = [mail EXCEPT ![j].replies = Append(@, "confirmed")]
    BY <1>1 DEF FinishBorrow
  <2>2. \A k \in Jobs : /\ guardian'[k].requests = guardian[k].requests
                        /\ guardian'[k].at = guardian[k].at
                        /\ k # j => guardian'[k] = guardian[k]
    BY <2>1 DEF TypeOK, Guardians
  <2>3. \A k \in Jobs : mail'[k].stopped = mail[k].stopped
    BY <2>1 DEF TypeOK, Mails
  <2> QED
    BY <1>0, <1>1, <2>2, <2>3 DEF Confirmable
<1>2. CASE ~Confirmable(j)
  <2>1. guardian' = [guardian EXCEPT ![j].borrower = None, ![j].uncertain = TRUE] /\ mail' = mail
    BY <1>2 DEF FinishBorrow
  <2>2. guardian'[j] = [guardian[j] EXCEPT !.borrower = None, !.uncertain = TRUE]
    BY <2>1 DEF TypeOK
  <2>3. \A k \in Jobs : k # j => guardian'[k] = guardian[k]
    BY <2>1 DEF TypeOK
  <2>4. guardian'[j].requests = guardian[j].requests /\ guardian'[j].at = guardian[j].at /\ guardian'[j].uncertain
    BY <2>2 DEF TypeOK, Guardians
  <2> QED
    BY <1>0, <2>1, <2>3, <2>4
<1> QED
  BY <1>1, <1>2

LEMMA LeaveEffect ==
  ASSUME TypeOK, NEW j \in Jobs, NEW b \in BOOLEAN, GuardianLeaves(j, b)
  PROVE  LeaveFields(j)
<1> USE DEF LeaveFields
<1> USE DEF requests, ledger
<1>1. guardian' = [guardian EXCEPT ![j].at = "gone"]
  BY DEF GuardianLeaves
<1>2. /\ \A k \in Jobs : k # j => guardian'[k] = guardian[k]
      /\ guardian'[j].at = "gone" /\ guardian'[j].requests = guardian[j].requests
  BY <1>1 DEF TypeOK, Guardians
<1>3. /\ \A k \in Jobs : k # j => parent'[k] = parent[k]
      /\ parent'[j] \in {parent[j], "exited"}
  BY DEF GuardianLeaves, TypeOK
<1> QED
  BY <1>2, <1>3 DEF GuardianLeaves

LEMMA ConsiderEffect ==
  ASSUME TypeOK, NEW r \in Requests, Consider(r)
  PROVE  ConsiderFields(r)
<1> USE DEF ConsiderFields
<1> USE DEF slot, runner, loans, requests
<1>1. CASE job[r] = "queued" /\ ~drained
  <2>1. /\ service' = [service EXCEPT !.at = "asking", !.request = r, !.lease = proof[r]]
        /\ job' = job /\ service.at = "next" /\ r \in service.records
        /\ UNCHANGED <<marker, holders, parent, orphans, guardian, mail, client, proof, work>>
    BY <1>1 DEF Consider, ledger
  <2>2. /\ service'.at = "asking" /\ service'.request = r /\ service'.lease = proof[r]
        /\ service'.records = service.records
    BY <2>1 DEF TypeOK, Services
  <2> QED
    BY <2>1, <2>2 DEF Running
<1>2. CASE ~(job[r] = "queued" /\ ~drained)
  <2>1. /\ service' = [service EXCEPT !.records = @ \ {r}]
        /\ service.at = "next" /\ r \in service.records
        /\ UNCHANGED <<marker, holders, parent, orphans, guardian, mail, client, proof, work>>
    BY <1>2 DEF Consider, CancelQueued, Ledger, ledger
  <2>2. service'.at = "next" /\ service'.records \subseteq service.records
    BY <2>1 DEF TypeOK, Services
  <2>3. \/ job' = job
        \/ job[r] = "queued" /\ job' = [job EXCEPT ![r] = "ended"]
    BY <1>2 DEF Consider, CancelQueued, Ledger, ledger
  <2>4. Running' = Running
    BY <2>3 DEF Running, TypeOK
  <2> QED
    BY <2>1, <2>2, <2>4
<1> QED
  BY <1>1, <1>2

LEMMA FailureEffect ==
  ASSUME TypeOK, AfterFailure
  PROVE  FailureFields
<1> USE DEF FailureFields
<1> USE DEF slot, runner, loans, requests
<1>1. CASE service.request \in Running
  BY <1>1 DEF AfterFailure, Down, Stopped, Without, Running, ledger
<1>2. CASE service.request \notin Running
  <2>1. /\ service' = [service EXCEPT !.at = "next", !.records = @ \ {service.request},
                                      !.request = None, !.lease = None]
        /\ service.at = "failed"
        /\ UNCHANGED <<marker, holders, parent, orphans, guardian, mail, client, proof, work>>
    BY <1>2 DEF AfterFailure, CancelQueued, Ledger, ledger
  <2>2. service'.at = "next" /\ service'.records \subseteq service.records
    BY <2>1 DEF TypeOK, Services
  <2>3. \/ job' = job
        \/ job[service.request] = "queued" /\ job' = [job EXCEPT ![service.request] = "ended"]
    BY <1>2 DEF AfterFailure, CancelQueued, Ledger, ledger
  <2>4. Running' = Running
    BY <2>3 DEF Running, TypeOK
  <2> QED
    BY <2>1, <2>2, <2>4
<1> QED
  BY <1>1, <1>2

LEMMA LaunchEffect ==
  ASSUME TypeOK, Launch
  PROVE  LaunchFields
BY DEF LaunchFields, Launch, Step, TypeOK, Services, slot, runner, requests

(* Without the marker nothing works under any lease.                         *)
LEMMA Unmarked == TypeOK /\ Marked /\ ~marker => work = {}
<1> SUFFICES ASSUME TypeOK, Marked, ~marker, work # {} PROVE FALSE
  OBVIOUS
<1>1. PICK w \in work : w \in Leases \X Requests
  BY DEF TypeOK, Leases
<1>2. PICK l \in Leases, r \in Requests : w = <<l, r>>
  BY <1>1
<1> QED
  BY <1>1, <1>2 DEF Marked, Works

LEMMA StepRegistered == TypeOK /\ Registered /\ [Next]_vars => Registered'
<1> SUFFICES ASSUME TypeOK, Registered, [Next]_vars PROVE Registered'
  OBVIOUS
<1> USE DEF slot, runner, loans, requests, ledger
<1> USE NestedLeaseAssumption DEF TypeOK, Guardians, Registered, Serving
<1>1. ASSUME NEW j \in Jobs, Assign(j) PROVE Registered'
  BY <1>1 DEF Assign
<1>2. ASSUME NEW j \in Jobs, Acquire(j) PROVE Registered'
  <2>1. AcquireFields(j)
    BY <1>2, AcquireEffect
  <2>2. \A k \in Jobs : guardian'[k].requests = guardian[k].requests
    BY <2>1 DEF AcquireFields
  <2>3. \A k \in Jobs : /\ guardian'[k].at = "none" => guardian[k].at = "none"
                        /\ parent'[k] \in {"none", "waiting"} => /\ parent[k] \in {"none", "waiting"}
                                                                /\ guardian'[k] = guardian[k]
    BY <2>1 DEF AcquireFields
  <2>4. client' = client /\ proof' = proof
    BY <2>1 DEF AcquireFields
  <2> QED
    BY <2>2, <2>3, <2>4
<1>3. ASSUME NEW j \in Jobs, HandoffFails(j) PROVE Registered'
  BY <1>3 DEF HandoffFails
<1>4. ASSUME NEW j \in Jobs, Deny(j) PROVE Registered'
  BY <1>4 DEF Deny
<1>5. ASSUME NEW j \in Jobs, ParentExits(j) PROVE Registered'
  BY <1>5 DEF ParentExits
<1>6. ASSUME NEW j \in Jobs, OrphanEnds(j) PROVE Registered'
  BY <1>6 DEF OrphanEnds
<1>7. ASSUME NEW j \in Jobs, NoticeParent(j) PROVE Registered'
  <2>1. NoticeFields(j)
    BY <1>7, NoticeEffect
  <2> QED
    BY <2>1 DEF NoticeFields
<1>8. ASSUME NEW j \in Jobs, Lend(j) PROVE Registered'
  <2>1. LendFields(j)
    BY <1>8, LendEffect
  <2> QED
    BY <2>1 DEF LendFields
<1>9. ASSUME NEW j \in Jobs, FinishBorrow(j) PROVE Registered'
  <2>1. FinishFields(j)
    BY <1>9, FinishEffect
  <2>2. /\ \A k \in Jobs : guardian'[k].requests = guardian[k].requests /\ guardian'[k].at = guardian[k].at
        /\ parent' = parent /\ client' = client /\ proof' = proof
    BY <2>1 DEF FinishFields
  <2> QED
    BY <2>2
<1>10. ASSUME NEW j \in Jobs, LeaveUncertain(j) PROVE Registered'
  <2>1. guardian[j].at = "serving" /\ UNCHANGED marker
    BY <1>10 DEF LeaveUncertain, Serving
  <2>2. LeaveFields(j)
    BY <1>10, LeaveEffect DEF LeaveUncertain
  <2>3. \A k \in Jobs : /\ guardian'[k].requests = guardian[k].requests
                        /\ guardian'[k].at = "none" => guardian[k].at = "none"
                        /\ k # j => guardian'[k] = guardian[k] /\ parent'[k] = parent[k]
    BY <2>2 DEF LeaveFields
  <2>4. parent'[j] \notin {"none", "waiting"}
    BY <2>1, <2>2 DEF LeaveFields
  <2>5. client' = client /\ proof' = proof
    BY <2>2 DEF LeaveFields
  <2> QED
    BY <2>3, <2>4, <2>5
<1>11. ASSUME NEW j \in Jobs, End(j) PROVE Registered'
  BY <1>11 DEF End, GuardianLeaves, Releasable, CgroupIdle
<1>12. ASSUME NEW j \in Jobs, GuardianDies(j) PROVE Registered'
  <2>1. guardian[j].at = "serving" /\ UNCHANGED marker
    BY <1>12 DEF GuardianDies, Serving
  <2>2. LeaveFields(j)
    BY <1>12, LeaveEffect DEF GuardianDies
  <2>3. \A k \in Jobs : /\ guardian'[k].requests = guardian[k].requests
                        /\ guardian'[k].at = "none" => guardian[k].at = "none"
                        /\ k # j => guardian'[k] = guardian[k] /\ parent'[k] = parent[k]
    BY <2>2 DEF LeaveFields
  <2>4. parent'[j] \notin {"none", "waiting"}
    BY <2>1, <2>2 DEF LeaveFields
  <2>5. client' = client /\ proof' = proof
    BY <2>2 DEF LeaveFields
  <2> QED
    BY <2>3, <2>4, <2>5
<1>13. ASSUME NEW r \in Requests, SubmitPlain(r) PROVE Registered'
  BY <1>13 DEF SubmitPlain
<1>14. ASSUME NEW j \in Jobs, NEW r \in Requests, Prove(j, r) PROVE Registered'
  BY <1>14 DEF Prove
<1>15. ASSUME NEW r \in Requests, Verify(r) PROVE Registered'
  BY <1>15 DEF Verify, Advance
<1>16. ASSUME NEW r \in Requests, Record(r) PROVE Registered'
  BY <1>16 DEF Record, Advance, Guarded
<1>17. ASSUME NEW r \in Requests, Admit(r) PROVE Registered'
  BY <1>17 DEF Admit
<1>18. ASSUME NEW r \in Requests, ClientCancels(r) PROVE Registered'
  BY <1>18 DEF ClientCancels, Ledger
<1>19. CASE Restart
  BY <1>19 DEF Restart, Step
<1>20. CASE Scan
  BY <1>20 DEF Scan, Stopped
<1>21. ASSUME NEW r \in Requests, Consider(r) PROVE Registered'
  <2>1. ConsiderFields(r)
    BY <1>21, ConsiderEffect
  <2> QED
    BY <2>1 DEF ConsiderFields
<1>22. CASE NoneLeft
  BY <1>22 DEF NoneLeft, Step
<1>23. CASE Receive
  BY <1>23 DEF Receive, Step
<1>24. CASE SendStopped
  BY <1>24 DEF SendStopped, Step, Connected
<1>25. CASE SkipCancel
  BY <1>25 DEF SkipCancel, Step, Replies
<1>26. CASE Acknowledged
  BY <1>26 DEF Acknowledged, Stopped, Without, Replies
<1>27. CASE Unacknowledged
  BY <1>27 DEF Unacknowledged, Down, Stopped, Without, Connected, Replies
<1>28. CASE LoanFails
  BY <1>28 DEF LoanFails, Without, Connected
<1>29. CASE AfterFailure
  <2>1. FailureFields
    BY <1>29, FailureEffect
  <2> QED
    BY <2>1 DEF FailureFields
<1>30. CASE Interrupted
  BY <1>30 DEF Interrupted, Down, Stopped, Without
<1>31. CASE Claim
  BY <1>31 DEF Claim, Step, Ledger
<1>32. CASE ClaimNothing
  BY <1>32 DEF ClaimNothing, Step, CancelQueued, Ledger
<1>33. CASE Launch
  <2>1. LaunchFields
    BY <1>33, LaunchEffect
  <2> QED
    BY <2>1 DEF LaunchFields
<1>34. CASE Poll
  BY <1>34 DEF Poll, Step, Ledger, Cancelled, Connected
<1>35. ASSUME NEW l \in Jobs \cup {Fifo}, NEW r \in Requests, BuildEnds(l, r) PROVE Registered'
  BY <1>35 DEF BuildEnds
<1>36. CASE Finish
  BY <1>36 DEF Finish, Ledger
<1>37. CASE Raise
  BY <1>37 DEF Raise, Down, Stopped, Without
<1>38. CASE ServiceDies
  BY <1>38 DEF ServiceDies, Down, Stopped, Without
<1>39. CASE Busy
  BY <1>39 DEF Busy, Step
<1>40. CASE NeedsRecovery
  BY <1>40 DEF NeedsRecovery, Down, Stopped, Without
<1>41. CASE TakeSlot
  BY <1>41 DEF TakeSlot
<1>42. ASSUME NEW r \in Requests, ClaimOrdinary(r) PROVE Registered'
  BY <1>42 DEF ClaimOrdinary, Ordinary, Ledger
<1>43. CASE NoOrdinary
  BY <1>43 DEF NoOrdinary, Step
<1>44. CASE ReleaseSlot
  BY <1>44 DEF ReleaseSlot, Stopped, Without
<1>45. ASSUME NEW b \in BOOLEAN, SetDrain(b) PROVE Registered'
  BY <1>45 DEF SetDrain
<1>46. CASE ClearMarker
  BY <1>46 DEF ClearMarker
<1>47. ASSUME NEW r \in Requests, RecoverClaim(r) PROVE Registered'
  BY <1>47 DEF RecoverClaim, Ledger
<1>48. CASE UNCHANGED vars
  BY <1>48 DEF vars
<1> HIDE DEF TypeOK, Guardians, Registered, Serving
<1> QED
  BY <1>1, <1>2, <1>3, <1>4, <1>5, <1>6, <1>7, <1>8, <1>9, <1>10, <1>11, <1>12, <1>13, <1>14,
     <1>15, <1>16, <1>17, <1>18, <1>19, <1>20, <1>21, <1>22, <1>23, <1>24, <1>25, <1>26, <1>27, <1>28,
     <1>29, <1>30, <1>31, <1>32, <1>33, <1>34, <1>35, <1>36, <1>37, <1>38, <1>39, <1>40, <1>41, <1>42,
     <1>43, <1>44, <1>45, <1>46, <1>47, <1>48
     DEF Next, RunnerNext, GuardianNext, ClientNext, ServiceNext

LEMMA StepEvident == TypeOK /\ Registered /\ Evident /\ Descriptors /\ [Next]_vars => Evident'
<1> SUFFICES ASSUME TypeOK, Registered, Evident, Descriptors, [Next]_vars PROVE Evident'
  OBVIOUS
<1> USE DEF slot, runner, loans, requests, ledger
<1> USE NestedLeaseAssumption DEF TypeOK, Services, Registered, Evident, Records, Away, OnLoan, InRun, InFifo, Stopped
<1>1. ASSUME NEW j \in Jobs, Assign(j) PROVE Evident'
  BY <1>1 DEF Assign
<1>2. ASSUME NEW j \in Jobs, Acquire(j) PROVE Evident'
  <2>1. AcquireFields(j)
    BY <1>2, AcquireEffect
  <2> QED
    BY <2>1 DEF AcquireFields
<1>3. ASSUME NEW j \in Jobs, HandoffFails(j) PROVE Evident'
  BY <1>3 DEF HandoffFails
<1>4. ASSUME NEW j \in Jobs, Deny(j) PROVE Evident'
  BY <1>4 DEF Deny
<1>5. ASSUME NEW j \in Jobs, ParentExits(j) PROVE Evident'
  BY <1>5 DEF ParentExits
<1>6. ASSUME NEW j \in Jobs, OrphanEnds(j) PROVE Evident'
  BY <1>6 DEF OrphanEnds
<1>7. ASSUME NEW j \in Jobs, NoticeParent(j) PROVE Evident'
  <2>1. NoticeFields(j)
    BY <1>7, NoticeEffect
  <2> QED
    BY <2>1 DEF NoticeFields
<1>8. ASSUME NEW j \in Jobs, Lend(j) PROVE Evident'
  <2>1. LendFields(j)
    BY <1>8, LendEffect
  <2> QED
    BY <2>1 DEF LendFields
<1>9. ASSUME NEW j \in Jobs, FinishBorrow(j) PROVE Evident'
  <2>1. FinishFields(j)
    BY <1>9, FinishEffect
  <2> QED
    BY <2>1 DEF FinishFields
<1>10. ASSUME NEW j \in Jobs, LeaveUncertain(j) PROVE Evident'
  <2>1. guardian[j].at = "serving" /\ UNCHANGED marker
    BY <1>10 DEF LeaveUncertain, Serving
  <2>2. LeaveFields(j)
    BY <1>10, LeaveEffect DEF LeaveUncertain
  <2> QED
    BY <2>1, <2>2 DEF LeaveFields
<1>11. ASSUME NEW j \in Jobs, End(j) PROVE Evident'
  BY <1>11 DEF End, GuardianLeaves, Releasable, CgroupIdle
<1>12. ASSUME NEW j \in Jobs, GuardianDies(j) PROVE Evident'
  <2>1. guardian[j].at = "serving" /\ UNCHANGED marker
    BY <1>12 DEF GuardianDies, Serving
  <2>2. LeaveFields(j)
    BY <1>12, LeaveEffect DEF GuardianDies
  <2> QED
    BY <2>1, <2>2 DEF LeaveFields
<1>13. ASSUME NEW r \in Requests, SubmitPlain(r) PROVE Evident'
  BY <1>13 DEF SubmitPlain
<1>14. ASSUME NEW j \in Jobs, NEW r \in Requests, Prove(j, r) PROVE Evident'
  BY <1>14 DEF Prove
<1>15. ASSUME NEW r \in Requests, Verify(r) PROVE Evident'
  BY <1>15 DEF Verify, Advance
<1>16. ASSUME NEW r \in Requests, Record(r) PROVE Evident'
  BY <1>16 DEF Record, Advance, Guarded
<1>17. ASSUME NEW r \in Requests, Admit(r) PROVE Evident'
  BY <1>17 DEF Admit
<1>18. ASSUME NEW r \in Requests, ClientCancels(r) PROVE Evident'
  BY <1>18 DEF ClientCancels, Ledger
<1>19. CASE Restart
  BY <1>19 DEF Restart, Step
<1>20. CASE Scan
  BY <1>20 DEF Scan, Stopped
<1>21. ASSUME NEW r \in Requests, Consider(r) PROVE Evident'
  <2>1. ConsiderFields(r)
    BY <1>21, ConsiderEffect
  <2> QED
    BY <2>1 DEF ConsiderFields
<1>22. CASE NoneLeft
  BY <1>22 DEF NoneLeft, Step
<1>23. CASE Receive
  BY <1>23 DEF Receive, Step
<1>24. CASE SendStopped
  BY <1>24 DEF SendStopped, Step, Connected
<1>25. CASE SkipCancel
  BY <1>25 DEF SkipCancel, Step, Replies
<1>26. CASE Acknowledged
  BY <1>26 DEF Acknowledged, Stopped, Without, Replies
<1>27. CASE Unacknowledged
  BY <1>27 DEF Unacknowledged, Down, Stopped, Without, Connected, Replies
<1>28. CASE LoanFails
  BY <1>28 DEF LoanFails, Without, Connected
<1>29. CASE AfterFailure
  <2>1. FailureFields
    BY <1>29, FailureEffect
  <2> QED
    BY <2>1 DEF FailureFields
<1>30. CASE Interrupted
  BY <1>30 DEF Interrupted, Down, Stopped, Without
<1>31. CASE Claim
  BY <1>31 DEF Claim, Step, Ledger
<1>32. CASE ClaimNothing
  BY <1>32 DEF ClaimNothing, Step, CancelQueued, Ledger
<1>33. CASE Launch
  <2>1. LaunchFields
    BY <1>33, LaunchEffect
  <2> QED
    BY <2>1 DEF LaunchFields
<1>34. CASE Poll
  BY <1>34 DEF Poll, Step, Ledger, Cancelled, Connected
<1>35. ASSUME NEW l \in Jobs \cup {Fifo}, NEW r \in Requests, BuildEnds(l, r) PROVE Evident'
  BY <1>35 DEF BuildEnds
<1>36. CASE Finish
  BY <1>36 DEF Finish, Ledger
<1>37. CASE Raise
  BY <1>37 DEF Raise, Down, Stopped, Without
<1>38. CASE ServiceDies
  BY <1>38 DEF ServiceDies, Down, Stopped, Without
<1>39. CASE Busy
  BY <1>39 DEF Busy, Step
<1>40. CASE NeedsRecovery
  BY <1>40 DEF NeedsRecovery, Down, Stopped, Without
<1>41. CASE TakeSlot
  BY <1>41 DEF TakeSlot
<1>42. ASSUME NEW r \in Requests, ClaimOrdinary(r) PROVE Evident'
  BY <1>42 DEF ClaimOrdinary, Ordinary, Ledger
<1>43. CASE NoOrdinary
  BY <1>43 DEF NoOrdinary, Step
<1>44. CASE ReleaseSlot
  BY <1>44 DEF ReleaseSlot, Stopped, Without
<1>45. ASSUME NEW b \in BOOLEAN, SetDrain(b) PROVE Evident'
  BY <1>45 DEF SetDrain
<1>46. CASE ClearMarker
  BY <1>46 DEF ClearMarker
<1>47. ASSUME NEW r \in Requests, RecoverClaim(r) PROVE Evident'
  BY <1>47 DEF RecoverClaim, Ledger
<1>48. CASE UNCHANGED vars
  BY <1>48 DEF vars
<1> HIDE DEF TypeOK, Services, Registered, Evident, Records, Away, OnLoan, InRun, InFifo, Stopped
<1> QED
  BY <1>1, <1>2, <1>3, <1>4, <1>5, <1>6, <1>7, <1>8, <1>9, <1>10, <1>11, <1>12, <1>13, <1>14,
     <1>15, <1>16, <1>17, <1>18, <1>19, <1>20, <1>21, <1>22, <1>23, <1>24, <1>25, <1>26, <1>27, <1>28,
     <1>29, <1>30, <1>31, <1>32, <1>33, <1>34, <1>35, <1>36, <1>37, <1>38, <1>39, <1>40, <1>41, <1>42,
     <1>43, <1>44, <1>45, <1>46, <1>47, <1>48
     DEF Next, RunnerNext, GuardianNext, ClientNext, ServiceNext

LEMMA StepDescriptors == TypeOK /\ Registered /\ Evident /\ Descriptors /\ [Next]_vars => Descriptors'
<1> SUFFICES ASSUME TypeOK, Registered, Evident, Descriptors, [Next]_vars PROVE Descriptors'
  OBVIOUS
<1> USE DEF slot, runner, loans, requests, ledger
<1> USE NestedLeaseAssumption DEF TypeOK, Guardians, Services, Registered, Evident, Records, Serving, Descriptors, Leases, Away, OnLoan, InRun, InFifo
<1>1. ASSUME NEW j \in Jobs, Assign(j) PROVE Descriptors'
  BY <1>1 DEF Assign
<1>2. ASSUME NEW j \in Jobs, Acquire(j) PROVE Descriptors'
  <2>1. AcquireFields(j)
    BY <1>2, AcquireEffect
  <2> QED
    BY <2>1 DEF AcquireFields
<1>3. ASSUME NEW j \in Jobs, HandoffFails(j) PROVE Descriptors'
  BY <1>3 DEF HandoffFails
<1>4. ASSUME NEW j \in Jobs, Deny(j) PROVE Descriptors'
  BY <1>4 DEF Deny
<1>5. ASSUME NEW j \in Jobs, ParentExits(j) PROVE Descriptors'
  BY <1>5 DEF ParentExits
<1>6. ASSUME NEW j \in Jobs, OrphanEnds(j) PROVE Descriptors'
  BY <1>6 DEF OrphanEnds
<1>7. ASSUME NEW j \in Jobs, NoticeParent(j) PROVE Descriptors'
  <2>1. NoticeFields(j)
    BY <1>7, NoticeEffect
  <2>2. service' = service
    BY <2>1 DEF NoticeFields
  <2>3. \A k \in Jobs : guardian'[k].at = "serving" =>
                        guardian[k].at = "serving" /\ (k = j => holders' = holders)
    BY <2>1 DEF NoticeFields
  <2>4. \A k \in Jobs : k # j => <<k, "guardian">> # <<j, "guardian">>
    OBVIOUS
  <2>5. \A l \in Leases : <<l, "service">> # <<j, "guardian">>
    OBVIOUS
  <2>6. holders \ {<<j, "guardian">>} \subseteq holders' /\ holders' \subseteq holders
    BY <2>1 DEF NoticeFields
  <2>7. ASSUME NEW k \in Jobs, Serving(k)' PROVE <<k, "guardian">> \in holders'
    <3>1. Serving(k) /\ (k = j => holders' = holders)
      BY <2>3, <2>7
    <3>2. <<k, "guardian">> \in holders
      BY <3>1
    <3> QED
      BY <3>1, <3>2, <2>4, <2>6
  <2>8. service.at \in OnLoan \cup InRun \cup InFifo => <<service.lease, "service">> \in holders'
    BY <2>5, <2>6
  <2> HIDE DEF TypeOK, Services, Registered, Evident, Records, Serving, Away, OnLoan, InRun, InFifo
  <2> QED
    BY <2>2, <2>6, <2>7, <2>8
<1>8. ASSUME NEW j \in Jobs, Lend(j) PROVE Descriptors'
  <2>1. LendFields(j)
    BY <1>8, LendEffect
  <2> QED
    BY <2>1 DEF LendFields
<1>9. ASSUME NEW j \in Jobs, FinishBorrow(j) PROVE Descriptors'
  <2>1. FinishFields(j)
    BY <1>9, FinishEffect
  <2> QED
    BY <2>1 DEF FinishFields
<1>10. ASSUME NEW j \in Jobs, LeaveUncertain(j) PROVE Descriptors'
  <2>1. guardian[j].at = "serving" /\ UNCHANGED marker
    BY <1>10 DEF LeaveUncertain, Serving
  <2>2. LeaveFields(j)
    BY <1>10, LeaveEffect DEF LeaveUncertain
  <2> QED
    BY <2>1, <2>2 DEF LeaveFields
<1>11. ASSUME NEW j \in Jobs, End(j) PROVE Descriptors'
  BY <1>11 DEF End, GuardianLeaves, Releasable, CgroupIdle
<1>12. ASSUME NEW j \in Jobs, GuardianDies(j) PROVE Descriptors'
  <2>1. guardian[j].at = "serving" /\ UNCHANGED marker
    BY <1>12 DEF GuardianDies, Serving
  <2>2. LeaveFields(j)
    BY <1>12, LeaveEffect DEF GuardianDies
  <2> QED
    BY <2>1, <2>2 DEF LeaveFields
<1>13. ASSUME NEW r \in Requests, SubmitPlain(r) PROVE Descriptors'
  BY <1>13 DEF SubmitPlain
<1>14. ASSUME NEW j \in Jobs, NEW r \in Requests, Prove(j, r) PROVE Descriptors'
  BY <1>14 DEF Prove
<1>15. ASSUME NEW r \in Requests, Verify(r) PROVE Descriptors'
  BY <1>15 DEF Verify, Advance
<1>16. ASSUME NEW r \in Requests, Record(r) PROVE Descriptors'
  BY <1>16 DEF Record, Advance, Guarded
<1>17. ASSUME NEW r \in Requests, Admit(r) PROVE Descriptors'
  BY <1>17 DEF Admit
<1>18. ASSUME NEW r \in Requests, ClientCancels(r) PROVE Descriptors'
  BY <1>18 DEF ClientCancels, Ledger
<1>19. CASE Restart
  BY <1>19 DEF Restart, Step
<1>20. CASE Scan
  BY <1>20 DEF Scan, Stopped
<1>21. ASSUME NEW r \in Requests, Consider(r) PROVE Descriptors'
  <2>1. ConsiderFields(r)
    BY <1>21, ConsiderEffect
  <2> QED
    BY <2>1 DEF ConsiderFields
<1>22. CASE NoneLeft
  BY <1>22 DEF NoneLeft, Step
<1>23. CASE Receive
  BY <1>23 DEF Receive, Step
<1>24. CASE SendStopped
  BY <1>24 DEF SendStopped, Step, Connected
<1>25. CASE SkipCancel
  BY <1>25 DEF SkipCancel, Step, Replies
<1>26. CASE Acknowledged
  BY <1>26 DEF Acknowledged, Stopped, Without, Replies
<1>27. CASE Unacknowledged
  BY <1>27 DEF Unacknowledged, Down, Stopped, Without, Connected, Replies
<1>28. CASE LoanFails
  BY <1>28 DEF LoanFails, Without, Connected
<1>29. CASE AfterFailure
  <2>1. FailureFields
    BY <1>29, FailureEffect
  <2> QED
    BY <2>1 DEF FailureFields
<1>30. CASE Interrupted
  BY <1>30 DEF Interrupted, Down, Stopped, Without
<1>31. CASE Claim
  BY <1>31 DEF Claim, Step, Ledger
<1>32. CASE ClaimNothing
  BY <1>32 DEF ClaimNothing, Step, CancelQueued, Ledger
<1>33. CASE Launch
  <2>1. LaunchFields
    BY <1>33, LaunchEffect
  <2> QED
    BY <2>1 DEF LaunchFields
<1>34. CASE Poll
  BY <1>34 DEF Poll, Step, Ledger, Cancelled, Connected
<1>35. ASSUME NEW l \in Jobs \cup {Fifo}, NEW r \in Requests, BuildEnds(l, r) PROVE Descriptors'
  BY <1>35 DEF BuildEnds
<1>36. CASE Finish
  BY <1>36 DEF Finish, Ledger
<1>37. CASE Raise
  BY <1>37 DEF Raise, Down, Stopped, Without
<1>38. CASE ServiceDies
  BY <1>38 DEF ServiceDies, Down, Stopped, Without
<1>39. CASE Busy
  BY <1>39 DEF Busy, Step
<1>40. CASE NeedsRecovery
  BY <1>40 DEF NeedsRecovery, Down, Stopped, Without
<1>41. CASE TakeSlot
  BY <1>41 DEF TakeSlot
<1>42. ASSUME NEW r \in Requests, ClaimOrdinary(r) PROVE Descriptors'
  BY <1>42 DEF ClaimOrdinary, Ordinary, Ledger
<1>43. CASE NoOrdinary
  BY <1>43 DEF NoOrdinary, Step
<1>44. CASE ReleaseSlot
  BY <1>44 DEF ReleaseSlot, Stopped, Without
<1>45. ASSUME NEW b \in BOOLEAN, SetDrain(b) PROVE Descriptors'
  BY <1>45 DEF SetDrain
<1>46. CASE ClearMarker
  BY <1>46 DEF ClearMarker
<1>47. ASSUME NEW r \in Requests, RecoverClaim(r) PROVE Descriptors'
  BY <1>47 DEF RecoverClaim, Ledger
<1>48. CASE UNCHANGED vars
  BY <1>48 DEF vars
<1> HIDE DEF TypeOK, Guardians, Services, Registered, Evident, Records, Serving, Descriptors, Leases, Away, OnLoan, InRun, InFifo
<1>49. ASSUME NEW j \in Jobs, RunnerNext(j) \/ GuardianNext(j) PROVE Descriptors'
  BY <1>49, <1>1, <1>2, <1>3, <1>4, <1>5, <1>6, <1>7, <1>8, <1>9, <1>10, <1>11
     DEF RunnerNext, GuardianNext
<1>50. ASSUME NEW r \in Requests, ClientNext(r) PROVE Descriptors'
  BY <1>50, <1>13, <1>14, <1>15, <1>16, <1>17, <1>18 DEF ClientNext
<1>51. CASE ServiceNext
  BY <1>51, <1>19, <1>20, <1>21, <1>22, <1>23, <1>24, <1>25, <1>26, <1>27, <1>29, <1>30, <1>31, <1>32,
     <1>33, <1>34, <1>36, <1>39, <1>40, <1>41, <1>42, <1>43, <1>44 DEF ServiceNext
<1> QED
  BY <1>12, <1>28, <1>35, <1>37, <1>38, <1>45, <1>46, <1>47, <1>48, <1>49, <1>50, <1>51 DEF Next

(* Nothing comes into use, so all that is in use is still of one lease.      *)
LEMMA Narrowed ==
  ASSUME OneLease, \A l \in Leases : InUse(l)' => InUse(l)
  PROVE  OneLease'
BY DEF OneLease

LEMMA StepOneLease == TypeOK /\ Registered /\ Evident /\ Descriptors /\ OneLease /\ Marked /\ [Next]_vars => OneLease'
<1> SUFFICES ASSUME TypeOK, Registered, Evident, Descriptors, OneLease, Marked, [Next]_vars PROVE OneLease'
  OBVIOUS
<1> USE DEF slot, runner, loans, requests, ledger
<1> USE NestedLeaseAssumption DEF TypeOK, OneLease, Marked, Leases, InUse, Holds, Works
<1>1. ASSUME NEW j \in Jobs, Assign(j) PROVE OneLease'
  <2>1. \A k \in Jobs : parent'[k] = "running" => parent[k] = "running"
    BY <1>1 DEF Assign
  <2>2. UNCHANGED <<holders, orphans, work>>
    BY <1>1 DEF Assign
  <2>3. \A l \in Leases : InUse(l)' => InUse(l)
    BY <2>1, <2>2
  <2> QED
    BY <2>3, Narrowed
<1>2. ASSUME NEW j \in Jobs, Acquire(j) PROVE OneLease'
  <2>1. AcquireFields(j)
    BY <1>2, AcquireEffect
  <2>2. \A l \in Leases : Works(l)' => l = j
    <3>1. \A l \in Leases : ~Works(l)
      BY <2>1 DEF AcquireFields
    <3>2. orphans' = orphans /\ work' = work /\ \A k \in Jobs : k # j => parent'[k] = parent[k]
      BY <2>1 DEF AcquireFields
    <3> QED
      BY <3>1, <3>2
  <2>3. \A l \in Leases : Holds(l)' => l = j
    BY <2>1 DEF AcquireFields
  <2> HIDE DEF TypeOK, Marked, Leases, Holds, Works
  <2> QED
    BY <2>2, <2>3
<1>3. ASSUME NEW j \in Jobs, HandoffFails(j) PROVE OneLease'
  BY <1>3 DEF HandoffFails
<1>4. ASSUME NEW j \in Jobs, Deny(j) PROVE OneLease'
  BY <1>4 DEF Deny
<1>5. ASSUME NEW j \in Jobs, ParentExits(j) PROVE OneLease'
  <2>1. /\ \A k \in Jobs : parent'[k] = "running" => parent[k] = "running"
        /\ orphans' \subseteq orphans \cup {j} /\ parent[j] = "running"
        /\ UNCHANGED <<holders, work>>
    BY <1>5 DEF ParentExits
  <2>2. \A l \in Leases : Works(l)' => Works(l)
    <3> HIDE DEF TypeOK, OneLease, Marked, Leases
    <3> QED
      BY <2>1
  <2>3. \A l \in Leases : InUse(l)' => InUse(l)
    BY <2>1, <2>2
  <2> QED
    BY <2>3, Narrowed
<1>6. ASSUME NEW j \in Jobs, OrphanEnds(j) PROVE OneLease'
  BY <1>6 DEF OrphanEnds
<1>7. ASSUME NEW j \in Jobs, NoticeParent(j) PROVE OneLease'
  <2>1. NoticeFields(j)
    BY <1>7, NoticeEffect
  <2>2. parent' = parent /\ orphans' = orphans /\ work' = work /\ holders' \subseteq holders
    BY <2>1 DEF NoticeFields
  <2>3. \A l \in Leases : InUse(l)' => InUse(l)
    BY <2>2
  <2> QED
    BY <2>3, Narrowed
<1>8. ASSUME NEW j \in Jobs, Lend(j) PROVE OneLease'
  <2>1. LendFields(j)
    BY <1>8, LendEffect
  <2>2. <<j, "guardian">> \in holders
    BY <2>1 DEF LendFields, Descriptors, Serving
  <2>3. \A l \in Leases : InUse(l)' => InUse(l)
    BY <2>1, <2>2 DEF LendFields
  <2> QED
    BY <2>3, Narrowed
<1>9. ASSUME NEW j \in Jobs, FinishBorrow(j) PROVE OneLease'
  <2>1. FinishFields(j)
    BY <1>9, FinishEffect
  <2> QED
    BY <2>1 DEF FinishFields
<1>10. ASSUME NEW j \in Jobs, LeaveUncertain(j) PROVE OneLease'
  <2>1. guardian[j].at = "serving" /\ UNCHANGED marker
    BY <1>10 DEF LeaveUncertain, Serving
  <2>2. LeaveFields(j)
    BY <1>10, LeaveEffect DEF LeaveUncertain
  <2>3. \A l \in Leases : InUse(l)' => InUse(l)
    BY <2>2 DEF LeaveFields
  <2> QED
    BY <2>3, Narrowed
<1>11. ASSUME NEW j \in Jobs, End(j) PROVE OneLease'
  <2>1. LeaveFields(j)
    BY <1>11, LeaveEffect DEF End
  <2>2. \A l \in Leases : InUse(l)' => InUse(l)
    BY <2>1 DEF LeaveFields
  <2> QED
    BY <2>2
<1>12. ASSUME NEW j \in Jobs, GuardianDies(j) PROVE OneLease'
  <2>1. guardian[j].at = "serving" /\ UNCHANGED marker
    BY <1>12 DEF GuardianDies, Serving
  <2>2. LeaveFields(j)
    BY <1>12, LeaveEffect DEF GuardianDies
  <2>3. \A l \in Leases : InUse(l)' => InUse(l)
    BY <2>2 DEF LeaveFields
  <2> QED
    BY <2>3, Narrowed
<1>13. ASSUME NEW r \in Requests, SubmitPlain(r) PROVE OneLease'
  BY <1>13 DEF SubmitPlain
<1>14. ASSUME NEW j \in Jobs, NEW r \in Requests, Prove(j, r) PROVE OneLease'
  BY <1>14 DEF Prove
<1>15. ASSUME NEW r \in Requests, Verify(r) PROVE OneLease'
  BY <1>15 DEF Verify, Advance
<1>16. ASSUME NEW r \in Requests, Record(r) PROVE OneLease'
  BY <1>16 DEF Record, Advance, Guarded
<1>17. ASSUME NEW r \in Requests, Admit(r) PROVE OneLease'
  BY <1>17 DEF Admit
<1>18. ASSUME NEW r \in Requests, ClientCancels(r) PROVE OneLease'
  BY <1>18 DEF ClientCancels, Ledger
<1>19. CASE Restart
  BY <1>19 DEF Restart, Step
<1>20. CASE Scan
  BY <1>20 DEF Scan, Stopped
<1>21. ASSUME NEW r \in Requests, Consider(r) PROVE OneLease'
  <2>1. ConsiderFields(r)
    BY <1>21, ConsiderEffect
  <2> QED
    BY <2>1 DEF ConsiderFields
<1>22. CASE NoneLeft
  BY <1>22 DEF NoneLeft, Step
<1>23. CASE Receive
  BY <1>23 DEF Receive, Step
<1>24. CASE SendStopped
  BY <1>24 DEF SendStopped, Step, Connected
<1>25. CASE SkipCancel
  BY <1>25 DEF SkipCancel, Step, Replies
<1>26. CASE Acknowledged
  BY <1>26 DEF Acknowledged, Stopped, Without, Replies
<1>27. CASE Unacknowledged
  BY <1>27 DEF Unacknowledged, Down, Stopped, Without, Connected, Replies
<1>28. CASE LoanFails
  BY <1>28 DEF LoanFails, Without, Connected
<1>29. CASE AfterFailure
  <2>1. FailureFields
    BY <1>29, FailureEffect
  <2> QED
    BY <2>1 DEF FailureFields
<1>30. CASE Interrupted
  BY <1>30 DEF Interrupted, Down, Stopped, Without
<1>31. CASE Claim
  BY <1>31 DEF Claim, Step, Ledger
<1>32. CASE ClaimNothing
  BY <1>32 DEF ClaimNothing, Step, CancelQueued, Ledger
<1>33. CASE Launch
  <2>1. LaunchFields
    BY <1>33, LaunchEffect
  <2>2. <<service.lease, "service">> \in holders
    BY <2>1 DEF LaunchFields, Descriptors, InRun
  <2>3. \A l \in Leases : InUse(l)' => InUse(l)
    BY <2>1, <2>2 DEF LaunchFields
  <2> QED
    BY <2>3, Narrowed
<1>34. CASE Poll
  BY <1>34 DEF Poll, Step, Ledger, Cancelled, Connected
<1>35. ASSUME NEW l \in Jobs \cup {Fifo}, NEW r \in Requests, BuildEnds(l, r) PROVE OneLease'
  BY <1>35 DEF BuildEnds
<1>36. CASE Finish
  BY <1>36 DEF Finish, Ledger
<1>37. CASE Raise
  BY <1>37 DEF Raise, Down, Stopped, Without
<1>38. CASE ServiceDies
  BY <1>38 DEF ServiceDies, Down, Stopped, Without
<1>39. CASE Busy
  BY <1>39 DEF Busy, Step
<1>40. CASE NeedsRecovery
  BY <1>40 DEF NeedsRecovery, Down, Stopped, Without
<1>41. CASE TakeSlot
  BY <1>41 DEF TakeSlot
<1>42. ASSUME NEW r \in Requests, ClaimOrdinary(r) PROVE OneLease'
  BY <1>42 DEF ClaimOrdinary, Ordinary, Ledger
<1>43. CASE NoOrdinary
  BY <1>43 DEF NoOrdinary, Step
<1>44. CASE ReleaseSlot
  BY <1>44 DEF ReleaseSlot, Stopped, Without
<1>45. ASSUME NEW b \in BOOLEAN, SetDrain(b) PROVE OneLease'
  BY <1>45 DEF SetDrain
<1>46. CASE ClearMarker
  BY <1>46 DEF ClearMarker
<1>47. ASSUME NEW r \in Requests, RecoverClaim(r) PROVE OneLease'
  BY <1>47 DEF RecoverClaim, Ledger
<1>48. CASE UNCHANGED vars
  BY <1>48 DEF vars
<1> HIDE DEF TypeOK, OneLease, Marked, Leases, InUse, Holds, Works
<1> QED
  BY <1>1, <1>2, <1>3, <1>4, <1>5, <1>6, <1>7, <1>8, <1>9, <1>10, <1>11, <1>12, <1>13, <1>14,
     <1>15, <1>16, <1>17, <1>18, <1>19, <1>20, <1>21, <1>22, <1>23, <1>24, <1>25, <1>26, <1>27, <1>28,
     <1>29, <1>30, <1>31, <1>32, <1>33, <1>34, <1>35, <1>36, <1>37, <1>38, <1>39, <1>40, <1>41, <1>42,
     <1>43, <1>44, <1>45, <1>46, <1>47, <1>48
     DEF Next, RunnerNext, GuardianNext, ClientNext, ServiceNext

LEMMA StepMarked == TypeOK /\ Registered /\ Evident /\ Descriptors /\ OneLease /\ Marked /\ Clear /\ Lent /\ [Next]_vars => Marked'
<1> SUFFICES ASSUME TypeOK, Registered, Evident, Descriptors, OneLease, Marked, Clear, Lent, [Next]_vars PROVE Marked'
  OBVIOUS
<1> USE DEF slot, runner, loans, requests, ledger
<1> USE NestedLeaseAssumption DEF TypeOK, Guardians, Serving, OneLease, Marked, Leases, InUse, Holds, Works
<1>1. ASSUME NEW j \in Jobs, Assign(j) PROVE Marked'
  BY <1>1 DEF Assign
<1>2. ASSUME NEW j \in Jobs, Acquire(j) PROVE Marked'
  <2>1. AcquireFields(j)
    BY <1>2, AcquireEffect
  <2> QED
    BY <2>1 DEF AcquireFields
<1>3. ASSUME NEW j \in Jobs, HandoffFails(j) PROVE Marked'
  BY <1>3 DEF HandoffFails
<1>4. ASSUME NEW j \in Jobs, Deny(j) PROVE Marked'
  BY <1>4 DEF Deny
<1>5. ASSUME NEW j \in Jobs, ParentExits(j) PROVE Marked'
  BY <1>5 DEF ParentExits
<1>6. ASSUME NEW j \in Jobs, OrphanEnds(j) PROVE Marked'
  BY <1>6 DEF OrphanEnds
<1>7. ASSUME NEW j \in Jobs, NoticeParent(j) PROVE Marked'
  <2>1. NoticeFields(j)
    BY <1>7, NoticeEffect
  <2> QED
    BY <2>1 DEF NoticeFields
<1>8. ASSUME NEW j \in Jobs, Lend(j) PROVE Marked'
  <2>1. LendFields(j)
    BY <1>8, LendEffect
  <2> QED
    BY <2>1 DEF LendFields
<1>9. ASSUME NEW j \in Jobs, FinishBorrow(j) PROVE Marked'
  <2>1. FinishFields(j)
    BY <1>9, FinishEffect
  <2> QED
    BY <2>1 DEF FinishFields
<1>10. ASSUME NEW j \in Jobs, LeaveUncertain(j) PROVE Marked'
  <2>1. guardian[j].at = "serving" /\ UNCHANGED marker
    BY <1>10 DEF LeaveUncertain, Serving
  <2>2. LeaveFields(j)
    BY <1>10, LeaveEffect DEF LeaveUncertain
  <2> QED
    BY <2>1, <2>2 DEF LeaveFields
<1>11. ASSUME NEW j \in Jobs, End(j) PROVE Marked'
  <2>1. LeaveFields(j)
    BY <1>11, LeaveEffect DEF End
  <2>2. /\ guardian[j].at = "serving" /\ ~guardian[j].uncertain /\ guardian[j].borrower = None
        /\ marker' = ~Releasable(j)
    BY <1>11 DEF End
  <2>3. CASE Releasable(j)
    <3>1. work = {} /\ orphans = {} /\ \A k \in Jobs : parent[k] # "running"
      BY <2>2, <2>3 DEF Lent, Releasable, CgroupIdle
    <3>2. \A k \in Jobs : k # j => guardian[k].at # "serving"
      BY <2>2 DEF Descriptors
    <3> QED
      BY <2>1, <3>1, <3>2 DEF LeaveFields
  <2>4. CASE ~Releasable(j)
    BY <2>2, <2>4
  <2> QED
    BY <2>3, <2>4
<1>12. ASSUME NEW j \in Jobs, GuardianDies(j) PROVE Marked'
  <2>1. guardian[j].at = "serving" /\ UNCHANGED marker
    BY <1>12 DEF GuardianDies, Serving
  <2>2. LeaveFields(j)
    BY <1>12, LeaveEffect DEF GuardianDies
  <2> QED
    BY <2>1, <2>2 DEF LeaveFields
<1>13. ASSUME NEW r \in Requests, SubmitPlain(r) PROVE Marked'
  BY <1>13 DEF SubmitPlain
<1>14. ASSUME NEW j \in Jobs, NEW r \in Requests, Prove(j, r) PROVE Marked'
  BY <1>14 DEF Prove
<1>15. ASSUME NEW r \in Requests, Verify(r) PROVE Marked'
  BY <1>15 DEF Verify, Advance
<1>16. ASSUME NEW r \in Requests, Record(r) PROVE Marked'
  BY <1>16 DEF Record, Advance, Guarded
<1>17. ASSUME NEW r \in Requests, Admit(r) PROVE Marked'
  BY <1>17 DEF Admit
<1>18. ASSUME NEW r \in Requests, ClientCancels(r) PROVE Marked'
  BY <1>18 DEF ClientCancels, Ledger
<1>19. CASE Restart
  BY <1>19 DEF Restart, Step
<1>20. CASE Scan
  BY <1>20 DEF Scan, Stopped
<1>21. ASSUME NEW r \in Requests, Consider(r) PROVE Marked'
  <2>1. ConsiderFields(r)
    BY <1>21, ConsiderEffect
  <2> QED
    BY <2>1 DEF ConsiderFields
<1>22. CASE NoneLeft
  BY <1>22 DEF NoneLeft, Step
<1>23. CASE Receive
  BY <1>23 DEF Receive, Step
<1>24. CASE SendStopped
  BY <1>24 DEF SendStopped, Step, Connected
<1>25. CASE SkipCancel
  BY <1>25 DEF SkipCancel, Step, Replies
<1>26. CASE Acknowledged
  BY <1>26 DEF Acknowledged, Stopped, Without, Replies
<1>27. CASE Unacknowledged
  BY <1>27 DEF Unacknowledged, Down, Stopped, Without, Connected, Replies
<1>28. CASE LoanFails
  BY <1>28 DEF LoanFails, Without, Connected
<1>29. CASE AfterFailure
  <2>1. FailureFields
    BY <1>29, FailureEffect
  <2> QED
    BY <2>1 DEF FailureFields
<1>30. CASE Interrupted
  BY <1>30 DEF Interrupted, Down, Stopped, Without
<1>31. CASE Claim
  BY <1>31 DEF Claim, Step, Ledger
<1>32. CASE ClaimNothing
  BY <1>32 DEF ClaimNothing, Step, CancelQueued, Ledger
<1>33. CASE Launch
  <2>1. LaunchFields
    BY <1>33, LaunchEffect
  <2>2. marker
    BY <2>1 DEF LaunchFields, Descriptors, InRun, Lent
  <2> QED
    BY <2>1, <2>2 DEF LaunchFields
<1>34. CASE Poll
  BY <1>34 DEF Poll, Step, Ledger, Cancelled, Connected
<1>35. ASSUME NEW l \in Jobs \cup {Fifo}, NEW r \in Requests, BuildEnds(l, r) PROVE Marked'
  BY <1>35 DEF BuildEnds
<1>36. CASE Finish
  BY <1>36 DEF Finish, Ledger
<1>37. CASE Raise
  BY <1>37 DEF Raise, Down, Stopped, Without
<1>38. CASE ServiceDies
  BY <1>38 DEF ServiceDies, Down, Stopped, Without
<1>39. CASE Busy
  BY <1>39 DEF Busy, Step
<1>40. CASE NeedsRecovery
  BY <1>40 DEF NeedsRecovery, Down, Stopped, Without
<1>41. CASE TakeSlot
  BY <1>41 DEF TakeSlot
<1>42. ASSUME NEW r \in Requests, ClaimOrdinary(r) PROVE Marked'
  BY <1>42 DEF ClaimOrdinary, Ordinary, Ledger
<1>43. CASE NoOrdinary
  BY <1>43 DEF NoOrdinary, Step
<1>44. CASE ReleaseSlot
  <2>1. service.at = "done" /\ UNCHANGED <<parent, orphans, guardian, work>>
    BY <1>44 DEF ReleaseSlot
  <2>2. <<Fifo, "service">> \in holders
    BY <2>1 DEF Evident, Descriptors, InFifo
  <2>3. work = {}
    BY <2>1, <2>2 DEF Clear, Evident, InFifo
  <2>4. \A k \in Jobs : ~InUse(k)
    BY <2>2
  <2>5. Fifo \notin orphans
    OBVIOUS
  <2>6. \A k \in Jobs : guardian[k].at # "serving"
    BY <2>4 DEF Descriptors
  <2> QED
    BY <2>1, <2>3, <2>4, <2>5, <2>6
<1>45. ASSUME NEW b \in BOOLEAN, SetDrain(b) PROVE Marked'
  BY <1>45 DEF SetDrain
<1>46. CASE ClearMarker
  <2>1. \A k \in Jobs : guardian[k].at # "serving"
    BY <1>46 DEF ClearMarker, Descriptors
  <2>2. \A l \in Leases : ~Works(l)'
    BY <1>46 DEF ClearMarker
  <2> QED
    BY <1>46, <2>1, <2>2 DEF ClearMarker
<1>47. ASSUME NEW r \in Requests, RecoverClaim(r) PROVE Marked'
  BY <1>47 DEF RecoverClaim, Ledger
<1>48. CASE UNCHANGED vars
  BY <1>48 DEF vars
<1> HIDE DEF TypeOK, Guardians, Serving, OneLease, Marked, Leases, InUse, Holds, Works
<1> QED
  BY <1>1, <1>2, <1>3, <1>4, <1>5, <1>6, <1>7, <1>8, <1>9, <1>10, <1>11, <1>12, <1>13, <1>14,
     <1>15, <1>16, <1>17, <1>18, <1>19, <1>20, <1>21, <1>22, <1>23, <1>24, <1>25, <1>26, <1>27, <1>28,
     <1>29, <1>30, <1>31, <1>32, <1>33, <1>34, <1>35, <1>36, <1>37, <1>38, <1>39, <1>40, <1>41, <1>42,
     <1>43, <1>44, <1>45, <1>46, <1>47, <1>48
     DEF Next, RunnerNext, GuardianNext, ClientNext, ServiceNext

LEMMA StepClear == TypeOK /\ Registered /\ Evident /\ Descriptors /\ OneLease /\ Marked /\ Clear /\ Lent /\ [Next]_vars => Clear'
<1> SUFFICES ASSUME TypeOK, Registered, Evident, Descriptors, OneLease, Marked, Clear, Lent, [Next]_vars PROVE Clear'
  OBVIOUS
<1> USE DEF slot, runner, loans, requests, ledger
<1> USE NestedLeaseAssumption DEF TypeOK, Guardians, Services, Clear
<1>1. ASSUME NEW j \in Jobs, Assign(j) PROVE Clear'
  BY <1>1 DEF Assign
<1>2. ASSUME NEW j \in Jobs, Acquire(j) PROVE Clear'
  <2>1. AcquireFields(j)
    BY <1>2, AcquireEffect
  <2> QED
    BY <2>1 DEF AcquireFields
<1>3. ASSUME NEW j \in Jobs, HandoffFails(j) PROVE Clear'
  BY <1>3 DEF HandoffFails
<1>4. ASSUME NEW j \in Jobs, Deny(j) PROVE Clear'
  BY <1>4 DEF Deny
<1>5. ASSUME NEW j \in Jobs, ParentExits(j) PROVE Clear'
  BY <1>5 DEF ParentExits
<1>6. ASSUME NEW j \in Jobs, OrphanEnds(j) PROVE Clear'
  BY <1>6 DEF OrphanEnds
<1>7. ASSUME NEW j \in Jobs, NoticeParent(j) PROVE Clear'
  <2>1. NoticeFields(j)
    BY <1>7, NoticeEffect
  <2> QED
    BY <2>1 DEF NoticeFields
<1>8. ASSUME NEW j \in Jobs, Lend(j) PROVE Clear'
  <2>1. LendFields(j)
    BY <1>8, LendEffect
  <2>2. work = {}
    BY <2>1 DEF LendFields, Lent, Serving
  <2> QED
    BY <2>1, <2>2 DEF LendFields
<1>9. ASSUME NEW j \in Jobs, FinishBorrow(j) PROVE Clear'
  <2>1. FinishFields(j)
    BY <1>9, FinishEffect
  <2> QED
    BY <2>1 DEF FinishFields
<1>10. ASSUME NEW j \in Jobs, LeaveUncertain(j) PROVE Clear'
  <2>1. guardian[j].at = "serving" /\ UNCHANGED marker
    BY <1>10 DEF LeaveUncertain, Serving
  <2>2. LeaveFields(j)
    BY <1>10, LeaveEffect DEF LeaveUncertain
  <2> QED
    BY <2>1, <2>2 DEF LeaveFields
<1>11. ASSUME NEW j \in Jobs, End(j) PROVE Clear'
  BY <1>11 DEF End, GuardianLeaves, Releasable, CgroupIdle
<1>12. ASSUME NEW j \in Jobs, GuardianDies(j) PROVE Clear'
  <2>1. guardian[j].at = "serving" /\ UNCHANGED marker
    BY <1>12 DEF GuardianDies, Serving
  <2>2. LeaveFields(j)
    BY <1>12, LeaveEffect DEF GuardianDies
  <2> QED
    BY <2>1, <2>2 DEF LeaveFields
<1>13. ASSUME NEW r \in Requests, SubmitPlain(r) PROVE Clear'
  BY <1>13 DEF SubmitPlain
<1>14. ASSUME NEW j \in Jobs, NEW r \in Requests, Prove(j, r) PROVE Clear'
  BY <1>14 DEF Prove
<1>15. ASSUME NEW r \in Requests, Verify(r) PROVE Clear'
  BY <1>15 DEF Verify, Advance
<1>16. ASSUME NEW r \in Requests, Record(r) PROVE Clear'
  BY <1>16 DEF Record, Advance, Guarded
<1>17. ASSUME NEW r \in Requests, Admit(r) PROVE Clear'
  BY <1>17 DEF Admit
<1>18. ASSUME NEW r \in Requests, ClientCancels(r) PROVE Clear'
  BY <1>18 DEF ClientCancels, Ledger
<1>19. CASE Restart
  BY <1>19 DEF Restart, Step
<1>20. CASE Scan
  BY <1>20 DEF Scan, Stopped
<1>21. ASSUME NEW r \in Requests, Consider(r) PROVE Clear'
  <2>1. ConsiderFields(r)
    BY <1>21, ConsiderEffect
  <2>2. \A x : <<x, "service">> \notin holders
    BY <2>1 DEF ConsiderFields, Descriptors, Away, Leases
  <2> QED
    BY <2>1, <2>2 DEF ConsiderFields
<1>22. CASE NoneLeft
  BY <1>22 DEF NoneLeft, Step
<1>23. CASE Receive
  BY <1>23 DEF Receive, Step
<1>24. CASE SendStopped
  BY <1>24 DEF SendStopped, Step, Connected
<1>25. CASE SkipCancel
  BY <1>25 DEF SkipCancel, Step, Replies
<1>26. CASE Acknowledged
  BY <1>26 DEF Acknowledged, Stopped, Without, Replies
<1>27. CASE Unacknowledged
  BY <1>27 DEF Unacknowledged, Down, Stopped, Without, Connected, Replies
<1>28. CASE LoanFails
  BY <1>28 DEF LoanFails, Without, Connected
<1>29. CASE AfterFailure
  <2>1. FailureFields
    BY <1>29, FailureEffect
  <2>2. service'.lease \in Leases => <<service'.lease, "service">> \notin holders'
    BY <2>1 DEF FailureFields, Descriptors, Away
  <2>3. <<service'.lease, "service">> \in holders' => service'.lease \in Leases
    BY <1>29, StepTyped DEF Leases
  <2> QED
    BY <2>1, <2>2, <2>3 DEF FailureFields
<1>30. CASE Interrupted
  BY <1>30 DEF Interrupted, Down, Stopped, Without
<1>31. CASE Claim
  BY <1>31 DEF Claim, Step, Ledger
<1>32. CASE ClaimNothing
  BY <1>32 DEF ClaimNothing, Step, CancelQueued, Ledger
<1>33. CASE Launch
  <2>1. LaunchFields
    BY <1>33, LaunchEffect
  <2>2. work = {}
    BY <2>1 DEF LaunchFields, Descriptors, InRun
  <2> QED
    BY <2>1, <2>2 DEF LaunchFields
<1>34. CASE Poll
  BY <1>34 DEF Poll, Step, Ledger, Cancelled, Connected
<1>35. ASSUME NEW l \in Jobs \cup {Fifo}, NEW r \in Requests, BuildEnds(l, r) PROVE Clear'
  BY <1>35 DEF BuildEnds
<1>36. CASE Finish
  BY <1>36 DEF Finish, Ledger
<1>37. CASE Raise
  BY <1>37 DEF Raise, Down, Stopped, Without
<1>38. CASE ServiceDies
  BY <1>38 DEF ServiceDies, Down, Stopped, Without
<1>39. CASE Busy
  BY <1>39 DEF Busy, Step
<1>40. CASE NeedsRecovery
  BY <1>40 DEF NeedsRecovery, Down, Stopped, Without
<1>41. CASE TakeSlot
  <2>1. work = {}
    BY <1>41, Unmarked DEF TakeSlot
  <2> QED
    BY <1>41, <2>1 DEF TakeSlot
<1>42. ASSUME NEW r \in Requests, ClaimOrdinary(r) PROVE Clear'
  BY <1>42 DEF ClaimOrdinary, Ordinary, Ledger
<1>43. CASE NoOrdinary
  BY <1>43 DEF NoOrdinary, Step
<1>44. CASE ReleaseSlot
  BY <1>44 DEF ReleaseSlot, Stopped, Without
<1>45. ASSUME NEW b \in BOOLEAN, SetDrain(b) PROVE Clear'
  BY <1>45 DEF SetDrain
<1>46. CASE ClearMarker
  BY <1>46 DEF ClearMarker
<1>47. ASSUME NEW r \in Requests, RecoverClaim(r) PROVE Clear'
  BY <1>47 DEF RecoverClaim, Ledger
<1>48. CASE UNCHANGED vars
  BY <1>48 DEF vars
<1> HIDE DEF TypeOK, Guardians, Services, Clear
<1> QED
  BY <1>1, <1>2, <1>3, <1>4, <1>5, <1>6, <1>7, <1>8, <1>9, <1>10, <1>11, <1>12, <1>13, <1>14,
     <1>15, <1>16, <1>17, <1>18, <1>19, <1>20, <1>21, <1>22, <1>23, <1>24, <1>25, <1>26, <1>27, <1>28,
     <1>29, <1>30, <1>31, <1>32, <1>33, <1>34, <1>35, <1>36, <1>37, <1>38, <1>39, <1>40, <1>41, <1>42,
     <1>43, <1>44, <1>45, <1>46, <1>47, <1>48
     DEF Next, RunnerNext, GuardianNext, ClientNext, ServiceNext

LEMMA StepLent == TypeOK /\ Registered /\ Evident /\ Descriptors /\ OneLease /\ Marked /\ Clear /\ Lent /\ [Next]_vars => Lent'
<1> SUFFICES ASSUME TypeOK, Registered, Evident, Descriptors, OneLease, Marked, Clear, Lent, [Next]_vars PROVE Lent'
  OBVIOUS
<1> USE DEF slot, runner, loans, requests, ledger
<1> USE NestedLeaseAssumption DEF TypeOK, Guardians, Serving, Lent
<1>1. ASSUME NEW j \in Jobs, Assign(j) PROVE Lent'
  BY <1>1 DEF Assign
<1>2. ASSUME NEW j \in Jobs, Acquire(j) PROVE Lent'
  <2>1. AcquireFields(j)
    BY <1>2, AcquireEffect
  <2>2. work = {}
    BY <2>1, Unmarked DEF AcquireFields
  <2> QED
    BY <2>1, <2>2 DEF AcquireFields
<1>3. ASSUME NEW j \in Jobs, HandoffFails(j) PROVE Lent'
  BY <1>3 DEF HandoffFails
<1>4. ASSUME NEW j \in Jobs, Deny(j) PROVE Lent'
  BY <1>4 DEF Deny
<1>5. ASSUME NEW j \in Jobs, ParentExits(j) PROVE Lent'
  BY <1>5 DEF ParentExits
<1>6. ASSUME NEW j \in Jobs, OrphanEnds(j) PROVE Lent'
  BY <1>6 DEF OrphanEnds
<1>7. ASSUME NEW j \in Jobs, NoticeParent(j) PROVE Lent'
  <2>1. NoticeFields(j)
    BY <1>7, NoticeEffect
  <2> QED
    BY <2>1 DEF NoticeFields
<1>8. ASSUME NEW j \in Jobs, Lend(j) PROVE Lent'
  <2>1. LendFields(j)
    BY <1>8, LendEffect
  <2>2. marker
    BY <2>1 DEF LendFields, Marked
  <2>3. service.lease = j /\ service.request # None
    BY <2>1 DEF LendFields, Evident, Registered, Records
  <2> QED
    BY <2>1, <2>2, <2>3 DEF LendFields
<1>9. ASSUME NEW j \in Jobs, FinishBorrow(j) PROVE Lent'
  <2>1. FinishFields(j)
    BY <1>9, FinishEffect
  <2>2. <<service.lease, "service">> \in holders /\ service.at # "waiting" => service.lease # j
    BY <2>1 DEF FinishFields
  <2>3. ~guardian'[j].uncertain => work = {}
    <3> SUFFICES ASSUME ~guardian'[j].uncertain PROVE work = {}
      OBVIOUS
    <3>1. service.lease = j /\ <<j, "service">> \in holders
      BY <2>1 DEF FinishFields, Descriptors, Leases
    <3>2. service.at = "waiting"
      BY <2>2, <3>1
    <3> QED
      BY <3>1, <3>2 DEF Clear
  <2> QED
    BY <2>1, <2>2, <2>3 DEF FinishFields
<1>10. ASSUME NEW j \in Jobs, LeaveUncertain(j) PROVE Lent'
  <2>1. guardian[j].at = "serving" /\ UNCHANGED marker
    BY <1>10 DEF LeaveUncertain, Serving
  <2>2. LeaveFields(j)
    BY <1>10, LeaveEffect DEF LeaveUncertain
  <2> QED
    BY <2>1, <2>2 DEF LeaveFields
<1>11. ASSUME NEW j \in Jobs, End(j) PROVE Lent'
  <2>1. LeaveFields(j)
    BY <1>11, LeaveEffect DEF End
  <2>2. guardian[j].at = "serving" /\ guardian[j].borrower = None
    BY <1>11 DEF End
  <2>3. <<service.lease, "service">> \in holders => service.at = "waiting"
    <3> SUFFICES ASSUME <<service.lease, "service">> \in holders PROVE service.at = "waiting"
      OBVIOUS
    <3>1. service.lease \in Leases /\ <<j, "guardian">> \in holders
      BY <2>2 DEF Leases, Descriptors
    <3>2. service.lease = j
      BY <3>1 DEF OneLease, InUse, Holds, Leases
    <3> QED
      BY <2>2, <3>2
  <2> QED
    BY <2>1, <2>3 DEF LeaveFields
<1>12. ASSUME NEW j \in Jobs, GuardianDies(j) PROVE Lent'
  <2>1. guardian[j].at = "serving" /\ UNCHANGED marker
    BY <1>12 DEF GuardianDies, Serving
  <2>2. LeaveFields(j)
    BY <1>12, LeaveEffect DEF GuardianDies
  <2> QED
    BY <2>1, <2>2 DEF LeaveFields
<1>13. ASSUME NEW r \in Requests, SubmitPlain(r) PROVE Lent'
  BY <1>13 DEF SubmitPlain
<1>14. ASSUME NEW j \in Jobs, NEW r \in Requests, Prove(j, r) PROVE Lent'
  BY <1>14 DEF Prove
<1>15. ASSUME NEW r \in Requests, Verify(r) PROVE Lent'
  BY <1>15 DEF Verify, Advance
<1>16. ASSUME NEW r \in Requests, Record(r) PROVE Lent'
  BY <1>16 DEF Record, Advance, Guarded
<1>17. ASSUME NEW r \in Requests, Admit(r) PROVE Lent'
  BY <1>17 DEF Admit
<1>18. ASSUME NEW r \in Requests, ClientCancels(r) PROVE Lent'
  BY <1>18 DEF ClientCancels, Ledger
<1>19. CASE Restart
  BY <1>19 DEF Restart, Step
<1>20. CASE Scan
  BY <1>20 DEF Scan, Stopped
<1>21. ASSUME NEW r \in Requests, Consider(r) PROVE Lent'
  <2>1. ConsiderFields(r)
    BY <1>21, ConsiderEffect
  <2>2. \A x : <<x, "service">> \notin holders
    BY <2>1 DEF ConsiderFields, Descriptors, Away, Leases
  <2> QED
    BY <2>1, <2>2 DEF ConsiderFields
<1>22. CASE NoneLeft
  BY <1>22 DEF NoneLeft, Step
<1>23. CASE Receive
  BY <1>23 DEF Receive, Step
<1>24. CASE SendStopped
  BY <1>24 DEF SendStopped, Step, Connected
<1>25. CASE SkipCancel
  BY <1>25 DEF SkipCancel, Step, Replies
<1>26. CASE Acknowledged
  BY <1>26 DEF Acknowledged, Stopped, Without, Replies
<1>27. CASE Unacknowledged
  BY <1>27 DEF Unacknowledged, Down, Stopped, Without, Connected, Replies
<1>28. CASE LoanFails
  BY <1>28 DEF LoanFails, Without, Connected
<1>29. CASE AfterFailure
  <2>1. FailureFields
    BY <1>29, FailureEffect
  <2>2. service'.lease \in Leases => <<service'.lease, "service">> \notin holders'
    BY <2>1 DEF FailureFields, Descriptors, Away
  <2>3. <<service'.lease, "service">> \in holders' => service'.lease \in Leases
    BY <1>29, StepTyped DEF Leases
  <2> QED
    BY <2>1, <2>2, <2>3 DEF FailureFields
<1>30. CASE Interrupted
  BY <1>30 DEF Interrupted, Down, Stopped, Without
<1>31. CASE Claim
  BY <1>31 DEF Claim, Step, Ledger
<1>32. CASE ClaimNothing
  BY <1>32 DEF ClaimNothing, Step, CancelQueued, Ledger
<1>33. CASE Launch
  <2>1. LaunchFields
    BY <1>33, LaunchEffect
  <2>2. service.lease \in Leases /\ <<service.lease, "service">> \in holders
    BY <2>1 DEF LaunchFields, Descriptors, InRun, Leases
  <2>3. \A k \in Jobs : guardian[k].at = "serving" => k = service.lease
    BY <2>2 DEF Descriptors, OneLease, InUse, Holds, Leases
  <2>4. \A k \in Jobs : guardian[k].at = "serving" => guardian[k].borrower # None
    BY <2>1, <2>2, <2>3 DEF LaunchFields
  <2> QED
    BY <2>1, <2>2, <2>4 DEF LaunchFields
<1>34. CASE Poll
  BY <1>34 DEF Poll, Step, Ledger, Cancelled, Connected
<1>35. ASSUME NEW l \in Jobs \cup {Fifo}, NEW r \in Requests, BuildEnds(l, r) PROVE Lent'
  BY <1>35 DEF BuildEnds
<1>36. CASE Finish
  BY <1>36 DEF Finish, Ledger
<1>37. CASE Raise
  BY <1>37 DEF Raise, Down, Stopped, Without
<1>38. CASE ServiceDies
  BY <1>38 DEF ServiceDies, Down, Stopped, Without
<1>39. CASE Busy
  BY <1>39 DEF Busy, Step
<1>40. CASE NeedsRecovery
  BY <1>40 DEF NeedsRecovery, Down, Stopped, Without
<1>41. CASE TakeSlot
  BY <1>41 DEF TakeSlot
<1>42. ASSUME NEW r \in Requests, ClaimOrdinary(r) PROVE Lent'
  BY <1>42 DEF ClaimOrdinary, Ordinary, Ledger
<1>43. CASE NoOrdinary
  BY <1>43 DEF NoOrdinary, Step
<1>44. CASE ReleaseSlot
  BY <1>44 DEF ReleaseSlot, Stopped, Without
<1>45. ASSUME NEW b \in BOOLEAN, SetDrain(b) PROVE Lent'
  BY <1>45 DEF SetDrain
<1>46. CASE ClearMarker
  BY <1>46 DEF ClearMarker
<1>47. ASSUME NEW r \in Requests, RecoverClaim(r) PROVE Lent'
  BY <1>47 DEF RecoverClaim, Ledger
<1>48. CASE UNCHANGED vars
  BY <1>48 DEF vars
<1> HIDE DEF TypeOK, Guardians, Serving, Lent
<1> QED
  BY <1>1, <1>2, <1>3, <1>4, <1>5, <1>6, <1>7, <1>8, <1>9, <1>10, <1>11, <1>12, <1>13, <1>14,
     <1>15, <1>16, <1>17, <1>18, <1>19, <1>20, <1>21, <1>22, <1>23, <1>24, <1>25, <1>26, <1>27, <1>28,
     <1>29, <1>30, <1>31, <1>32, <1>33, <1>34, <1>35, <1>36, <1>37, <1>38, <1>39, <1>40, <1>41, <1>42,
     <1>43, <1>44, <1>45, <1>46, <1>47, <1>48
     DEF Next, RunnerNext, GuardianNext, ClientNext, ServiceNext

LEMMA StepSettled == TypeOK /\ Registered /\ Evident /\ Descriptors /\ OneLease /\ Clear /\ Lent /\ Settled /\ [Next]_vars => Settled'
<1> SUFFICES ASSUME TypeOK, Registered, Evident, Descriptors, OneLease, Clear, Lent, Settled, [Next]_vars PROVE Settled'
  OBVIOUS
<1> USE DEF slot, runner, loans, requests, ledger
<1> USE NestedLeaseAssumption DEF TypeOK, Guardians, Services, Serving, Settled, Running, Away, OnLoan, InRun, InFifo
<1>1. ASSUME NEW j \in Jobs, Assign(j) PROVE Settled'
  BY <1>1 DEF Assign
<1>2. ASSUME NEW j \in Jobs, Acquire(j) PROVE Settled'
  <2>1. AcquireFields(j)
    BY <1>2, AcquireEffect
  <2>2. \A r \in Requests : proof[r] # j
    BY <2>1 DEF AcquireFields, Registered
  <2> QED
    BY <2>1, <2>2 DEF AcquireFields
<1>3. ASSUME NEW j \in Jobs, HandoffFails(j) PROVE Settled'
  BY <1>3 DEF HandoffFails
<1>4. ASSUME NEW j \in Jobs, Deny(j) PROVE Settled'
  BY <1>4 DEF Deny
<1>5. ASSUME NEW j \in Jobs, ParentExits(j) PROVE Settled'
  BY <1>5 DEF ParentExits
<1>6. ASSUME NEW j \in Jobs, OrphanEnds(j) PROVE Settled'
  BY <1>6 DEF OrphanEnds
<1>7. ASSUME NEW j \in Jobs, NoticeParent(j) PROVE Settled'
  <2>1. NoticeFields(j)
    BY <1>7, NoticeEffect
  <2> QED
    BY <2>1 DEF NoticeFields
<1>8. ASSUME NEW j \in Jobs, Lend(j) PROVE Settled'
  <2>1. LendFields(j)
    BY <1>8, LendEffect
  <2> QED
    BY <2>1 DEF LendFields
<1>9. ASSUME NEW j \in Jobs, FinishBorrow(j) PROVE Settled'
  <2>1. FinishFields(j)
    BY <1>9, FinishEffect
  <2>2. ~guardian'[j].uncertain => Running = {}
    <3> SUFFICES ASSUME ~guardian'[j].uncertain PROVE Running = {}
      OBVIOUS
    <3>1. service.lease = j /\ <<j, "service">> \in holders
      BY <2>1 DEF FinishFields, Descriptors, Leases
    <3>2. service.at = "waiting"
      BY <2>1, <3>1 DEF FinishFields, Lent
    <3> QED
      BY <3>2
  <2> QED
    BY <2>1, <2>2 DEF FinishFields
<1>10. ASSUME NEW j \in Jobs, LeaveUncertain(j) PROVE Settled'
  <2>1. guardian[j].at = "serving" /\ UNCHANGED marker
    BY <1>10 DEF LeaveUncertain, Serving
  <2>2. LeaveFields(j)
    BY <1>10, LeaveEffect DEF LeaveUncertain
  <2> QED
    BY <2>1, <2>2 DEF LeaveFields
<1>11. ASSUME NEW j \in Jobs, End(j) PROVE Settled'
  BY <1>11 DEF End, GuardianLeaves, Releasable, CgroupIdle
<1>12. ASSUME NEW j \in Jobs, GuardianDies(j) PROVE Settled'
  <2>1. guardian[j].at = "serving" /\ UNCHANGED marker
    BY <1>12 DEF GuardianDies, Serving
  <2>2. LeaveFields(j)
    BY <1>12, LeaveEffect DEF GuardianDies
  <2> QED
    BY <2>1, <2>2 DEF LeaveFields
<1>13. ASSUME NEW r \in Requests, SubmitPlain(r) PROVE Settled'
  BY <1>13 DEF SubmitPlain
<1>14. ASSUME NEW j \in Jobs, NEW r \in Requests, Prove(j, r) PROVE Settled'
  BY <1>14 DEF Prove
<1>15. ASSUME NEW r \in Requests, Verify(r) PROVE Settled'
  BY <1>15 DEF Verify, Advance
<1>16. ASSUME NEW r \in Requests, Record(r) PROVE Settled'
  BY <1>16 DEF Record, Advance, Guarded
<1>17. ASSUME NEW r \in Requests, Admit(r) PROVE Settled'
  BY <1>17 DEF Admit
<1>18. ASSUME NEW r \in Requests, ClientCancels(r) PROVE Settled'
  BY <1>18 DEF ClientCancels, Ledger
<1>19. CASE Restart
  BY <1>19 DEF Restart, Step
<1>20. CASE Scan
  BY <1>20 DEF Scan, Stopped
<1>21. ASSUME NEW r \in Requests, Consider(r) PROVE Settled'
  <2>1. ConsiderFields(r)
    BY <1>21, ConsiderEffect
  <2> QED
    BY <2>1 DEF ConsiderFields
<1>22. CASE NoneLeft
  BY <1>22 DEF NoneLeft, Step
<1>23. CASE Receive
  BY <1>23 DEF Receive, Step
<1>24. CASE SendStopped
  BY <1>24 DEF SendStopped, Step, Connected
<1>25. CASE SkipCancel
  BY <1>25 DEF SkipCancel, Step, Replies
<1>26. CASE Acknowledged
  BY <1>26 DEF Acknowledged, Stopped, Without, Replies
<1>27. CASE Unacknowledged
  BY <1>27 DEF Unacknowledged, Down, Stopped, Without, Connected, Replies
<1>28. CASE LoanFails
  BY <1>28 DEF LoanFails, Without, Connected
<1>29. CASE AfterFailure
  <2>1. FailureFields
    BY <1>29, FailureEffect
  <2> QED
    BY <2>1 DEF FailureFields
<1>30. CASE Interrupted
  BY <1>30 DEF Interrupted, Down, Stopped, Without
<1>31. CASE Claim
  <2>1. /\ service.at = "running" /\ service'.at = "claimed" /\ service'.request = service.request
        /\ service.request \in Requests /\ Running' = {service.request}
        /\ UNCHANGED <<guardian, proof>>
    BY <1>31 DEF Claim, Step, Ledger, Evident, Records
  <2>2. service.lease = proof[service.request] /\ <<service.lease, "service">> \in holders
    BY <2>1 DEF Evident, Descriptors
  <2>3. \A k \in Jobs : guardian[k].at = "serving" /\ guardian[k].borrower = None => proof[service.request] # k
    BY <2>1, <2>2 DEF Lent
  <2> QED
    BY <2>1, <2>3
<1>32. CASE ClaimNothing
  BY <1>32 DEF ClaimNothing, Step, CancelQueued, Ledger
<1>33. CASE Launch
  <2>1. LaunchFields
    BY <1>33, LaunchEffect
  <2> QED
    BY <2>1 DEF LaunchFields
<1>34. CASE Poll
  BY <1>34 DEF Poll, Step, Ledger, Cancelled, Connected
<1>35. ASSUME NEW l \in Jobs \cup {Fifo}, NEW r \in Requests, BuildEnds(l, r) PROVE Settled'
  BY <1>35 DEF BuildEnds
<1>36. CASE Finish
  BY <1>36 DEF Finish, Ledger
<1>37. CASE Raise
  BY <1>37 DEF Raise, Down, Stopped, Without
<1>38. CASE ServiceDies
  BY <1>38 DEF ServiceDies, Down, Stopped, Without
<1>39. CASE Busy
  BY <1>39 DEF Busy, Step
<1>40. CASE NeedsRecovery
  BY <1>40 DEF NeedsRecovery, Down, Stopped, Without
<1>41. CASE TakeSlot
  BY <1>41 DEF TakeSlot
<1>42. ASSUME NEW r \in Requests, ClaimOrdinary(r) PROVE Settled'
  <2>1. service.at = "guarded" /\ UNCHANGED guardian
    BY <1>42 DEF ClaimOrdinary
  <2>2. service'.at = "claimed" /\ service'.request = r /\ Running' = {r}
    BY <1>42 DEF ClaimOrdinary, Ledger
  <2>3. <<Fifo, "service">> \in holders
    BY <2>1 DEF Evident, Descriptors
  <2>4. \A k \in Jobs : <<k, "guardian">> \notin holders
    <3> HIDE DEF TypeOK, Registered, Evident, Clear, Lent, Works
    <3>1. Fifo \notin Jobs
      BY NestedLeaseAssumption
    <3> QED
      BY <2>3, <3>1 DEF OneLease, InUse, Holds, Leases
  <2>5. \A k \in Jobs : ~Serving(k)
    BY <2>4 DEF Descriptors
  <2>6. \A k \in Jobs : ~Serving(k)'
    BY <2>1, <2>5 DEF Serving
  <2> HIDE DEF TypeOK, Registered, Evident, Descriptors, OneLease, Marked, Clear, Lent, Serving
  <2> QED
    BY <2>2, <2>6
<1>43. CASE NoOrdinary
  BY <1>43 DEF NoOrdinary, Step
<1>44. CASE ReleaseSlot
  BY <1>44 DEF ReleaseSlot, Stopped, Without
<1>45. ASSUME NEW b \in BOOLEAN, SetDrain(b) PROVE Settled'
  BY <1>45 DEF SetDrain
<1>46. CASE ClearMarker
  BY <1>46 DEF ClearMarker
<1>47. ASSUME NEW r \in Requests, RecoverClaim(r) PROVE Settled'
  BY <1>47 DEF RecoverClaim, Ledger
<1>48. CASE UNCHANGED vars
  BY <1>48 DEF vars
<1> HIDE DEF TypeOK, Guardians, Services, Serving, Settled, Running, Away, OnLoan, InRun, InFifo
<1> QED
  BY <1>1, <1>2, <1>3, <1>4, <1>5, <1>6, <1>7, <1>8, <1>9, <1>10, <1>11, <1>12, <1>13, <1>14,
     <1>15, <1>16, <1>17, <1>18, <1>19, <1>20, <1>21, <1>22, <1>23, <1>24, <1>25, <1>26, <1>27, <1>28,
     <1>29, <1>30, <1>31, <1>32, <1>33, <1>34, <1>35, <1>36, <1>37, <1>38, <1>39, <1>40, <1>41, <1>42,
     <1>43, <1>44, <1>45, <1>46, <1>47, <1>48
     DEF Next, RunnerNext, GuardianNext, ClientNext, ServiceNext

-----------------------------------------------------------------------------
LEMMA InitInvariant == Init => LInv
<1> SUFFICES ASSUME Init PROVE LInv
  OBVIOUS
<1> USE NestedLeaseAssumption
<1>1. TypeOK
  <2>1. NoGuardian \in Guardians
    BY DEF NoGuardian, Guardians
  <2>2. NoMail \in Mails
    BY DEF NoMail, Mails
  <2>3. guardian \in [Jobs -> Guardians] /\ mail \in [Jobs -> Mails] /\ service \in Services
    BY <2>1, <2>2, StoppedTyped DEF Init
  <2>4. parent \in [Jobs -> {"none", "waiting", "running", "exited"}] /\ faults \in 0 .. MaxFaults
    BY DEF Init
  <2>5. /\ client \in [Requests -> {"none", "proved", "verified", "recorded"}]
        /\ proof \in [Requests -> Jobs \cup {None}]
        /\ job \in [Requests -> {"absent", "queued", "running", "cancelling", "ended"}]
    BY DEF Init
  <2>6. /\ marker \in BOOLEAN /\ drained \in BOOLEAN /\ orphans \subseteq Jobs
        /\ holders = {} /\ work = {}
    BY DEF Init
  <2> QED
    BY <2>3, <2>4, <2>5, <2>6 DEF TypeOK
<1>2. /\ \A j \in Jobs : guardian[j].at = "none" /\ guardian[j].requests = {}
      /\ service.at = "down" /\ service.records = {}
  BY DEF Init, NoGuardian, Stopped
<1>3. Running = {}
  BY DEF Init, Running
<1>4. Registered
  BY <1>2 DEF Init, Registered
<1>5. Evident /\ Descriptors
  BY <1>2 DEF Init, Evident, Descriptors, Serving, OnLoan, InRun, InFifo
<1>6. OneLease /\ Marked
  BY <1>2 DEF Init, OneLease, Marked, InUse, Holds, Works, Serving
<1>7. Clear /\ Lent /\ Settled
  BY <1>2, <1>3 DEF Init, Clear, Lent, Settled, Serving, InRun
<1> QED
  BY <1>1, <1>4, <1>5, <1>6, <1>7 DEF LInv

LEMMA StepInvariant == LInv /\ [Next]_vars => LInv'
BY StepTyped, StepRegistered, StepEvident, StepDescriptors, StepOneLease, StepMarked, StepClear,
   StepLent, StepSettled DEF LInv

-----------------------------------------------------------------------------
(* The theorems.                                                            *)

(* The invariant, the types among it, holds in every behaviour.              *)
THEOREM Invariance == Spec => []LInv
<1>1. Init => LInv
  BY InitInvariant
<1>2. LInv /\ [Next]_vars => LInv'
  BY StepInvariant
<1> QED
  BY <1>1, <1>2, PTL DEF Spec

(* A set whose elements are all the same has at most one.                    *)
LEMMA AtMostOne ==
  ASSUME NEW S, \A s, t \in S : s = t
  PROVE  Cardinality(S) <= 1
<1>1. CASE S = {}
  BY <1>1, FS_EmptySet
<1>2. CASE S # {}
  <2>1. PICK s \in S : TRUE
    BY <1>2
  <2>2. S = {s}
    BY <2>1
  <2>3. Cardinality({s}) = 1
    BY FS_Singleton, Zenon
  <2> QED
    BY <2>2, <2>3
<1> QED
  BY <1>1, <1>2

LEMMA TenantsWork == TypeOK => \A l \in Tenants : l \in Leases /\ Works(l)
<1> SUFFICES ASSUME TypeOK, NEW l \in Tenants PROVE l \in Leases /\ Works(l)
  OBVIOUS
<1>1. CASE l \in {j \in Jobs : parent[j] = "running"} \cup orphans
  BY <1>1 DEF TypeOK, Leases, Works
<1>2. CASE l \in {w[1] : w \in work}
  <2>1. PICK w \in work : l = w[1]
    BY <1>2
  <2>2. w \in Leases \X Requests
    BY <2>1 DEF TypeOK, Leases
  <2>3. PICK r \in Requests : w = <<l, r>>
    BY <2>1, <2>2
  <2> QED
    BY <2>1, <2>2, <2>3 DEF Works
<1> QED
  BY <1>1, <1>2 DEF Tenants

(* One lease at a time has work on the host, and the marker stays for as     *)
(* long, whoever is lost (acquire_job_slot, hold_job_slot, run_worker).      *)
THEOREM CapacityIsHeld == Spec => []CapacityHeld
<1>1. LInv => CapacityHeld
  <2> SUFFICES ASSUME LInv PROVE CapacityHeld
    OBVIOUS
  <2>1. \A l \in Tenants : l \in Leases /\ Works(l)
    BY TenantsWork DEF LInv
  <2>2. \A s, t \in Tenants : s = t
    BY <2>1 DEF LInv, OneLease, InUse
  <2>3. Cardinality(Tenants) <= 1
    BY <2>2, AtMostOne
  <2>4. Tenants # {} => marker
    BY <2>1 DEF LInv, Marked
  <2> QED
    BY <2>3, <2>4 DEF CapacityHeld
<1> QED
  BY <1>1, Invariance, PTL

(* Which steps begin a build, and which clear the marker.                    *)
LEMMA OnlyLaunch == [Next]_vars => work' \subseteq work \/ Launch
<1> SUFFICES ASSUME [Next]_vars, ~Launch PROVE work' \subseteq work
  OBVIOUS
<1> USE DEF ledger
<1>1. ASSUME NEW j \in Jobs, RunnerNext(j) PROVE UNCHANGED work
  BY <1>1 DEF RunnerNext, Assign, Acquire, HandoffFails, Deny, ParentExits, OrphanEnds
<1>2. ASSUME NEW j \in Jobs, GuardianNext(j) \/ GuardianDies(j) PROVE UNCHANGED work
  BY <1>2 DEF GuardianNext, NoticeParent, Lend, FinishBorrow, LeaveUncertain, End, GuardianDies,
     GuardianLeaves
<1>3. ASSUME NEW r \in Requests, ClientNext(r) \/ RecoverClaim(r) PROVE UNCHANGED work
  BY <1>3 DEF ClientNext, SubmitPlain, Verify, Record, Advance, Admit, ClientCancels, Ledger, Prove,
     RecoverClaim
<1>4. CASE ServiceNext
  <2>1. Restart \/ Scan \/ NoneLeft \/ Receive \/ SendStopped \/ SkipCancel \/ Acknowledged => UNCHANGED work
    BY DEF Restart, Scan, NoneLeft, Receive, SendStopped, SkipCancel, Acknowledged
  <2>2. Unacknowledged \/ AfterFailure \/ Interrupted \/ NeedsRecovery => UNCHANGED work
    BY DEF Unacknowledged, AfterFailure, Interrupted, NeedsRecovery, Down, CancelQueued, Ledger
  <2>3. Claim \/ ClaimNothing \/ Poll \/ Finish => UNCHANGED work
    BY DEF Claim, ClaimNothing, Poll, Finish, CancelQueued, Ledger
  <2>4. Busy \/ TakeSlot \/ NoOrdinary \/ ReleaseSlot => UNCHANGED work
    BY DEF Busy, TakeSlot, NoOrdinary, ReleaseSlot
  <2>5. ASSUME NEW r \in Requests, Consider(r) \/ ClaimOrdinary(r) PROVE UNCHANGED work
    BY <2>5 DEF Consider, ClaimOrdinary, CancelQueued, Ledger
  <2> QED
    BY <1>4, <2>1, <2>2, <2>3, <2>4, <2>5 DEF ServiceNext
<1>5. CASE LoanFails \/ Raise \/ ServiceDies
  BY <1>5 DEF LoanFails, Raise, ServiceDies, Down
<1>6. ASSUME NEW l \in Jobs \cup {Fifo}, NEW r \in Requests, BuildEnds(l, r) PROVE work' \subseteq work
  BY <1>6 DEF BuildEnds
<1>7. ASSUME NEW b \in BOOLEAN, SetDrain(b) \/ ClearMarker PROVE UNCHANGED work
  BY <1>7 DEF SetDrain, ClearMarker
<1>8. CASE UNCHANGED vars
  BY <1>8 DEF vars
<1> QED
  BY <1>1, <1>2, <1>3, <1>4, <1>5, <1>6, <1>7, <1>8 DEF Next

LEMMA OnlyEnd ==
  [Next]_vars /\ marker /\ ~marker' => ReleaseSlot \/ ClearMarker \/ \E j \in Jobs : End(j)
<1> SUFFICES ASSUME [Next]_vars, ~ReleaseSlot, ~ClearMarker, ~\E j \in Jobs : End(j), marker PROVE marker'
  OBVIOUS
<1> USE DEF slot
<1>1. ASSUME NEW j \in Jobs, RunnerNext(j) PROVE marker'
  BY <1>1 DEF RunnerNext, Assign, Acquire, HandoffFails, Deny, ParentExits, OrphanEnds
<1>2. ASSUME NEW j \in Jobs, GuardianNext(j) \/ GuardianDies(j) PROVE marker'
  BY <1>2 DEF GuardianNext, NoticeParent, Lend, FinishBorrow, LeaveUncertain, GuardianDies
<1>3. ASSUME NEW r \in Requests, ClientNext(r) \/ RecoverClaim(r) PROVE marker'
  BY <1>3 DEF ClientNext, SubmitPlain, Verify, Record, Advance, Admit, ClientCancels, Prove, RecoverClaim
<1>4. CASE ServiceNext
  <2>1. Restart \/ Scan \/ NoneLeft \/ Receive \/ SendStopped \/ SkipCancel \/ Acknowledged => marker'
    BY DEF Restart, Scan, NoneLeft, Receive, SendStopped, SkipCancel, Acknowledged
  <2>2. Unacknowledged \/ AfterFailure \/ Interrupted \/ NeedsRecovery => marker'
    BY DEF Unacknowledged, AfterFailure, Interrupted, NeedsRecovery, Down
  <2>3. Claim \/ ClaimNothing \/ Launch \/ Poll \/ Finish => marker'
    BY DEF Claim, ClaimNothing, Launch, Poll, Finish
  <2>4. Busy \/ TakeSlot \/ NoOrdinary => marker'
    BY DEF Busy, TakeSlot, NoOrdinary
  <2>5. ASSUME NEW r \in Requests, Consider(r) \/ ClaimOrdinary(r) PROVE marker'
    BY <2>5 DEF Consider, ClaimOrdinary
  <2> QED
    BY <1>4, <2>1, <2>2, <2>3, <2>4, <2>5 DEF ServiceNext
<1>5. CASE LoanFails \/ Raise \/ ServiceDies
  BY <1>5 DEF LoanFails, Raise, ServiceDies, Down
<1>6. ASSUME NEW l \in Jobs \cup {Fifo}, NEW r \in Requests, BuildEnds(l, r) PROVE marker'
  BY <1>6 DEF BuildEnds
<1>7. ASSUME NEW b \in BOOLEAN, SetDrain(b) PROVE marker'
  BY <1>7 DEF SetDrain
<1>8. CASE UNCHANGED vars
  BY <1>8 DEF vars
<1> QED
  BY <1>1, <1>2, <1>3, <1>4, <1>5, <1>6, <1>7, <1>8 DEF Next

(* What was submitted from a workflow is built on the loan of that workflow  *)
(* and nothing else is, though evidence and admission are two steps          *)
(* (register, fifo_guard, run_pending).                                     *)
THEOREM LoansAreKept == Spec => BuiltOnItsLoan
<1> DEFINE Begun ==
      \A w \in work' \ work :
        /\ <<w[1], "service">> \in holders
        /\ w[1] = (IF w[2] \in Records THEN proof[w[2]] ELSE Fifo)
<1>1. LInv /\ [Next]_vars => Begun
  <2> SUFFICES ASSUME LInv, [Next]_vars, NEW w \in work' \ work
               PROVE  /\ <<w[1], "service">> \in holders
                      /\ w[1] = (IF w[2] \in Records THEN proof[w[2]] ELSE Fifo)
    OBVIOUS
  <2>1. Launch
    BY OnlyLaunch
  <2>2. LaunchFields
    BY <2>1, LaunchEffect DEF LInv
  <2>3. w = <<service.lease, service.request>>
    BY <2>2 DEF LaunchFields
  <2>4. <<service.lease, "service">> \in holders
    BY <2>2 DEF LaunchFields, LInv, Descriptors, InRun
  <2>5. service.lease = (IF service.request \in Records THEN proof[service.request] ELSE Fifo)
    BY <2>2 DEF LaunchFields, LInv, Evident, InRun
  <2> QED
    BY <2>3, <2>4, <2>5
<1>2. LInv /\ [Next]_vars => [Begun]_vars
  BY <1>1
<1> QED
  BY <1>2, Invariance, PTL DEF Spec, BuiltOnItsLoan

(* A guardian that clears the slot leaves no claim of its job behind         *)
(* (hold_job_slot, finish_borrow).                                          *)
THEOREM ReleaseIsSettled == Spec => ReleasedSettled
<1> DEFINE Resolved ==
      \A j \in Jobs : Serving(j) /\ marker /\ ~marker' => \A r \in Running : proof[r] # j
<1>1. LInv /\ [Next]_vars => Resolved
  <2> SUFFICES ASSUME LInv, [Next]_vars, NEW j \in Jobs, Serving(j), marker, ~marker'
               PROVE  \A r \in Running : proof[r] # j
    OBVIOUS
  <2>1. <<j, "guardian">> \in holders
    BY DEF LInv, Descriptors
  <2>2. CASE ReleaseSlot
    <3>1. <<Fifo, "service">> \in holders
      BY <2>2 DEF ReleaseSlot, LInv, Evident, Descriptors, InFifo
    <3>2. j = Fifo
      BY <2>1, <3>1 DEF LInv, OneLease, InUse, Holds, Leases
    <3> QED
      BY <3>2, NestedLeaseAssumption
  <2>3. CASE ClearMarker
    BY <2>1, <2>3 DEF ClearMarker
  <2>4. ASSUME NEW k \in Jobs, End(k) PROVE \A r \in Running : proof[r] # j
    <3>1. <<k, "guardian">> \in holders /\ ~guardian[k].uncertain /\ guardian[k].borrower = None
      BY <2>4 DEF End, LInv, Descriptors
    <3>2. j = k
      BY <2>1, <3>1 DEF LInv, OneLease, InUse, Holds, Leases
    <3> QED
      BY <3>1, <3>2 DEF LInv, Settled
  <2> QED
    BY <2>2, <2>3, <2>4, OnlyEnd
<1>2. LInv /\ [Next]_vars => [Resolved]_vars
  BY <1>1
<1> QED
  BY <1>2, Invariance, PTL DEF Spec, ReleasedSettled

==============================================================================
