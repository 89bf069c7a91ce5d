--------------------------- MODULE AgentTasksProofs ---------------------------
(***************************************************************************)
(* Theorems about AgentTasks for every number of tasks, workers, runs,       *)
(* deaths and failures.  A task's counters, its receipt and its context are   *)
(* written one after the other; what they say of each other is stated as a    *)
(* predicate on the values of one task, Sound, and every operation is shown   *)
(* to keep it, whichever of its writes got through.                          *)
(***************************************************************************)
EXTENDS AgentTasks, SequenceTheorems, FiniteSetTheorems, TLAPS

-----------------------------------------------------------------------------
(* The types.                                                               *)

Task ==
  [interval : {"once", "repeat", "event"},
   persistence : {"fresh", "checkpoint", "conversation"},
   enabled : BOOLEAN, queued : BOOLEAN, auto_paused : BOOLEAN, cancel_requested : BOOLEAN,
   events : BOOLEAN, failure_limit : Nat, limited : BOOLEAN, attempts : Nat, tokens_used : Nat,
   usage_uncertain : BOOLEAN, failures : Nat, last_run : Nat,
   recovery : {"none", "pending", "accounting", "reconciled"}, repairs : SUBSET Nat]

RunRecord ==
  [task : Tasks, id : Nat, status : Statuses \cup {"running"}, usage : Usage,
   storage_error : BOOLEAN, owing : BOOLEAN]

Report == [status : Statuses, usage : Usage, report : BOOLEAN, session : BOOLEAN, total : Usage]

Context == [last_run : Nat, checkpoint : Nat, session : BOOLEAN, total : Usage]

Files == [receipt : [id : Nat, result : Report], context : Context]

Process ==
  [at : {"off", "idle", "claimed", "running", "collected", "stopped"}, task : Tasks \cup {None},
   baseline : Usage, result : Report, stop : BOOLEAN]

Typed ==
  /\ tasks \in [Tasks -> Task]
  /\ runs \in Seq(RunRecord) /\ Len(runs) <= MaxHistory
  /\ disk \in [Tasks -> Files]
  /\ worker \in [Workers -> Process]
  /\ holders \subseteq Workers \cup {Provider}
  /\ provider \in Tasks \cup {None}
  /\ thread \in [Tasks -> Nat] /\ spent \in [Tasks -> Nat]
  /\ unseen \subseteq Tasks
  /\ faults \in [deaths : 0 .. MaxDeaths, failures : 0 .. MaxFailures]

-----------------------------------------------------------------------------
(* What the parts of one task say of each other, as a predicate on its hot    *)
(* record, its files d, the tokens metered in its conversation and those its  *)
(* runs have used.  A task is open while a claim of it is not yet settled.    *)

Open(task) == task.attempts # task.last_run

Resting(task) == ~task.enabled /\ ~task.queued

Numbers(task, d) ==
  /\ task.attempts <= MaxRuns
  /\ task.attempts = task.last_run \/ task.attempts = task.last_run + 1
  /\ d.receipt.id <= task.attempts
  /\ d.context.last_run <= task.attempts
  /\ d.context.checkpoint <= d.context.last_run

Settings(task, d) ==
  /\ ~(task.auto_paused /\ task.enabled)
  /\ Pending(task) => Resting(task) /\ ~Open(task)
  /\ task.limited /\ task.usage_uncertain => Resting(task)
  /\ (/\ task.recovery = "pending"
      /\ d.receipt.id = task.last_run
      /\ d.receipt.result.usage = None) => task.usage_uncertain \/ task.last_run \in task.repairs

(* A total that can still become a baseline is where the conversation is.    *)
Meters(task, d, metered) ==
  /\ task.persistence # "conversation" => d.context.total = None
  /\ d.context.total # None => d.context.session
  /\ d.receipt.id = task.attempts /\ d.receipt.result.total # None =>
       d.receipt.result.total = metered
  /\ d.context.last_run = task.attempts /\ d.context.total # None => d.context.total = metered

(* Usage that is charged next covers what was used, and no more than that.   *)
Due(task, used, usage) ==
  /\ ~task.usage_uncertain => used <= task.tokens_used + usage
  /\ task.repairs = {} => task.tokens_used + usage <= used

DueFor(task, used, result) ==
  /\ result.usage # None => Due(task, used, result.usage)
  /\ result.usage = None /\ result.status = "unprepared" /\ ~task.usage_uncertain =>
       used <= task.tokens_used

Accounts(task, d, used) ==
  /\ ~Open(task) /\ ~task.usage_uncertain /\ task.recovery # "accounting" =>
       used <= task.tokens_used
  /\ task.repairs = {} => task.tokens_used <= used
  /\ (Open(task) \/ task.recovery = "accounting") /\ d.receipt.id = task.attempts =>
       DueFor(task, used, d.receipt.result)

(* The context agrees with the receipt of run id.                           *)
Agrees(d, id) ==
  /\ d.context.last_run = id
  /\ d.receipt.id = id
  /\ d.receipt.result.report <=> d.context.checkpoint = id
  /\ d.context.total # None => d.context.total = d.receipt.result.total

Records(task, d) ==
  /\ task.persistence # "fresh" /\ d.context.last_run # 0 /\ ~Open(task) /\ ~Pending(task) =>
       Agrees(d, task.last_run)
  /\ d.context.last_run = task.attempts /\ d.context.last_run # 0 => d.receipt.id = task.attempts
  /\ d.context.checkpoint = task.attempts /\ d.context.checkpoint # 0 => d.receipt.result.report

Sound(task, d, metered, used) ==
  /\ Numbers(task, d) /\ Settings(task, d) /\ Meters(task, d, metered)
  /\ Accounts(task, d, used) /\ Records(task, d)

-----------------------------------------------------------------------------
(* The inductive invariant.                                                 *)

(* A run of the history, and the task it is of.                             *)
Known(run, task) ==
  /\ run.status = "running" => run.id = task.attempts /\ Open(task)
  /\ run.status # "running" => run.id <= task.last_run
  /\ (/\ run.id = task.last_run
      /\ run.status \notin {"running", "unprepared"}
      /\ ~run.owing /\ run.usage = None /\ run.id \notin task.repairs) => task.usage_uncertain

InRun == {"claimed", "running", "collected"}

(* A worker has in its memory what the files of its run do not say yet.      *)
Carried(p, task, d, metered, used) ==
  /\ d.receipt.id < task.attempts /\ d.context.last_run < task.attempts
  /\ p.at = "claimed" =>
       /\ Due(task, used, 0)
       /\ d.context.last_run = task.last_run /\ d.context.total # None => d.context.total = metered
  /\ p.at = "running" /\ p.baseline # None =>
       metered = p.baseline + 1 /\ Due(task, used, 1)
  /\ p.at = "collected" =>
       /\ DueFor(task, used, p.result)
       /\ p.result.total # None => p.result.total = metered

Leased ==
  /\ \A w \in Workers : worker[w].at # "off" <=> w \in holders
  /\ \A v, w \in Workers : worker[v].at # "off" /\ worker[w].at # "off" => v = w
  /\ Provider \in holders <=> provider # None
  /\ provider # None =>
       \A w \in Workers : worker[w].at # "off" =>
         worker[w].at = "running" /\ worker[w].task = provider
  /\ \A w \in Workers : worker[w].at \in InRun => worker[w].task \in Tasks /\ Running(worker[w].task)

(* Only the newest run is a claim, and its task is the one that is open.     *)
Listed ==
  /\ \A i \in Claims : i = Len(runs)
  /\ \A t \in Tasks : Running(t) <=> Open(tasks[t])
  /\ \A i \in DOMAIN runs : Known(runs[i], tasks[runs[i].task])

IInv ==
  /\ Typed /\ Leased /\ RecoveryWaits /\ NoClaimBlocks /\ Listed
  /\ \A t \in Tasks : Sound(tasks[t], disk[t], thread[t], spent[t])
  /\ \A w \in Workers : worker[w].at \in InRun =>
       Carried(worker[w], tasks[worker[w].task], disk[worker[w].task],
               thread[worker[w].task], spent[worker[w].task])
  /\ \A t \in unseen : Resting(tasks[t])

-----------------------------------------------------------------------------
(* What the operators on a task return.                                     *)

(* Only a task's schedule may differ, and nothing is put on it.              *)
Scheduled(task, new) ==
  /\ new \in Task
  /\ new.persistence = task.persistence /\ new.limited = task.limited
  /\ new.attempts = task.attempts /\ new.last_run = task.last_run
  /\ new.tokens_used = task.tokens_used /\ new.usage_uncertain = task.usage_uncertain
  /\ new.recovery = task.recovery /\ new.repairs = task.repairs
  /\ new.enabled => task.enabled
  /\ new.queued => task.queued
  /\ ~(task.auto_paused /\ task.enabled) => ~(new.auto_paused /\ new.enabled)

LEMMA PausedFacts ==
  ASSUME NEW task \in Task
  PROVE  Scheduled(task, Paused(task)) /\ Resting(Paused(task))
BY DEF Task, Paused, Scheduled, Resting

LEMMA PausedIfFacts ==
  ASSUME NEW task \in Task, NEW cond \in BOOLEAN
  PROVE  Scheduled(task, PausedIf(cond, task)) /\ (cond => Resting(PausedIf(cond, task)))
<1>1. Scheduled(task, task)
  BY DEF Scheduled
<1>. QED  BY <1>1, PausedFacts DEF PausedIf

LEMMA ScheduledTwice ==
  ASSUME NEW a, NEW b, NEW c, Scheduled(a, b), Scheduled(b, c)
  PROVE  Scheduled(a, c)
BY DEF Scheduled

(* A failure streak that trips pauses the task in the same step.             *)
LEMMA StreakFacts ==
  ASSUME NEW task \in Task, NEW status \in Statuses
  PROVE  Scheduled(task, Streak(task, status))
<1>. DEFINE more == [task EXCEPT !.failures = @ + 1]
<1>1. Scheduled(task, task)
  BY DEF Scheduled
<1>2. Scheduled(task, [task EXCEPT !.failures = 0, !.auto_paused = FALSE])
  BY DEF Scheduled, Task
<1>3. Scheduled(task, more)
  BY DEF Scheduled, Task
<1>4. Scheduled(more, [Paused(more) EXCEPT !.auto_paused = TRUE])
  BY <1>3 DEF Scheduled, Task, Paused
<1>5. Scheduled(task, [Paused(more) EXCEPT !.auto_paused = TRUE])
  BY <1>3, <1>4, ScheduledTwice
<1>. QED  BY <1>1, <1>2, <1>3, <1>5 DEF Streak

(* The counters of a task after one of its runs.                            *)
Counted(task, run, after) ==
  /\ after \in Task
  /\ after.persistence = task.persistence /\ after.limited = task.limited
  /\ after.attempts = task.attempts /\ after.last_run = run.id
  /\ after.tokens_used = (IF run.usage = None THEN task.tokens_used
                          ELSE task.tokens_used + run.usage)
  /\ after.usage_uncertain <=> task.usage_uncertain \/ (/\ run.usage = None
                                                        /\ ~run.owing
                                                        /\ run.status # "unprepared")
  /\ after.repairs = task.repairs
  /\ after.enabled => task.enabled
  /\ after.queued => task.queued
  /\ ~(task.auto_paused /\ task.enabled) => ~(after.auto_paused /\ after.enabled)

LEMMA ChargedFacts ==
  ASSUME NEW task \in Task, NEW run \in RunRecord
  PROVE  /\ Counted(task, run, Charged(task, run))
         /\ Charged(task, run).recovery = task.recovery
<1>1. run.id \in Nat /\ run.usage \in Nat \cup {None} /\ run.owing \in BOOLEAN
  BY DEF RunRecord, Usage
<1>2. (IF run.usage = None THEN task.tokens_used ELSE task.tokens_used + run.usage) \in Nat
  BY <1>1 DEF Task
<1>. DEFINE tokens    == IF run.usage = None THEN task.tokens_used ELSE task.tokens_used + run.usage
            uncertain == task.usage_uncertain \/ (/\ run.usage = None
                                                  /\ ~run.owing
                                                  /\ run.status # "unprepared")
            after     == Charged(task, run)
<1>3. uncertain \in BOOLEAN
  BY DEF Task
<1>4. after = [task EXCEPT !.last_run = run.id, !.tokens_used = tokens, !.usage_uncertain = uncertain]
  BY DEF Charged
<1>. HIDE DEF tokens, uncertain, after
<1>5. /\ after \in Task
      /\ after.last_run = run.id /\ after.tokens_used = tokens /\ after.usage_uncertain = uncertain
      /\ after.persistence = task.persistence /\ after.limited = task.limited
      /\ after.attempts = task.attempts /\ after.repairs = task.repairs
      /\ after.enabled = task.enabled /\ after.queued = task.queued
      /\ after.auto_paused = task.auto_paused /\ after.recovery = task.recovery
  BY <1>1, <1>2, <1>3, <1>4 DEF Task, tokens
<1>. QED  BY <1>5 DEF Counted, tokens, uncertain, after

LEMMA CountedScheduled ==
  ASSUME NEW task, NEW run, NEW a, NEW b, Counted(task, run, a), Scheduled(a, b)
  PROVE  Counted(task, run, b) /\ b.recovery = a.recovery
BY DEF Counted, Scheduled

(* An outcome counts, and leaves no task scheduled whose budget cannot be     *)
(* checked.                                                                 *)
LEMMA OutcomeFacts ==
  ASSUME NEW task \in Task, NEW run \in RunRecord, run.status \in Statuses
  PROVE  LET after == Outcome(task, run) IN
         /\ Counted(task, run, after)
         /\ after.recovery = task.recovery
         /\ after.limited /\ after.usage_uncertain => Resting(after)
<1>. DEFINE charged == Charged(task, run)
            streak  == Streak(charged, run.status)
            cond    == \/ streak.attempts >= MaxRuns
                       \/ streak.limited /\ (streak.usage_uncertain \/ streak.tokens_used >= TokenBudget)
            after   == Outcome(task, run)
<1>1. Counted(task, run, charged) /\ charged.recovery = task.recovery
  BY ChargedFacts
<1>2. Scheduled(charged, streak)
  <2>1. charged \in Task
    BY <1>1 DEF Counted
  <2>. QED  BY <2>1, StreakFacts
<1>3. cond \in BOOLEAN
  BY <1>2, AgentTasksAssumption DEF Scheduled, Task
<1>4. after = PausedIf(cond, streak)
  BY DEF Outcome
<1>5. Scheduled(streak, after) /\ (cond => Resting(after))
  <2>. HIDE DEF cond, streak, after
  <2>1. streak \in Task
    BY <1>2 DEF Scheduled
  <2>. QED  BY <1>3, <1>4, <2>1, PausedIfFacts
<1>6. Scheduled(charged, after)
  BY <1>2, <1>5, ScheduledTwice
<1>7. after.limited /\ after.usage_uncertain => Resting(after)
  <2>1. after.limited /\ after.usage_uncertain => cond
    BY <1>5 DEF Scheduled
  <2>. QED  BY <1>5, <2>1
<1>. HIDE DEF cond, streak, charged
<1>. QED  BY <1>1, <1>6, <1>7, CountedScheduled

-----------------------------------------------------------------------------
(* Receipts and contexts.                                                   *)

(* How far a record gets.                                                   *)
LEMMA RecordedFacts ==
  ASSUME Typed, NEW t \in Tasks, NEW d \in Files, NEW id \in Nat, NEW result \in Report,
         NEW reach \in Reach
  PROVE  LET e == Recorded(t, d, id, result, reach) IN
         /\ e \in Files
         /\ reach = "nothing" => e = d
         /\ reach # "nothing" => e.receipt.id = id /\ e.receipt.result = result
         /\ reach # "all" \/ tasks[t].persistence = "fresh" => e.context = d.context
         /\ reach = "all" /\ tasks[t].persistence # "fresh" =>
              /\ e.context.last_run = id
              /\ e.context.checkpoint = (IF result.report THEN id ELSE d.context.checkpoint)
              /\ e.context.session <=>
                   d.context.session \/ (tasks[t].persistence = "conversation" /\ result.session)
              /\ e.context.total = (IF tasks[t].persistence = "conversation" /\ result.session
                                    THEN result.total ELSE None)
<1>1. ContextAfter(t, d.context, id, result) \in Context
  BY DEF ContextAfter, Context, Files, Report, Usage
<1>2. [id |-> id, result |-> result] \in [id : Nat, result : Report]
  OBVIOUS
<1>. QED  BY <1>1, <1>2 DEF Recorded, ContextAfter, Reach, Files

(* Recording the newest attempt keeps a task sound, however far it gets, if   *)
(* its claim is open or its receipt is only written again.                   *)
LEMMA RecordSound ==
  ASSUME Typed, NEW t \in Tasks, NEW task \in Task, task.persistence = tasks[t].persistence,
         NEW d \in Files, NEW metered \in Nat, NEW used \in Nat,
         NEW result \in Report, NEW reach \in Reach,
         Sound(task, d, metered, used),
         \/ Open(task) /\ DueFor(task, used, result)
                       /\ (result.total # None => result.total = metered)
         \/ Pending(task) /\ d.receipt.id = task.attempts,
         d.receipt.id = task.attempts => d.receipt.result = result
  PROVE  LET e == Recorded(t, d, task.attempts, result, reach) IN
         /\ e \in Files
         /\ Sound(task, e, metered, used)
         /\ reach # "nothing" => e.receipt.id = task.attempts /\ e.receipt.result = result
         /\ reach = "all" /\ task.persistence # "fresh" /\ task.attempts # 0 =>
              Agrees(e, task.attempts)
<1>. DEFINE e == Recorded(t, d, task.attempts, result, reach)
<1>1. /\ task.attempts \in Nat /\ task.last_run \in Nat /\ d.receipt.id \in Nat
      /\ d.context.last_run \in Nat /\ d.context.checkpoint \in Nat
      /\ result.report \in BOOLEAN /\ result.session \in BOOLEAN /\ d.context.session \in BOOLEAN
  BY DEF Task, Files, Context, Report
<1>2. /\ e \in Files
      /\ reach = "nothing" => e = d
      /\ reach # "nothing" => e.receipt.id = task.attempts /\ e.receipt.result = result
      /\ reach # "all" \/ task.persistence = "fresh" => e.context = d.context
      /\ reach = "all" /\ task.persistence # "fresh" =>
           /\ e.context.last_run = task.attempts
           /\ e.context.checkpoint = (IF result.report THEN task.attempts ELSE d.context.checkpoint)
           /\ e.context.session <=>
                d.context.session \/ (task.persistence = "conversation" /\ result.session)
           /\ e.context.total = (IF task.persistence = "conversation" /\ result.session
                                 THEN result.total ELSE None)
  <2>1. ASSUME NEW id \in Nat
        PROVE  LET f == Recorded(t, d, id, result, reach) IN
               /\ f \in Files
               /\ reach = "nothing" => f = d
               /\ reach # "nothing" => f.receipt.id = id /\ f.receipt.result = result
               /\ reach # "all" \/ tasks[t].persistence = "fresh" => f.context = d.context
               /\ reach = "all" /\ tasks[t].persistence # "fresh" =>
                    /\ f.context.last_run = id
                    /\ f.context.checkpoint = (IF result.report THEN id ELSE d.context.checkpoint)
                    /\ f.context.session <=>
                         d.context.session \/ (tasks[t].persistence = "conversation" /\ result.session)
                    /\ f.context.total = (IF tasks[t].persistence = "conversation" /\ result.session
                                          THEN result.total ELSE None)
    BY RecordedFacts
  <2>. QED  BY <1>1, <2>1
<1>. HIDE DEF e
<1>3. /\ d.receipt.id = task.attempts => e.receipt.id = d.receipt.id /\ e.receipt.result = d.receipt.result
      /\ e.receipt.id \in {d.receipt.id, task.attempts}
      /\ e.receipt.id = task.attempts => \/ d.receipt.id = task.attempts
                                         \/ e.receipt.result = result /\ Open(task)
  BY <1>2
<1>4. Numbers(task, e)
  BY <1>1, <1>2, <1>3 DEF Sound, Numbers
<1>5. Settings(task, e)
  <2>1. Pending(task) => ~Open(task)
    BY DEF Sound, Settings
  <2>2. task.recovery = "pending" /\ e.receipt.id = task.last_run =>
          d.receipt.id = task.last_run /\ e.receipt.result = d.receipt.result
    BY <1>3, <2>1 DEF Pending, Open
  <2>. QED  BY <2>2 DEF Sound, Settings
<1>6. e.receipt.id = task.attempts /\ e.receipt.result.total # None => e.receipt.result.total = metered
  BY <1>3 DEF Sound, Meters
<1>7. Meters(task, e, metered)
  <2>1. Meters(task, d, metered)
    BY DEF Sound
  <2>2. CASE reach = "all" /\ task.persistence # "fresh"
    BY <1>2, <1>6, <2>1, <2>2 DEF Meters
  <2>3. CASE ~(reach = "all" /\ task.persistence # "fresh")
    BY <1>2, <1>6, <2>1, <2>3 DEF Meters
  <2>. QED  BY <2>2, <2>3
<1>8. Accounts(task, e, used)
  <2>1. Accounts(task, d, used)
    BY DEF Sound
  <2>2. ASSUME Open(task) \/ task.recovery = "accounting", e.receipt.id = task.attempts
        PROVE  DueFor(task, used, e.receipt.result)
    <3>1. CASE d.receipt.id = task.attempts
      BY <1>3, <2>1, <2>2, <3>1 DEF Accounts
    <3>2. CASE d.receipt.id # task.attempts
      BY <1>3, <2>2, <3>2
    <3>. QED  BY <3>1, <3>2
  <2>. QED  BY <2>1, <2>2 DEF Accounts
<1>9. ASSUME reach = "all", task.persistence # "fresh", task.attempts # 0 PROVE Agrees(e, task.attempts)
  <2>1. d.context.checkpoint = task.attempts => d.receipt.result.report /\ d.receipt.id = task.attempts
    BY <1>1, <1>9 DEF Sound, Numbers, Records
  <2>2. ~result.report => d.context.checkpoint # task.attempts
    BY <2>1
  <2>. QED  BY <1>1, <1>2, <1>9, <2>2 DEF Agrees
<1>10. Records(task, e)
  <2>1. Open(task) \/ Pending(task)
    OBVIOUS
  <2>2. Records(task, d) /\ Numbers(task, d)
    BY DEF Sound
  <2>3. CASE reach = "all" /\ task.persistence # "fresh"
    BY <1>1, <1>2, <1>9, <2>1, <2>3 DEF Records, Agrees
  <2>4. CASE ~(reach = "all" /\ task.persistence # "fresh")
    <3>1. e.context = d.context
      BY <1>2, <2>4
    <3>2. d.context.checkpoint = task.attempts /\ d.context.checkpoint # 0 => d.receipt.id = task.attempts
      BY <1>1, <2>2 DEF Numbers, Records
    <3>. QED  BY <1>3, <2>1, <2>2, <3>1, <3>2 DEF Records
  <2>. QED  BY <2>3, <2>4
<1>. QED  BY <1>2, <1>4, <1>5, <1>7, <1>8, <1>9, <1>10 DEF Sound, e

-----------------------------------------------------------------------------
(* Recoveries.                                                              *)

LEMMA ReconciledTaskFacts ==
  ASSUME NEW task \in Task, NEW d \in Files, NEW reach
  PROVE  LET new == ReconciledTask(task, d, reach) IN
         /\ ~Reconcilable(task, d, reach) => new = task
         /\ new \in Task
         /\ new.persistence = task.persistence /\ new.limited = task.limited
         /\ new.attempts = task.attempts /\ new.last_run = task.last_run
         /\ new.repairs = task.repairs
         /\ new.enabled = task.enabled /\ new.queued = task.queued
         /\ new.auto_paused = task.auto_paused
         /\ Reconcilable(task, d, reach) =>
              /\ new.recovery = "reconciled"
              /\ task.recovery = "pending" =>
                   new.tokens_used = task.tokens_used /\ new.usage_uncertain = task.usage_uncertain
              /\ task.recovery = "accounting" =>
                   /\ ~Addable(task, d.receipt.result.usage) =>
                        new.tokens_used = task.tokens_used /\ new.usage_uncertain
                   /\ Addable(task, d.receipt.result.usage) =>
                        /\ new.tokens_used = task.tokens_used + d.receipt.result.usage
                        /\ new.usage_uncertain = task.usage_uncertain
<1>1. d.receipt.result.usage \in Nat \cup {None}
  BY DEF Files, Report, Usage
<1>2. CASE ~Reconcilable(task, d, reach)
  BY <1>2 DEF ReconciledTask
<1>3. CASE Reconcilable(task, d, reach) /\ task.recovery = "accounting"
  <2>. DEFINE adds      == Addable(task, d.receipt.result.usage)
              tokens    == IF adds THEN task.tokens_used + d.receipt.result.usage
                           ELSE task.tokens_used
              uncertain == task.usage_uncertain \/ ~adds
  <2>1. tokens \in Nat /\ uncertain \in BOOLEAN
    BY <1>1 DEF Task, Addable
  <2>2. ReconciledTask(task, d, reach) =
          [task EXCEPT !.recovery = "reconciled", !.tokens_used = tokens, !.usage_uncertain = uncertain]
    BY <1>3 DEF ReconciledTask
  <2>3. /\ ~adds => tokens = task.tokens_used /\ uncertain
        /\ adds => tokens = task.tokens_used + d.receipt.result.usage /\ uncertain = task.usage_uncertain
    BY DEF Task
  <2>. DEFINE new == ReconciledTask(task, d, reach)
  <2>. HIDE DEF tokens, uncertain
  <2>4. /\ new \in Task
        /\ new.recovery = "reconciled" /\ new.tokens_used = tokens /\ new.usage_uncertain = uncertain
    BY <2>1, <2>2 DEF Task
  <2>5. /\ new.persistence = task.persistence /\ new.limited = task.limited
        /\ new.attempts = task.attempts /\ new.last_run = task.last_run
        /\ new.repairs = task.repairs
        /\ new.enabled = task.enabled /\ new.queued = task.queued
        /\ new.auto_paused = task.auto_paused
    BY <2>2 DEF Task
  <2>. HIDE DEF new, adds
  <2>. QED  BY <1>3, <2>3, <2>4, <2>5 DEF new, adds
<1>4. CASE Reconcilable(task, d, reach) /\ task.recovery # "accounting"
  <2>1. ReconciledTask(task, d, reach) = [task EXCEPT !.recovery = "reconciled"]
    BY <1>4 DEF ReconciledTask
  <2>. QED  BY <1>4, <2>1 DEF Task
<1>. QED  BY <1>2, <1>3, <1>4

(* A recovery writes nothing but what the last receipt says already.         *)
LEMMA ReconciledDiskFacts ==
  ASSUME Typed, NEW t \in Tasks, NEW task \in Task, task.persistence = tasks[t].persistence,
         NEW d \in Files, NEW metered \in Nat, NEW used \in Nat, NEW reach \in Reach,
         Sound(task, d, metered, used)
  PROVE  LET e == ReconciledDisk(t, task, d, reach) IN
         /\ e \in Files
         /\ Sound(task, e, metered, used)
         /\ e.receipt = d.receipt
         /\ ~Pending(task) => e = d
         /\ Reconcilable(task, d, reach) /\ task.persistence # "fresh" /\ e.context.last_run # 0 =>
              Agrees(e, task.last_run)
<1>. DEFINE e == ReconciledDisk(t, task, d, reach)
<1>1. /\ task.attempts \in Nat /\ task.last_run \in Nat /\ d.receipt.id \in Nat
      /\ d.receipt.result \in Report /\ d.receipt.result.report \in BOOLEAN
      /\ d.context.last_run \in Nat /\ d.context.checkpoint \in Nat
  BY DEF Task, Files, Context, Report
<1>2. Pending(task) => task.last_run = task.attempts
  BY DEF Sound, Settings, Open
<1>3. CASE Pending(task) /\ d.receipt.id = task.last_run /\ Lacking(t, d, task.last_run)
  <2>1. e = Recorded(t, d, task.attempts, d.receipt.result, reach)
    BY <1>2, <1>3 DEF ReconciledDisk
  <2>2. /\ e \in Files /\ Sound(task, e, metered, used)
        /\ reach # "nothing" => e.receipt.id = task.attempts /\ e.receipt.result = d.receipt.result
        /\ reach = "all" /\ task.persistence # "fresh" /\ task.attempts # 0 => Agrees(e, task.attempts)
    <3>. HIDE DEF e
    <3>. QED  BY <1>1, <1>2, <1>3, <2>1, RecordSound
  <2>3. reach = "nothing" => e = d
    BY <2>1 DEF Recorded, Files
  <2>4. e.receipt = d.receipt
    <3>. HIDE DEF e
    <3>1. e.receipt.id = d.receipt.id /\ e.receipt.result = d.receipt.result
      BY <1>2, <1>3, <2>2, <2>3
    <3>. QED  BY <2>2, <3>1 DEF Files
  <2>5. ASSUME Reconcilable(task, d, reach), task.persistence # "fresh", e.context.last_run # 0
        PROVE  Agrees(e, task.last_run)
    <3>1. e.context.last_run \in Nat /\ e.context.last_run <= task.attempts
      BY <2>2 DEF Sound, Numbers, Files, Context
    <3>2. task.attempts # 0
      BY <1>1, <2>5, <3>1
    <3>. HIDE DEF e
    <3>. QED  BY <1>2, <1>3, <2>2, <2>5, <3>2 DEF Reconcilable
  <2>. QED  BY <1>3, <2>2, <2>4, <2>5
<1>4. CASE ~(Pending(task) /\ d.receipt.id = task.last_run /\ Lacking(t, d, task.last_run))
  <2>1. e = d
    BY <1>4 DEF ReconciledDisk
  <2>2. ASSUME Reconcilable(task, d, reach), task.persistence # "fresh", d.context.last_run # 0
        PROVE  Agrees(d, task.last_run)
    <3>1. ~Lacking(t, d, task.last_run) /\ d.receipt.id = task.last_run /\ task.last_run = task.attempts
      BY <1>2, <1>4, <2>2 DEF Reconcilable
    <3>2. /\ d.context.last_run = task.last_run
          /\ d.receipt.result.report => d.context.checkpoint = task.last_run
          /\ task.persistence = "conversation" => d.context.total = d.receipt.result.total
      BY <2>2, <3>1 DEF Lacking
    <3>3. d.context.checkpoint = task.last_run => d.receipt.result.report
      BY <2>2, <3>1, <3>2 DEF Sound, Records
    <3>4. d.context.total # None => d.context.total = d.receipt.result.total
      BY <3>2 DEF Sound, Meters
    <3>. QED  BY <1>1, <3>1, <3>2, <3>3, <3>4 DEF Agrees
  <2>. QED  BY <2>1, <2>2
<1>. QED  BY <1>3, <1>4

(* A recovered task is sound again, and its run is charged by then.          *)
LEMMA ReconcileSound ==
  ASSUME Typed, NEW t \in Tasks, NEW task \in Task, task.persistence = tasks[t].persistence,
         NEW d \in Files, NEW metered \in Nat, NEW used \in Nat, NEW reach \in Reach,
         Sound(task, d, metered, used)
  PROVE  Sound(ReconciledTask(task, d, reach), ReconciledDisk(t, task, d, reach), metered, used)
<1>. DEFINE e   == ReconciledDisk(t, task, d, reach)
            new == ReconciledTask(task, d, reach)
<1>1. /\ e \in Files /\ Sound(task, e, metered, used) /\ e.receipt = d.receipt
      /\ Reconcilable(task, d, reach) /\ task.persistence # "fresh" /\ e.context.last_run # 0 =>
           Agrees(e, task.last_run)
  BY ReconciledDiskFacts
<1>2. CASE ~Reconcilable(task, d, reach)
  BY <1>1, <1>2, ReconciledTaskFacts
<1>3. CASE Reconcilable(task, d, reach)
  <2>1. Pending(task) /\ d.receipt.id = task.last_run /\ ~Open(task) /\ task.last_run = task.attempts
    BY <1>3 DEF Reconcilable, Sound, Settings, Open
  <2>2. /\ new \in Task
        /\ new.persistence = task.persistence /\ new.limited = task.limited
        /\ new.attempts = task.attempts /\ new.last_run = task.last_run
        /\ new.repairs = task.repairs
        /\ new.enabled = task.enabled /\ new.queued = task.queued
        /\ new.auto_paused = task.auto_paused /\ new.recovery = "reconciled"
        /\ task.recovery = "pending" =>
             new.tokens_used = task.tokens_used /\ new.usage_uncertain = task.usage_uncertain
        /\ task.recovery = "accounting" =>
             /\ ~Addable(task, d.receipt.result.usage) =>
                  new.tokens_used = task.tokens_used /\ new.usage_uncertain
             /\ Addable(task, d.receipt.result.usage) =>
                  /\ d.receipt.result.usage # None
                  /\ new.tokens_used = task.tokens_used + d.receipt.result.usage
                  /\ new.usage_uncertain = task.usage_uncertain
    BY <1>3, ReconciledTaskFacts DEF Addable
  <2>. HIDE DEF e, new
  <2>3. Numbers(new, e) /\ Meters(new, e, metered)
    BY <1>1, <2>2 DEF Sound, Numbers, Meters
  <2>4. Settings(new, e)
    BY <1>1, <2>1, <2>2 DEF Sound, Settings, Pending, Resting, Open
  <2>5. Accounts(new, e, used)
    <3>1. CASE task.recovery = "pending"
      BY <1>1, <2>1, <2>2, <3>1 DEF Sound, Accounts, Open
    <3>2. CASE task.recovery = "accounting"
      <4>1. DueFor(task, used, d.receipt.result) /\ (task.repairs = {} => task.tokens_used <= used)
        BY <2>1, <3>2 DEF Sound, Accounts
      <4>. QED  BY <2>1, <2>2, <3>2, <4>1 DEF Accounts, DueFor, Due, Open
    <3>. QED  BY <2>1, <3>1, <3>2 DEF Pending
  <2>6. Records(new, e)
    BY <1>1, <1>3, <2>1, <2>2 DEF Sound, Records, Pending, Open
  <2>. QED  BY <2>3, <2>4, <2>5, <2>6 DEF Sound, e, new
<1>. QED  BY <1>2, <1>3

(* A run whose receipt has told its usage.                                  *)
Told(run, usage) == [run EXCEPT !.usage = usage, !.owing = FALSE]

LEMMA ToldFacts ==
  ASSUME NEW run \in RunRecord, NEW usage \in Usage
  PROVE  /\ Told(run, usage) \in RunRecord
         /\ Told(run, usage).task = run.task /\ Told(run, usage).id = run.id
         /\ Told(run, usage).status = run.status
         /\ Told(run, usage).usage = usage /\ ~Told(run, usage).owing
BY DEF Told, RunRecord

(* What the hot records say of a recovered task's runs.                      *)
LEMMA ReconcileKnown ==
  ASSUME NEW task \in Task, NEW d \in Files, NEW reach, NEW metered, NEW used,
         Sound(task, d, metered, used), Reconcilable(task, d, reach),
         NEW run \in RunRecord, Known(run, task)
  PROVE  LET new == ReconciledTask(task, d, reach) IN
         /\ run.id # task.last_run => Known(run, new)
         /\ run.id = task.last_run =>
              Known(Told(run, d.receipt.result.usage), new)
<1>. DEFINE new == ReconciledTask(task, d, reach)
            told == Told(run, d.receipt.result.usage)
<1>1. /\ new.attempts = task.attempts /\ new.last_run = task.last_run /\ new.repairs = task.repairs
      /\ task.recovery = "pending" => new.usage_uncertain = task.usage_uncertain
      /\ task.recovery = "accounting" /\ d.receipt.result.usage = None => new.usage_uncertain
  BY ReconciledTaskFacts DEF Addable
<1>2. Pending(task) /\ d.receipt.id = task.last_run /\ ~Open(task)
  BY DEF Reconcilable, Sound, Settings
<1>3. /\ told.id = run.id /\ told.status = run.status /\ ~told.owing
      /\ told.usage = d.receipt.result.usage
  BY ToldFacts DEF Files, Report
<1>. HIDE DEF new, told
<1>4. run.id # task.last_run => Known(run, new)
  BY <1>1 DEF Known, Open
<1>5. ASSUME run.id = task.last_run PROVE Known(told, new)
  <2>1. run.status # "running"
    BY <1>2, <1>5 DEF Known
  <2>2. d.receipt.result.usage = None => new.usage_uncertain \/ run.id \in task.repairs
    BY <1>1, <1>2, <1>5 DEF Pending, Sound, Settings
  <2>. QED  BY <1>1, <1>3, <1>5, <2>1, <2>2 DEF Known
<1>. QED  BY <1>4, <1>5 DEF new, told

-----------------------------------------------------------------------------
(* The end of a claim.                                                      *)

(* The task, its files and its run agree once the claim is settled.  Either  *)
(* everything was recorded, or the task rests with a pending recovery, or it  *)
(* rests and still owes the usage that its receipt may tell.                  *)
LEMMA CloseSound ==
  ASSUME NEW task \in Task, NEW d \in Files, NEW metered \in Nat, NEW used \in Nat,
         Sound(task, d, metered, used), Open(task),
         NEW run \in RunRecord, run.status \in Statuses, run.id = task.attempts,
         NEW after, Counted(task, run, after),
         after.limited /\ after.usage_uncertain => Resting(after),
         \/ /\ after.recovery = task.recovery /\ ~run.owing
            /\ d.receipt.id = task.attempts
            /\ run.usage = d.receipt.result.usage /\ run.status = d.receipt.result.status
            /\ task.persistence # "fresh" => Agrees(d, task.attempts)
         \/ /\ after.recovery = "pending" /\ Resting(after) /\ ~run.owing
            /\ run.status = "failed"
            /\ run.usage # None => Due(task, used, run.usage)
            /\ d.receipt.id = task.attempts => run.usage = d.receipt.result.usage
         \/ /\ after.recovery = "accounting" /\ Resting(after)
            /\ run.owing /\ run.usage = None
  PROVE  Sound(after, d, metered, used) /\ Known(run, after) /\ ~Open(after)
<1>1. /\ after.persistence = task.persistence
      /\ after.attempts = task.attempts /\ after.last_run = task.attempts
      /\ after.tokens_used = (IF run.usage = None THEN task.tokens_used
                              ELSE task.tokens_used + run.usage)
      /\ after.usage_uncertain <=> task.usage_uncertain \/ (/\ run.usage = None
                                                            /\ ~run.owing
                                                            /\ run.status # "unprepared")
      /\ after.repairs = task.repairs
      /\ after.enabled => task.enabled
      /\ after.queued => task.queued
      /\ ~(task.auto_paused /\ task.enabled) => ~(after.auto_paused /\ after.enabled)
  BY DEF Counted
<1>2. /\ task.attempts \in Nat /\ task.last_run \in Nat /\ task.tokens_used \in Nat
      /\ run.usage \in Nat \cup {None} /\ d.receipt.result.usage \in Nat \cup {None}
      /\ d.context.last_run \in Nat /\ d.receipt.id \in Nat
  BY DEF Task, RunRecord, Files, Report, Context, Usage
<1>3. task.recovery \notin {"pending", "accounting"} /\ ~Pending(task)
  BY DEF Sound, Settings, Pending
<1>4. ~Open(after)
  BY <1>1 DEF Open
<1>5. Numbers(after, d)
  BY <1>1, <1>2 DEF Sound, Numbers
<1>6. Settings(after, d)
  <2>1. after.recovery = "pending" /\ d.receipt.id = after.last_run /\ d.receipt.result.usage = None =>
          after.usage_uncertain
    BY <1>1, <1>3
  <2>2. Pending(after) => Resting(after)
    BY <1>3 DEF Pending
  <2>. QED  BY <1>1, <1>4, <2>1, <2>2 DEF Sound, Settings
<1>7. Meters(after, d, metered)
  BY <1>1 DEF Sound, Meters
<1>8. Accounts(after, d, used)
  <2>1. /\ task.repairs = {} => task.tokens_used <= used
        /\ d.receipt.id = task.attempts => DueFor(task, used, d.receipt.result)
    BY DEF Sound, Accounts
  <2>2. run.usage # None => Due(task, used, run.usage)
    BY <1>2, <1>3, <2>1 DEF DueFor
  <2>3. after.repairs = {} => after.tokens_used <= used
    BY <1>1, <1>2, <2>1, <2>2 DEF Due
  <2>4. ~after.usage_uncertain /\ after.recovery # "accounting" => used <= after.tokens_used
    BY <1>1, <1>2, <1>3, <2>1, <2>2 DEF Due, DueFor
  <2>5. after.recovery = "accounting" /\ d.receipt.id = after.attempts =>
          DueFor(after, used, d.receipt.result)
    BY <1>1, <1>3, <2>1 DEF Due, DueFor
  <2>. QED  BY <1>4, <2>3, <2>4, <2>5 DEF Accounts
<1>9. Records(after, d)
  <2>1. task.persistence # "fresh" /\ ~Pending(after) => Agrees(d, after.last_run)
    BY <1>1 DEF Pending
  <2>. QED  BY <1>1, <2>1 DEF Sound, Records
<1>10. Known(run, after)
  BY <1>1, <1>2, <1>3, <1>4 DEF Known, RunRecord, Statuses
<1>. QED  BY <1>4, <1>5, <1>6, <1>7, <1>8, <1>9, <1>10 DEF Sound

(* The older runs of the task are no longer its last.                        *)
LEMMA OlderKnown ==
  ASSUME NEW task \in Task, Open(task), task.attempts >= task.last_run,
         NEW run \in RunRecord, run.status # "running", Known(run, task),
         NEW after, after.last_run = task.attempts
  PROVE  Known(run, after)
<1>1. run.id \in Nat /\ task.attempts \in Nat /\ task.last_run \in Nat
  BY DEF RunRecord, Task
<1>2. run.id < after.last_run
  BY <1>1 DEF Known, Open
<1>. QED  BY <1>1, <1>2 DEF Known

-----------------------------------------------------------------------------
(* An operator's change to a task.  Usage becomes uncertain, or is replaced   *)
(* by a total that covers it, only while no claim is open.                   *)
Adjusts(task, new, used) ==
  /\ new \in Task
  /\ new.persistence = task.persistence /\ new.recovery = task.recovery
  /\ new.attempts = task.attempts /\ new.last_run = task.last_run
  /\ ~(new.auto_paused /\ new.enabled)
  /\ Pending(task) => Resting(new)
  /\ new.limited /\ new.usage_uncertain => Resting(new)
  /\ \/ /\ new.tokens_used = task.tokens_used /\ new.repairs = task.repairs
        /\ \/ new.usage_uncertain = task.usage_uncertain
           \/ ~Open(task) /\ new.usage_uncertain
     \/ /\ ~Open(task) /\ new.repairs = task.repairs \cup {task.last_run}
        /\ new.tokens_used >= used /\ new.tokens_used >= task.tokens_used

LEMMA AdjustSound ==
  ASSUME NEW task \in Task, NEW d \in Files, NEW metered \in Nat, NEW used \in Nat,
         Sound(task, d, metered, used), NEW new, Adjusts(task, new, used)
  PROVE  /\ Sound(new, d, metered, used)
         /\ Open(new) <=> Open(task)
         /\ \A run \in RunRecord : Known(run, task) => Known(run, new)
<1>1. Pending(new) <=> Pending(task)
  BY DEF Adjusts, Pending
<1>2. Open(new) <=> Open(task)
  BY DEF Adjusts, Open
<1>3. Numbers(new, d) /\ Meters(new, d, metered)
  BY DEF Sound, Numbers, Meters, Adjusts
<1>4. Settings(new, d)
  BY <1>1, <1>2 DEF Sound, Settings, Adjusts
<1>5. Accounts(new, d, used)
  <2>1. /\ task.tokens_used \in Nat /\ new.tokens_used \in Nat
        /\ d.receipt.result.usage \in Nat \cup {None}
    BY DEF Adjusts, Task, Files, Report, Usage
  <2>2. Accounts(task, d, used) /\ new.recovery = task.recovery /\ new.attempts = task.attempts
    BY DEF Sound, Adjusts
  <2>3. CASE /\ new.tokens_used = task.tokens_used /\ new.repairs = task.repairs
             /\ new.usage_uncertain = task.usage_uncertain \/ (~Open(task) /\ new.usage_uncertain)
    <3>1. DueFor(task, used, d.receipt.result) => DueFor(new, used, d.receipt.result)
      BY <2>3 DEF DueFor, Due, Adjusts, Task
    <3>. QED  BY <1>2, <2>2, <2>3, <3>1 DEF Accounts, Adjusts, Task
  <2>4. CASE /\ ~Open(task) /\ new.repairs = task.repairs \cup {task.last_run}
             /\ new.tokens_used >= used /\ new.tokens_used >= task.tokens_used
    <3>1. new.repairs # {}
      BY <2>4
    <3>2. DueFor(new, used, d.receipt.result)
      BY <2>1, <2>4, <3>1 DEF DueFor, Due
    <3>. QED  BY <2>1, <2>4, <3>1, <3>2 DEF Accounts
  <2>. QED  BY <2>3, <2>4 DEF Adjusts
<1>6. Records(new, d)
  BY <1>1, <1>2 DEF Sound, Records, Adjusts
<1>7. ASSUME NEW run \in RunRecord, Known(run, task) PROVE Known(run, new)
  BY <1>2, <1>7 DEF Known, Adjusts
<1>. QED  BY <1>2, <1>3, <1>4, <1>5, <1>6, <1>7 DEF Sound

LEMMA AdjustCarried ==
  ASSUME NEW p, NEW task \in Task, NEW d \in Files, NEW metered, NEW used, NEW new,
         Adjusts(task, new, used), Open(task), Carried(p, task, d, metered, used)
  PROVE  Carried(p, new, d, metered, used)
<1>1. /\ new.attempts = task.attempts /\ new.last_run = task.last_run
      /\ new.tokens_used = task.tokens_used /\ new.repairs = task.repairs
      /\ new.usage_uncertain = task.usage_uncertain
  BY DEF Adjusts
<1>2. \A usage : Due(new, used, usage) <=> Due(task, used, usage)
  BY <1>1 DEF Due
<1>3. \A result : DueFor(new, used, result) <=> DueFor(task, used, result)
  BY <1>1, <1>2 DEF DueFor
<1>. QED  BY <1>1, <1>2, <1>3 DEF Carried

-----------------------------------------------------------------------------
(* The list of runs.                                                        *)

LEMMA MappedRuns ==
  ASSUME NEW rs \in Seq(RunRecord), NEW new \in [DOMAIN rs -> RunRecord]
  PROVE  new \in Seq(RunRecord) /\ Len(new) = Len(rs) /\ DOMAIN new = DOMAIN rs
<1>1. Len(rs) \in Nat /\ DOMAIN rs = 1 .. Len(rs)
  BY LenProperties
<1>2. new \in Seq(RunRecord)
  BY <1>1, SeqDef
<1>3. Len(new) \in Nat /\ DOMAIN new = 1 .. Len(new)
  BY <1>2, LenProperties
<1>4. DOMAIN new = DOMAIN rs
  OBVIOUS
<1>5. 1 .. Len(new) = 1 .. Len(rs)
  BY <1>1, <1>3, <1>4
<1>. QED  BY <1>1, <1>2, <1>3, <1>5

LEMMA RunTypes ==
  ASSUME Typed
  PROVE  /\ DOMAIN runs = 1 .. Len(runs) /\ Len(runs) \in Nat
         /\ \A i \in DOMAIN runs : runs[i] \in RunRecord /\ runs[i].task \in Tasks
<1>1. runs \in Seq(RunRecord)
  BY DEF Typed
<1>2. DOMAIN runs = 1 .. Len(runs) /\ Len(runs) \in Nat
  BY <1>1, LenProperties
<1>3. \A i \in DOMAIN runs : runs[i] \in RunRecord
  BY <1>1, <1>2, ElementOfSeq
<1>4. \A i \in DOMAIN runs : runs[i].task \in Tasks
  BY <1>3 DEF RunRecord
<1>. QED  BY <1>2, <1>3, <1>4

LEMMA ReconciledRunsFacts ==
  ASSUME NEW rs \in Seq(RunRecord), NEW ts \in SUBSET Tasks, NEW saved \in [Tasks -> Task],
         NEW d \in [Tasks -> Files]
  PROVE  LET new == ReconciledRuns(rs, ts, saved, d) IN
         /\ new \in Seq(RunRecord) /\ Len(new) = Len(rs) /\ DOMAIN new = DOMAIN rs
         /\ \A i \in DOMAIN rs :
              /\ new[i] = (IF rs[i].task \in ts /\ rs[i].id = saved[rs[i].task].last_run
                           THEN Told(rs[i], d[rs[i].task].receipt.result.usage)
                           ELSE rs[i])
              /\ new[i].task = rs[i].task /\ new[i].id = rs[i].id /\ new[i].status = rs[i].status
<1>. DEFINE new == ReconciledRuns(rs, ts, saved, d)
<1>1. \A i \in DOMAIN rs : rs[i] \in RunRecord
  BY LenProperties, ElementOfSeq
<1>2. \A t \in Tasks : d[t].receipt.result.usage \in Usage
  BY DEF Files, Report
<1>3. \A i \in DOMAIN rs :
        new[i] = (IF rs[i].task \in ts /\ rs[i].id = saved[rs[i].task].last_run
                  THEN Told(rs[i], d[rs[i].task].receipt.result.usage)
                  ELSE rs[i])
  BY DEF ReconciledRuns, Told
<1>4. new = [i \in DOMAIN rs |-> new[i]]
  BY DEF ReconciledRuns
<1>. HIDE DEF new
<1>5. \A i \in DOMAIN rs :
        /\ new[i] \in RunRecord
        /\ new[i].task = rs[i].task /\ new[i].id = rs[i].id /\ new[i].status = rs[i].status
  <2>. TAKE i \in DOMAIN rs
  <2>1. CASE rs[i].task \in ts /\ rs[i].id = saved[rs[i].task].last_run
    <3>1. new[i] = Told(rs[i], d[rs[i].task].receipt.result.usage)
      BY <1>3, <2>1
    <3>. QED  BY <1>1, <1>2, <2>1, <3>1, ToldFacts
  <2>2. CASE ~(rs[i].task \in ts /\ rs[i].id = saved[rs[i].task].last_run)
    BY <1>1, <1>3, <2>2
  <2>. QED  BY <2>1, <2>2
<1>6. new \in [DOMAIN rs -> RunRecord]
  BY <1>4, <1>5
<1>7. new \in Seq(RunRecord) /\ Len(new) = Len(rs) /\ DOMAIN new = DOMAIN rs
  BY <1>6, MappedRuns
<1>. QED  BY <1>3, <1>5, <1>7 DEF new

LEMMA ReconciledHotRuns ==
  ASSUME Typed, NEW t \in Tasks
  PROVE  LET new == ReconciledRuns(runs, {t}, tasks, disk) IN
         /\ new \in Seq(RunRecord) /\ Len(new) = Len(runs) /\ DOMAIN new = DOMAIN runs
         /\ \A i \in DOMAIN runs :
              /\ new[i] = (IF runs[i].task \in {t} /\ runs[i].id = tasks[runs[i].task].last_run
                           THEN Told(runs[i], disk[runs[i].task].receipt.result.usage)
                           ELSE runs[i])
              /\ new[i].task = runs[i].task /\ new[i].id = runs[i].id /\ new[i].status = runs[i].status
<1>1. /\ runs \in Seq(RunRecord) /\ {t} \in SUBSET Tasks
      /\ tasks \in [Tasks -> Task] /\ disk \in [Tasks -> Files]
  BY DEF Typed
<1>. QED  BY <1>1, ReconciledRunsFacts

(* The open claim is untouched where tasks and statuses are.                *)
LEMMA SameClaims ==
  ASSUME DOMAIN runs' = DOMAIN runs,
         \A i \in DOMAIN runs : runs'[i].task = runs[i].task /\ runs'[i].status = runs[i].status
  PROVE  Claims' = Claims /\ \A t : Running(t)' <=> Running(t)
BY DEF Claims, Running

LEMMA SameLease ==
  ASSUME Leased, RecoveryWaits, NoClaimBlocks, UNCHANGED <<worker, holders, provider>>,
         Claims' = Claims, \A t : Running(t)' <=> Running(t)
  PROVE  Leased' /\ RecoveryWaits' /\ NoClaimBlocks'
BY DEF Leased, RecoveryWaits, NoClaimBlocks

(* A worker in a run has an open claim, and its task is a task.              *)
LEMMA InHand ==
  ASSUME IInv, NEW w \in Workers, worker[w].at \in InRun
  PROVE  LET t == worker[w].task IN
         /\ t \in Tasks /\ Running(t) /\ Open(tasks[t])
         /\ tasks[t] \in Task /\ disk[t] \in Files /\ thread[t] \in Nat /\ spent[t] \in Nat
         /\ Sound(tasks[t], disk[t], thread[t], spent[t])
         /\ Carried(worker[w], tasks[t], disk[t], thread[t], spent[t])
         /\ \A v \in Workers : v # w => worker[v].at = "off"
BY DEF IInv, Leased, Listed, Typed, InRun

-----------------------------------------------------------------------------
(* The operator.                                                            *)

LEMMA SameAdjusts ==
  ASSUME NEW task \in Task, NEW d, NEW metered, NEW used, Sound(task, d, metered, used)
  PROVE  Adjusts(task, task, used)
BY DEF Adjusts, Sound, Settings

LEMMA AdjustStep ==
  ASSUME IInv, tasks' \in [Tasks -> Task],
         \A t \in Tasks : Adjusts(tasks[t], tasks'[t], spent[t]),
         \A t \in unseen : Resting(tasks'[t]),
         UNCHANGED <<runs, disk, worker, holders, provider, thread, spent, unseen, faults>>
  PROVE  IInv'
<1>1. Typed'
  BY DEF IInv, Typed
<1>2. Claims' = Claims /\ \A t : Running(t)' <=> Running(t)
  BY DEF Claims, Running
<1>3. Leased' /\ RecoveryWaits' /\ NoClaimBlocks'
  BY <1>2, SameLease DEF IInv
<1>4. ASSUME NEW t \in Tasks
      PROVE  /\ Sound(tasks'[t], disk[t], thread[t], spent[t])
             /\ Open(tasks'[t]) <=> Open(tasks[t])
             /\ \A run \in RunRecord : Known(run, tasks[t]) => Known(run, tasks'[t])
  <2>1. /\ tasks[t] \in Task /\ disk[t] \in Files /\ thread[t] \in Nat /\ spent[t] \in Nat
        /\ Sound(tasks[t], disk[t], thread[t], spent[t])
    BY DEF IInv, Typed
  <2>. QED  BY <2>1, AdjustSound
<1>5. Listed'
  <2>1. \A i \in DOMAIN runs : runs[i] \in RunRecord /\ runs[i].task \in Tasks
    BY RunTypes DEF IInv
  <2>2. \A i \in DOMAIN runs : Known(runs[i], tasks'[runs[i].task])
    BY <1>4, <2>1 DEF IInv, Listed
  <2>3. \A t \in Tasks : Running(t)' <=> Open(tasks'[t])
    BY <1>2, <1>4 DEF IInv, Listed
  <2>. QED  BY <1>2, <2>2, <2>3 DEF IInv, Listed
<1>6. ASSUME NEW w \in Workers, worker[w].at \in InRun
      PROVE  Carried(worker[w], tasks'[worker[w].task], disk[worker[w].task],
                     thread[worker[w].task], spent[worker[w].task])
  <2>. DEFINE t == worker[w].task
  <2>1. /\ t \in Tasks /\ Open(tasks[t]) /\ tasks[t] \in Task /\ disk[t] \in Files
        /\ Carried(worker[w], tasks[t], disk[t], thread[t], spent[t])
    BY <1>6, InHand
  <2>. QED  BY <2>1, AdjustCarried
<1>. QED  BY <1>1, <1>3, <1>4, <1>5, <1>6 DEF IInv

LEMMA OneAdjusts ==
  ASSUME IInv, NEW t \in Tasks, NEW new, Adjusts(tasks[t], new, spent[t]),
         tasks' = [tasks EXCEPT ![t] = new], t \in unseen => Resting(new),
         UNCHANGED <<runs, disk, worker, holders, provider, thread, spent, unseen, faults>>
  PROVE  IInv'
<1>1. new \in Task /\ tasks \in [Tasks -> Task]
  BY DEF Adjusts, IInv, Typed
<1>2. tasks' \in [Tasks -> Task] /\ \A u \in Tasks : tasks'[u] = IF u = t THEN new ELSE tasks[u]
  BY <1>1
<1>3. \A u \in Tasks : Adjusts(tasks[u], tasks[u], spent[u])
  BY <1>1, SameAdjusts DEF IInv
<1>4. \A u \in unseen : Resting(tasks'[u])
  BY <1>2 DEF IInv, Typed
<1>. QED  BY <1>2, <1>3, <1>4, AdjustStep

LEMMA CancelStep == ASSUME IInv, NEW t \in Tasks, Cancel(t) PROVE IInv'
<1>. DEFINE new == [tasks[t] EXCEPT !.queued = FALSE, !.events = FALSE,
                                    !.cancel_requested = @ \/ Running(t)]
<1>1. tasks[t] \in Task /\ Sound(tasks[t], disk[t], thread[t], spent[t])
  BY DEF IInv, Typed
<1>2. Running(t) \in BOOLEAN
  BY DEF Running
<1>3. /\ new \in Task
      /\ new = [tasks[t] EXCEPT !.queued = FALSE, !.events = FALSE,
                                !.cancel_requested = new.cancel_requested]
  BY <1>1, <1>2 DEF Task
<1>4. tasks' = [tasks EXCEPT ![t] = new]
  BY DEF Cancel, IInv, Typed
<1>. HIDE DEF new
<1>5. Adjusts(tasks[t], new, spent[t]) /\ (Resting(tasks[t]) => Resting(new))
  BY <1>1, <1>3 DEF Adjusts, Sound, Settings, Resting, Task
<1>. QED  BY <1>4, <1>5, OneAdjusts DEF Cancel, IInv

LEMMA PauseStep == ASSUME IInv, NEW t \in Tasks, Pause(t) PROVE IInv'
<1>. DEFINE new == [Paused(tasks[t]) EXCEPT !.auto_paused = FALSE]
<1>1. tasks[t] \in Task /\ Sound(tasks[t], disk[t], thread[t], spent[t])
  BY DEF IInv, Typed
<1>2. Adjusts(tasks[t], new, spent[t]) /\ Resting(new)
  BY <1>1 DEF Adjusts, Sound, Settings, Resting, Task, Paused
<1>. QED  BY <1>2, OneAdjusts DEF Pause

LEMMA NotifyStep == ASSUME IInv, NEW t \in Tasks, Notify(t) PROVE IInv'
<1>. DEFINE new == [tasks[t] EXCEPT !.events = TRUE, !.queued = TRUE]
<1>1. tasks[t] \in Task /\ Sound(tasks[t], disk[t], thread[t], spent[t])
  BY DEF IInv, Typed
<1>2. tasks' = [tasks EXCEPT ![t] = new]
  BY DEF Notify, IInv, Typed
<1>3. Adjusts(tasks[t], new, spent[t])
  BY <1>1 DEF Adjusts, Sound, Settings, Resting, Task, Notify
<1>4. t \notin unseen
  BY DEF Notify, IInv, Resting
<1>. QED  BY <1>2, <1>3, <1>4, OneAdjusts DEF Notify

LEMMA UpdateStep ==
  ASSUME IInv, NEW t \in Tasks, NEW limited \in BOOLEAN, NEW total \in Totals \cup {None},
         Update(t, limited, total)
  PROVE  IInv'
<1>. DEFINE task    == tasks[t]
            repair  == total # None
            unknown == \E i \in DOMAIN runs :
                         /\ runs[i].task = t
                         /\ runs[i].id = tasks[t].last_run
                         /\ runs[i].usage = None
                         /\ runs[i].status # "unprepared"
                         /\ tasks[t].last_run \notin tasks[t].repairs
            marked  == [task EXCEPT !.limited = limited, !.usage_uncertain = @ \/ unknown]
            edited  == IF repair
                       THEN [marked EXCEPT !.tokens_used = total,
                                           !.repairs = @ \cup {marked.last_run},
                                           !.usage_uncertain = FALSE]
                       ELSE marked
            stops   == Pending(edited) \/ (edited.limited /\ edited.usage_uncertain)
            checked == PausedIf(stops, edited)
            new     == IF checked.enabled /\ Tripped(checked)
                       THEN [Paused(checked) EXCEPT !.auto_paused = TRUE]
                       ELSE checked
<1>1. task \in Task /\ spent[t] \in Nat /\ Sound(task, disk[t], thread[t], spent[t]) /\ ~Open(task)
  BY DEF IInv, Typed, Listed, Update
<1>2. unknown \in BOOLEAN
  OBVIOUS
<1>covers. repair => total >= marked.tokens_used /\ total >= spent[t]
  BY DEF Update
<1>. HIDE DEF unknown
<1>3. /\ marked \in Task
      /\ marked.last_run = task.last_run /\ marked.repairs = task.repairs
      /\ marked.attempts = task.attempts
      /\ marked.persistence = task.persistence /\ marked.recovery = task.recovery
      /\ marked.tokens_used = task.tokens_used
      /\ marked.usage_uncertain = task.usage_uncertain \/ marked.usage_uncertain = TRUE
      /\ marked.enabled = task.enabled /\ marked.queued = task.queued
      /\ marked.auto_paused = task.auto_paused
  <2>. DEFINE uncertain == task.usage_uncertain \/ unknown
  <2>1. uncertain \in BOOLEAN /\ (uncertain = task.usage_uncertain \/ uncertain = TRUE)
    BY <1>1, <1>2 DEF Task
  <2>2. marked = [task EXCEPT !.limited = limited, !.usage_uncertain = uncertain]
    OBVIOUS
  <2>. HIDE DEF uncertain, marked
  <2>. QED  BY <1>1, <2>1, <2>2 DEF Task
<1>. HIDE DEF marked
<1>4. /\ edited \in Task
      /\ edited.last_run = task.last_run /\ edited.attempts = task.attempts
      /\ edited.persistence = task.persistence /\ edited.recovery = task.recovery
      /\ edited.enabled = task.enabled /\ edited.queued = task.queued
      /\ edited.auto_paused = task.auto_paused
      /\ \/ /\ edited.tokens_used = task.tokens_used /\ edited.repairs = task.repairs
            /\ edited.usage_uncertain = task.usage_uncertain \/ edited.usage_uncertain = TRUE
         \/ /\ edited.repairs = task.repairs \cup {task.last_run}
            /\ edited.tokens_used >= spent[t] /\ edited.tokens_used >= task.tokens_used
  <2>1. CASE ~repair
    <3>1. edited = marked
      BY <2>1
    <3>. HIDE DEF edited
    <3>. QED  BY <1>3, <3>1
  <2>2. CASE repair
    <3>. DEFINE seen == marked.repairs \cup {marked.last_run}
    <3>1. /\ total \in Nat /\ total >= spent[t] /\ total >= task.tokens_used
          /\ seen \in SUBSET Nat
      BY <1>1, <1>3, <1>covers, <2>2, AgentTasksAssumption DEF Task
    <3>2. edited = [marked EXCEPT !.tokens_used = total, !.repairs = seen, !.usage_uncertain = FALSE]
      BY <2>2
    <3>3. seen = task.repairs \cup {task.last_run}
      BY <1>3
    <3>. HIDE DEF edited, seen
    <3>. QED  BY <1>3, <3>1, <3>2, <3>3 DEF Task
  <2>. QED  BY <2>1, <2>2
<1>. HIDE DEF edited
<1>5. Scheduled(edited, checked) /\ (stops => Resting(checked))
  <2>1. stops \in BOOLEAN
    BY <1>4 DEF Task, Pending
  <2>. HIDE DEF stops
  <2>. QED  BY <1>4, <2>1, PausedIfFacts
<1>6. Scheduled(edited, new) /\ (stops => Resting(new))
  <2>. HIDE DEF stops, checked
  <2>1. Scheduled(checked, [Paused(checked) EXCEPT !.auto_paused = TRUE])
        /\ Resting([Paused(checked) EXCEPT !.auto_paused = TRUE])
    BY <1>5 DEF Scheduled, Task, Paused, Resting
  <2>2. Scheduled(edited, [Paused(checked) EXCEPT !.auto_paused = TRUE])
    BY <1>5, <2>1, ScheduledTwice
  <2>. QED  BY <1>5, <2>1, <2>2
<1>7. Pending(task) \/ (new.limited /\ new.usage_uncertain) => stops
  <2>. HIDE DEF new
  <2>. QED  BY <1>4, <1>6 DEF Scheduled, Pending
<1>8. tasks' = [tasks EXCEPT ![t] = new]
  BY DEF Update, unknown, marked, edited
<1>. HIDE DEF new, stops, checked
<1>9. Adjusts(task, new, spent[t])
  BY <1>1, <1>4, <1>6, <1>7 DEF Adjusts, Scheduled, Sound, Settings, Task
<1>10. t \in unseen => Resting(new)
  BY <1>4, <1>6 DEF IInv, Resting, Scheduled
<1>. QED  BY <1>8, <1>9, <1>10, OneAdjusts DEF Update

LEMMA EnforceLimitsStep == ASSUME IInv, NEW w \in Workers, EnforceLimits(w) PROVE IInv'
<1>. DEFINE new(t) == [Paused(tasks[t]) EXCEPT !.auto_paused = @ \/ ~LimitReached(tasks[t])]
<1>1. ASSUME NEW t \in Tasks
      PROVE  /\ Adjusts(tasks[t], tasks[t], spent[t])
             /\ Adjusts(tasks[t], new(t), spent[t]) /\ Resting(new(t))
  <2>1. tasks[t] \in Task /\ Sound(tasks[t], disk[t], thread[t], spent[t])
    BY DEF IInv, Typed
  <2>. DEFINE auto == tasks[t].auto_paused \/ ~LimitReached(tasks[t])
  <2>2. auto \in BOOLEAN
    BY <2>1 DEF Task
  <2>3. new(t) = [tasks[t] EXCEPT !.enabled = FALSE, !.queued = FALSE, !.auto_paused = auto]
    BY <2>1 DEF Paused, Task
  <2>. HIDE DEF auto, new
  <2>. QED  BY <2>1, <2>2, <2>3, SameAdjusts DEF Adjusts, Sound, Settings, Resting, Task
<1>2. \A t \in Tasks : tasks'[t] = tasks[t] \/ tasks'[t] = new(t)
  BY DEF EnforceLimits
<1>3. tasks' = [t \in Tasks |-> tasks'[t]]
  BY DEF EnforceLimits
<1>. HIDE DEF new
<1>4. \A t \in Tasks : Adjusts(tasks[t], tasks'[t], spent[t])
  BY <1>1, <1>2
<1>5. tasks' \in [Tasks -> Task]
  BY <1>3, <1>4 DEF Adjusts
<1>6. \A t \in unseen : Resting(tasks'[t])
  BY <1>1, <1>2 DEF IInv, Typed
<1>. QED  BY <1>4, <1>5, <1>6, AdjustStep DEF EnforceLimits

-----------------------------------------------------------------------------
(* What an operator begins with a recovery.                                 *)

LEMMA CostsType ==
  ASSUME Typed, NEW n \in Nat, Costs(n)
  PROVE  faults' \in [deaths : 0 .. MaxDeaths, failures : 0 .. MaxFailures]
<1>1. /\ faults \in [deaths : 0 .. MaxDeaths, failures : 0 .. MaxFailures]
      /\ MaxDeaths \in Nat /\ MaxFailures \in Nat
  BY AgentTasksAssumption DEF Typed
<1>2. /\ faults' = [faults EXCEPT !.failures = faults.failures + n]
      /\ faults.failures + n <= MaxFailures
  BY DEF Costs
<1>3. faults.failures + n \in 0 .. MaxFailures
  BY <1>1, <1>2
<1>. QED  BY <1>1, <1>2, <1>3

(* Writes that only the disk has seen disturb nobody.                        *)
LEMMA DiskStep ==
  ASSUME IInv, disk' \in [Tasks -> Files],
         \A t \in Tasks : Sound(tasks[t], disk'[t], thread[t], spent[t]),
         \A w \in Workers : worker[w].at \in InRun => disk'[worker[w].task] = disk[worker[w].task],
         faults' \in [deaths : 0 .. MaxDeaths, failures : 0 .. MaxFailures],
         UNCHANGED <<tasks, runs, worker, holders, provider, thread, spent, unseen>>
  PROVE  IInv'
<1>1. Typed'
  BY DEF IInv, Typed
<1>2. Claims' = Claims /\ \A t : Running(t)' <=> Running(t)
  BY DEF Claims, Running
<1>3. Leased' /\ RecoveryWaits' /\ NoClaimBlocks'
  BY <1>2, SameLease DEF IInv
<1>4. Listed'
  BY <1>2 DEF IInv, Listed
<1>. QED  BY <1>1, <1>3, <1>4 DEF IInv

(* Without its context a task is sound.                                     *)
LEMMA ForgottenSound ==
  ASSUME NEW task \in Task, NEW d \in Files, NEW metered, NEW used, Sound(task, d, metered, used)
  PROVE  LET e == [d EXCEPT !.context = NoContext] IN e \in Files /\ Sound(task, e, metered, used)
<1>. DEFINE e == [d EXCEPT !.context = NoContext]
<1>1. NoContext \in Context
  BY DEF NoContext, Context, Usage
<1>2. e \in Files /\ e.receipt = d.receipt /\ e.context = NoContext
  BY <1>1 DEF Files
<1>3. /\ e.context.last_run = 0 /\ e.context.checkpoint = 0 /\ e.context.total = None
      /\ task.attempts \in Nat
  BY <1>2 DEF NoContext, Task
<1>. HIDE DEF e
<1>4. Numbers(task, e) /\ Meters(task, e, metered)
  BY <1>2, <1>3 DEF Sound, Numbers, Meters
<1>5. Settings(task, e) /\ Accounts(task, e, used)
  BY <1>2 DEF Sound, Settings, Accounts
<1>6. Records(task, e)
  BY <1>3 DEF Records
<1>. QED  BY <1>2, <1>4, <1>5, <1>6 DEF Sound, e

LEMMA SettlesStep ==
  ASSUME IInv, NEW t \in Tasks, NEW reach \in Reach, NEW saved \in BOOLEAN, NEW new, NEW e, NEW seen,
         (Pending(tasks[t]) => Reconcilable(tasks[t], disk[t], reach)) =>
           /\ Adjusts(ReconciledTask(tasks[t], disk[t], reach), new, spent[t])
           /\ t \in unseen \ seen => Resting(new),
         \/ e = ReconciledDisk(t, tasks[t], disk[t], reach)
         \/ /\ ~Running(t)
            /\ e = [ReconciledDisk(t, tasks[t], disk[t], reach) EXCEPT !.context = NoContext],
         seen \subseteq {t},
         Settles(t, reach, saved, new, e, seen)
  PROVE  IInv'
<1>. DEFINE task == tasks[t]
            d    == disk[t]
            mid  == ReconciledTask(task, d, reach)
            rec  == ReconciledDisk(t, task, d, reach)
<1>1. /\ Typed /\ task \in Task /\ d \in Files /\ thread[t] \in Nat /\ spent[t] \in Nat
      /\ Sound(task, d, thread[t], spent[t])
  BY DEF IInv, Typed
<1>2. /\ rec \in Files /\ Sound(task, rec, thread[t], spent[t]) /\ (~Pending(task) => rec = d)
      /\ Sound(mid, rec, thread[t], spent[t])
  BY <1>1, ReconciledDiskFacts, ReconcileSound
<1>3. /\ mid \in Task /\ (~Pending(task) => mid = task)
      /\ mid.attempts = task.attempts /\ mid.last_run = task.last_run
  BY <1>1, ReconciledTaskFacts DEF Reconcilable
<1>. HIDE DEF mid, rec
<1>4. e \in Files /\ Sound(task, e, thread[t], spent[t]) /\ Sound(mid, e, thread[t], spent[t])
  BY <1>1, <1>2, <1>3, ForgottenSound DEF mid, rec
<1>5. faults' \in [deaths : 0 .. MaxDeaths, failures : 0 .. MaxFailures]
  BY <1>1, CostsType DEF Settles, Fault
<1>6. /\ disk' \in [Tasks -> Files]
      /\ disk'[t] \in {e, rec}
      /\ \A u \in Tasks \ {t} : disk'[u] = disk[u]
  BY <1>1, <1>2, <1>4 DEF Settles, Typed, rec
<1>7. \A w \in Workers : worker[w].at \in InRun => disk'[worker[w].task] = disk[worker[w].task]
  <2>. SUFFICES ASSUME NEW w \in Workers, worker[w].at \in InRun, worker[w].task = t
                PROVE  disk'[t] = d
    BY <1>6, InHand
  <2>1. Running(t) /\ Open(task)
    BY InHand
  <2>2. rec = d /\ e = rec
    BY <1>1, <1>2, <2>1 DEF Sound, Settings, rec
  <2>. QED  BY <1>6, <2>2
<1>8. CASE UNCHANGED <<tasks, runs, unseen>>
  <2>1. \A u \in Tasks : Sound(tasks[u], disk'[u], thread[u], spent[u])
    BY <1>2, <1>4, <1>6 DEF IInv
  <2>. QED  BY <1>5, <1>6, <1>7, <1>8, <2>1, DiskStep DEF Settles
<1>9. CASE /\ Pending(task) => Reconcilable(task, d, reach)
           /\ disk'[t] = e
           /\ tasks' = [tasks EXCEPT ![t] = new]
           /\ runs' = (IF Pending(task) THEN ReconciledRuns(runs, {t}, tasks, disk) ELSE runs)
           /\ unseen' = unseen \ seen
  <2>. Adjusts(mid, new, spent[t]) /\ (t \in unseen \ seen => Resting(new))
    BY <1>9 DEF mid
  <2>1. new \in Task /\ tasks' \in [Tasks -> Task]
        /\ \A u \in Tasks : tasks'[u] = IF u = t THEN new ELSE tasks[u]
    BY <1>1, <1>9 DEF Adjusts, Typed
  <2>2. /\ Sound(new, e, thread[t], spent[t])
        /\ Open(new) <=> Open(mid)
        /\ \A run \in RunRecord : Known(run, mid) => Known(run, new)
    BY <1>1, <1>3, <1>4, AdjustSound
  <2>3. /\ runs' \in Seq(RunRecord) /\ Len(runs') = Len(runs) /\ DOMAIN runs' = DOMAIN runs
        /\ \A i \in DOMAIN runs :
             /\ runs'[i].task = runs[i].task /\ runs'[i].status = runs[i].status
             /\ runs'[i] = (IF Pending(task) /\ runs[i].task = t /\ runs[i].id = task.last_run
                            THEN Told(runs[i], d.receipt.result.usage)
                            ELSE runs[i])
    <3>1. runs \in Seq(RunRecord)
      BY <1>1 DEF Typed
    <3>2. CASE Pending(task)
      <4>. DEFINE rs == ReconciledRuns(runs, {t}, tasks, disk)
      <4>1. /\ rs \in Seq(RunRecord) /\ Len(rs) = Len(runs) /\ DOMAIN rs = DOMAIN runs
            /\ \A i \in DOMAIN runs :
                 /\ rs[i] = (IF runs[i].task \in {t} /\ runs[i].id = tasks[runs[i].task].last_run
                             THEN Told(runs[i], disk[runs[i].task].receipt.result.usage)
                             ELSE runs[i])
                 /\ rs[i].task = runs[i].task /\ rs[i].id = runs[i].id /\ rs[i].status = runs[i].status
        BY <1>1, ReconciledHotRuns
      <4>2. runs' = rs
        BY <1>9, <3>2
      <4>. HIDE DEF rs
      <4>. QED  BY <3>2, <4>1, <4>2
    <3>3. CASE ~Pending(task)
      BY <1>9, <3>1, <3>3
    <3>. QED  BY <3>2, <3>3
  <2>4. Typed'
    BY <1>1, <1>5, <1>6, <1>9, <2>1, <2>3 DEF Typed, Settles
  <2>5. Claims' = Claims /\ \A u : Running(u)' <=> Running(u)
    BY <2>3, SameClaims
  <2>6. Leased' /\ RecoveryWaits' /\ NoClaimBlocks'
    BY <2>5, SameLease DEF IInv, Settles
  <2>7. \A u \in Tasks : Open(tasks'[u]) <=> Open(tasks[u])
    BY <1>3, <2>1, <2>2 DEF Open
  <2>8. ASSUME NEW i \in DOMAIN runs PROVE Known(runs'[i], tasks'[runs'[i].task])
    <3>1. runs[i] \in RunRecord /\ runs[i].task \in Tasks /\ Known(runs[i], tasks[runs[i].task])
      BY <1>1, RunTypes DEF IInv, Listed
    <3>2. CASE runs[i].task # t
      BY <2>1, <2>3, <3>1, <3>2
    <3>3. CASE runs[i].task = t /\ ~Pending(task)
      BY <1>3, <2>1, <2>2, <2>3, <3>1, <3>3
    <3>4. CASE runs[i].task = t /\ Pending(task)
      <4>1. runs'[i] \in RunRecord
        BY <1>1, <2>3, RunTypes, ElementOfSeq
      <4>2. Known(runs'[i], mid)
        <5>1. /\ Reconcilable(task, d, reach)
              /\ runs'[i] = (IF runs[i].id = task.last_run
                             THEN Told(runs[i], d.receipt.result.usage)
                             ELSE runs[i])
          BY <1>9, <2>3, <3>4
        <5>2. runs[i] \in RunRecord /\ Known(runs[i], task)
          BY <3>1, <3>4
        <5>3. /\ runs[i].id # task.last_run => Known(runs[i], mid)
              /\ runs[i].id = task.last_run =>
                   Known(Told(runs[i], d.receipt.result.usage), mid)
          BY <1>1, <5>1, <5>2, ReconcileKnown DEF mid
        <5>. QED  BY <5>1, <5>3
      <4>. QED  BY <2>1, <2>2, <2>3, <3>4, <4>1, <4>2
    <3>. QED  BY <3>2, <3>3, <3>4
  <2>9. Listed'
    BY <2>3, <2>5, <2>7, <2>8 DEF IInv, Listed
  <2>10. \A u \in Tasks : Sound(tasks'[u], disk'[u], thread[u], spent[u])
    BY <1>6, <1>9, <2>1, <2>2 DEF IInv
  <2>11. ASSUME NEW w \in Workers, worker[w].at \in InRun
         PROVE  Carried(worker[w], tasks'[worker[w].task], disk'[worker[w].task],
                        thread[worker[w].task], spent[worker[w].task])
    <3>1. CASE worker[w].task # t
      BY <1>7, <2>1, <2>11, <3>1, InHand
    <3>2. CASE worker[w].task = t
      <4>1. Open(task) /\ Carried(worker[w], task, d, thread[t], spent[t])
        BY <2>11, <3>2, InHand
      <4>2. mid = task
        BY <1>1, <1>3, <4>1 DEF Sound, Settings
      <4>3. Carried(worker[w], new, d, thread[t], spent[t])
        BY <1>1, <4>1, <4>2, AdjustCarried DEF mid
      <4>. QED  BY <1>7, <2>1, <2>11, <3>2, <4>3
    <3>. QED  BY <3>1, <3>2
  <2>12. \A u \in unseen' : Resting(tasks'[u])
    BY <1>9, <2>1 DEF IInv, Typed
  <2>13. UNCHANGED <<worker, thread, spent>>
    BY DEF Settles
  <2>. HIDE DEF d
  <2>. QED  BY <2>4, <2>6, <2>9, <2>10, <2>11, <2>12, <2>13 DEF IInv
<1>10. CASE saved /\ (Pending(task) => Reconcilable(task, d, reach))
  <2>1. disk' = [disk EXCEPT ![t] = e] /\ disk \in [Tasks -> Files]
    BY <1>1, <1>10 DEF Settles, Typed
  <2>. QED  BY <1>9, <1>10, <2>1 DEF Settles
<1>11. CASE ~(saved /\ (Pending(task) => Reconcilable(task, d, reach)))
  BY <1>8, <1>11 DEF Settles, hot
<1>. QED  BY <1>10, <1>11

(* A task as a recovery that is not in the way leaves it.                    *)
LEMMA RecoveredTask ==
  ASSUME IInv, NEW t \in Tasks, NEW reach \in Reach
  PROVE  LET task == ReconciledTask(tasks[t], disk[t], reach) IN
         /\ task \in Task /\ task.usage_uncertain \in BOOLEAN
         /\ ~(task.auto_paused /\ task.enabled)
         /\ task.limited /\ task.usage_uncertain => Resting(task)
         /\ Pending(task) => Resting(task)
         /\ Resting(tasks[t]) => Resting(task)
         /\ (Pending(tasks[t]) => Reconcilable(tasks[t], disk[t], reach)) => ~Pending(task)
<1>. DEFINE task == ReconciledTask(tasks[t], disk[t], reach)
<1>1. /\ Typed /\ tasks[t] \in Task /\ disk[t] \in Files /\ thread[t] \in Nat /\ spent[t] \in Nat
      /\ Sound(tasks[t], disk[t], thread[t], spent[t])
  BY DEF IInv, Typed
<1>2. Sound(task, ReconciledDisk(t, tasks[t], disk[t], reach), thread[t], spent[t])
  BY <1>1, ReconcileSound
<1>3. /\ task \in Task
      /\ task.enabled = tasks[t].enabled /\ task.queued = tasks[t].queued
      /\ ~Reconcilable(tasks[t], disk[t], reach) => task = tasks[t]
      /\ Reconcilable(tasks[t], disk[t], reach) => task.recovery = "reconciled"
  BY <1>1, ReconciledTaskFacts
<1>. HIDE DEF task
<1>4. /\ ~(task.auto_paused /\ task.enabled)
      /\ task.limited /\ task.usage_uncertain => Resting(task)
      /\ Pending(task) => Resting(task)
  BY <1>2 DEF Sound, Settings
<1>5. task.usage_uncertain \in BOOLEAN /\ (Resting(tasks[t]) => Resting(task))
  BY <1>3 DEF Task, Resting
<1>6. (Pending(tasks[t]) => Reconcilable(tasks[t], disk[t], reach)) => ~Pending(task)
  BY <1>3 DEF Pending
<1>. QED  BY <1>3, <1>4, <1>5, <1>6 DEF task

(* A task that is not run because its budget cannot be checked is paused.    *)
LEMMA RefusedStep ==
  ASSUME IInv, NEW t \in Tasks, NEW reach \in Reach, NEW saved \in BOOLEAN,
         Settles(t, reach, saved, Paused(ReconciledTask(tasks[t], disk[t], reach)),
                 ReconciledDisk(t, tasks[t], disk[t], reach), {})
  PROVE  IInv'
<1>. DEFINE task == ReconciledTask(tasks[t], disk[t], reach)
<1>1. task \in Task
  BY RecoveredTask
<1>2. Adjusts(task, Paused(task), spent[t]) /\ Resting(Paused(task))
  <2>. HIDE DEF task
  <2>. QED  BY <1>1, PausedFacts DEF Adjusts, Scheduled, Resting
<1>. QED  BY <1>2, SettlesStep

LEMMA RunNowStep ==
  ASSUME IInv, NEW t \in Tasks, NEW reach \in Reach, NEW saved \in BOOLEAN, RunNow(t, reach, saved)
  PROVE  IInv'
<1>. DEFINE task == ReconciledTask(tasks[t], disk[t], reach)
            new  == [task EXCEPT !.queued = TRUE]
<1>1. CASE task.limited /\ task.usage_uncertain
  BY <1>1, RefusedStep DEF RunNow
<1>2. CASE ~(task.limited /\ task.usage_uncertain)
  <2>1. /\ task \in Task /\ ~(task.auto_paused /\ task.enabled)
        /\ (Pending(tasks[t]) => Reconcilable(tasks[t], disk[t], reach)) => ~Pending(task)
    BY RecoveredTask
  <2>2. ~Pending(task) => Adjusts(task, new, spent[t])
    <3>. HIDE DEF task
    <3>. QED  BY <1>2, <2>1 DEF Adjusts, Task
  <2>3. Settles(t, reach, saved, new, ReconciledDisk(t, tasks[t], disk[t], reach), {t})
    BY <1>2 DEF RunNow
  <2>4. t \notin unseen \ {t}
    OBVIOUS
  <2>. HIDE DEF new
  <2>. QED  BY <2>1, <2>2, <2>3, <2>4, SettlesStep
<1>. QED  BY <1>1, <1>2

LEMMA ResumeStep ==
  ASSUME IInv, NEW t \in Tasks, NEW reach \in Reach, NEW saved \in BOOLEAN, Resume(t, reach, saved)
  PROVE  IInv'
<1>. DEFINE task == ReconciledTask(tasks[t], disk[t], reach)
            new  == [task EXCEPT !.enabled = TRUE, !.auto_paused = FALSE, !.failures = 0,
                                 !.queued = task.events]
<1>1. CASE task.limited /\ task.usage_uncertain
  BY <1>1, RefusedStep DEF Resume
<1>2. CASE ~(task.limited /\ task.usage_uncertain)
  <2>1. /\ task \in Task
        /\ (Pending(tasks[t]) => Reconcilable(tasks[t], disk[t], reach)) => ~Pending(task)
    BY RecoveredTask
  <2>2. ~Pending(task) => Adjusts(task, new, spent[t])
    <3>. HIDE DEF task
    <3>. QED  BY <1>2, <2>1 DEF Adjusts, Task
  <2>3. Settles(t, reach, saved, new, ReconciledDisk(t, tasks[t], disk[t], reach), {t})
    BY <1>2 DEF Resume
  <2>4. t \notin unseen \ {t}
    OBVIOUS
  <2>. HIDE DEF new
  <2>. QED  BY <2>1, <2>2, <2>3, <2>4, SettlesStep
<1>. QED  BY <1>1, <1>2

LEMMA ResetContextStep ==
  ASSUME IInv, NEW t \in Tasks, NEW reach \in Reach, NEW saved \in BOOLEAN,
         ResetContext(t, reach, saved)
  PROVE  IInv'
<1>. DEFINE task == ReconciledTask(tasks[t], disk[t], reach)
            e    == [ReconciledDisk(t, tasks[t], disk[t], reach) EXCEPT !.context = NoContext]
<1>1. /\ task \in Task /\ ~(task.auto_paused /\ task.enabled)
      /\ task.limited /\ task.usage_uncertain => Resting(task)
      /\ Pending(task) => Resting(task)
      /\ Resting(tasks[t]) => Resting(task)
  BY RecoveredTask
<1>2. Adjusts(task, task, spent[t])
  <2>. HIDE DEF task
  <2>. QED  BY <1>1 DEF Adjusts
<1>3. t \in unseen => Resting(task)
  BY <1>1 DEF IInv
<1>4. Settles(t, reach, saved, task, e, {}) /\ ~Running(t)
  BY DEF ResetContext
<1>. QED  BY <1>2, <1>3, <1>4, SettlesStep

-----------------------------------------------------------------------------
(* A claim.                                                                 *)

(* The history that is kept ends with the newest run.                        *)
LEMMA RetainedFacts ==
  ASSUME NEW rs \in Seq(RunRecord), Len(rs) > 0
  PROVE  LET new == Retained(rs) IN
         /\ new \in Seq(RunRecord) /\ Len(new) > 0 /\ Len(new) <= MaxHistory
         /\ new[Len(new)] = rs[Len(rs)]
         /\ \A i \in 1 .. Len(new) - 1 : \E j \in 1 .. Len(rs) - 1 : new[i] = rs[j]
<1>. DEFINE kept  == IF Len(rs) < MaxHistory THEN Len(rs) ELSE MaxHistory
            first == Len(rs) + 1 - kept
            new   == Retained(rs)
<1>1. Len(rs) \in Nat /\ MaxHistory \in Nat \ {0}
  BY LenProperties, AgentTasksAssumption
<1>2. kept \in Nat /\ kept > 0 /\ kept <= Len(rs) /\ kept <= MaxHistory
  BY <1>1
<1>. HIDE DEF kept
<1>3. first \in Int /\ Len(rs) \in Int /\ first >= 1 /\ Len(rs) - first + 1 = kept
  BY <1>1, <1>2
<1>4. \A i \in first .. Len(rs) : rs[i] \in RunRecord
  BY <1>1, <1>3, ElementOfSeq
<1>5. new = SubSeq(rs, first, Len(rs))
  BY DEF Retained, kept
<1>. HIDE DEF first, new
<1>6. /\ new \in Seq(RunRecord) /\ Len(new) = kept
      /\ \A i \in 1 .. kept : new[i] = rs[first + i - 1]
  <2>1. /\ SubSeq(rs, first, Len(rs)) \in Seq(RunRecord)
        /\ Len(SubSeq(rs, first, Len(rs))) =
             IF first <= Len(rs) THEN Len(rs) - first + 1 ELSE 0
        /\ \A i \in 1 .. Len(rs) - first + 1 : SubSeq(rs, first, Len(rs))[i] = rs[first + i - 1]
    BY <1>3, <1>4, SubSeqProperties
  <2>2. first <= Len(rs)
    BY <1>2, <1>3
  <2>. QED  BY <1>3, <1>5, <2>1, <2>2
<1>7. new[Len(new)] = rs[Len(rs)]
  <2>1. kept \in 1 .. kept /\ first + kept - 1 = Len(rs)
    BY <1>1, <1>2, <1>3
  <2>. QED  BY <1>6, <2>1
<1>8. ASSUME NEW i \in 1 .. Len(new) - 1 PROVE \E j \in 1 .. Len(rs) - 1 : new[i] = rs[j]
  <2>1. i \in 1 .. kept /\ first + i - 1 \in 1 .. Len(rs) - 1
    BY <1>1, <1>2, <1>3, <1>6
  <2>. QED  BY <1>6, <2>1
<1>. QED  BY <1>2, <1>6, <1>7, <1>8 DEF new

(* A claim opens a task that was closed, and owes nothing.                   *)
LEMMA OpenSound ==
  ASSUME NEW task \in Task, NEW d \in Files, NEW metered \in Nat, NEW used \in Nat,
         Sound(task, d, metered, used), ~Open(task), ~Pending(task),
         task.attempts < MaxRuns, ~(task.limited /\ task.usage_uncertain),
         NEW new \in Task,
         /\ new.persistence = task.persistence /\ new.limited = task.limited
         /\ new.attempts = task.attempts + 1 /\ new.last_run = task.last_run
         /\ new.tokens_used = task.tokens_used /\ new.usage_uncertain = task.usage_uncertain
         /\ new.recovery = task.recovery /\ new.repairs = task.repairs
         /\ new.auto_paused = task.auto_paused
         /\ new.enabled => task.enabled,
         NEW p, p.at = "claimed"
  PROVE  /\ Sound(new, d, metered, used) /\ Open(new)
         /\ Carried(p, new, d, metered, used)
         /\ \A run \in RunRecord : run.status # "running" /\ Known(run, task) => Known(run, new)
<1>1. /\ task.attempts \in Nat /\ task.last_run = task.attempts /\ MaxRuns \in Nat
      /\ task.tokens_used \in Nat
      /\ d.receipt.id \in Nat /\ d.context.last_run \in Nat /\ d.context.checkpoint \in Nat
  BY AgentTasksAssumption DEF Task, Files, Context, Open
<1>2. /\ d.receipt.id < new.attempts /\ d.context.last_run < new.attempts
      /\ d.context.checkpoint < new.attempts
  BY <1>1 DEF Sound, Numbers
<1>3. Open(new) /\ ~Pending(new) /\ new.recovery \notin {"pending", "accounting"}
  BY <1>1 DEF Open, Pending
<1>. /\ d.receipt.id # new.attempts /\ d.context.last_run # new.attempts
     /\ d.context.checkpoint # new.attempts
  BY <1>1, <1>2
<1>4. Numbers(new, d)
  <2>1. new.attempts <= MaxRuns /\ new.attempts = new.last_run + 1
    BY <1>1
  <2>. QED  BY <1>1, <1>2, <2>1 DEF Sound, Numbers
<1>5. Settings(new, d)
  <2>1. ~(new.auto_paused /\ new.enabled)
    BY DEF Sound, Settings
  <2>. QED  BY <1>3, <2>1 DEF Settings
<1>6. Meters(new, d, metered)
  BY DEF Sound, Meters
<1>7. Accounts(new, d, used)
  BY <1>3 DEF Sound, Accounts
<1>8. Records(new, d)
  BY <1>3 DEF Records
<1>9. Carried(p, new, d, metered, used)
  <2>1. Due(new, used, 0)
    BY <1>1, <1>3 DEF Due, Sound, Accounts, Pending
  <2>2. d.context.last_run = new.last_run /\ d.context.total # None => d.context.total = metered
    BY <1>1 DEF Sound, Meters
  <2>. QED  BY <1>2, <2>1, <2>2 DEF Carried
<1>10. ASSUME NEW run \in RunRecord, run.status # "running", Known(run, task)
       PROVE  Known(run, new)
  BY <1>10 DEF Known
<1>. QED  BY <1>3, <1>4, <1>5, <1>6, <1>7, <1>8, <1>9, <1>10 DEF Sound

LEMMA ClaimStep == ASSUME IInv, NEW w \in Workers, NEW t \in Tasks, Claim(w, t) PROVE IInv'
<1>. DEFINE task == tasks[t]
            new  == [task EXCEPT !.queued = FALSE, !.cancel_requested = FALSE, !.events = FALSE,
                                 !.attempts = task.attempts + 1,
                                 !.enabled = task.enabled /\ task.interval # "once"]
            p    == [worker[w] EXCEPT !.at = "claimed", !.task = t]
            run  == Run(t, task.attempts + 1, [status |-> "running", usage |-> None])
            rs   == Append(runs, run)
<1>1. /\ Typed /\ task \in Task /\ disk[t] \in Files /\ thread[t] \in Nat /\ spent[t] \in Nat
      /\ Sound(task, disk[t], thread[t], spent[t]) /\ worker[w] \in Process
  BY DEF IInv, Typed
<1>2. /\ worker[w].at = "idle" /\ Claims = {} /\ ~Stopping(t)
      /\ task.enabled \/ task.queued
      /\ tasks' = [tasks EXCEPT ![t] = new]
      /\ runs' = Retained(rs)
      /\ worker' = [worker EXCEPT ![w] = p]
      /\ UNCHANGED <<disk, holders, provider, thread, spent, unseen, faults>>
  BY <1>1 DEF Claim, Ticks, Typed
<1>3. ~Open(task) /\ \A u \in Tasks : ~Running(u) /\ ~Open(tasks[u])
  BY <1>2 DEF IInv, Listed, Claims, Running
<1>4. /\ task.attempts < MaxRuns /\ ~Pending(task) /\ ~(task.limited /\ task.usage_uncertain)
  <2>1. ~LimitReached(task)
    BY <1>2 DEF Stopping
  <2>2. task.attempts \in Nat /\ MaxRuns \in Nat
    BY <1>1, AgentTasksAssumption DEF Task
  <2>. QED  BY <2>1, <2>2 DEF LimitReached
<1>5. /\ new \in Task
      /\ new.persistence = task.persistence /\ new.limited = task.limited
      /\ new.attempts = task.attempts + 1 /\ new.last_run = task.last_run
      /\ new.tokens_used = task.tokens_used /\ new.usage_uncertain = task.usage_uncertain
      /\ new.recovery = task.recovery /\ new.repairs = task.repairs
      /\ new.auto_paused = task.auto_paused
      /\ new.enabled => task.enabled
  <2>. DEFINE enabled == task.enabled /\ task.interval # "once"
  <2>1. enabled \in BOOLEAN /\ (enabled => task.enabled) /\ task.attempts + 1 \in Nat
    BY <1>1 DEF Task
  <2>2. new = [task EXCEPT !.queued = FALSE, !.cancel_requested = FALSE, !.events = FALSE,
                           !.attempts = task.attempts + 1, !.enabled = enabled]
    OBVIOUS
  <2>. HIDE DEF enabled, new
  <2>. QED  BY <1>1, <2>1, <2>2 DEF Task
<1>6. p \in Process /\ p.at = "claimed" /\ p.task = t
  BY <1>1 DEF Process
<1>7. /\ run \in RunRecord /\ run.task = t /\ run.id = task.attempts + 1 /\ run.status = "running"
  BY <1>1 DEF Run, RunRecord, Task, Usage
<1>. HIDE DEF new, p, run
<1>8. /\ Sound(new, disk[t], thread[t], spent[t]) /\ Open(new)
      /\ Carried(p, new, disk[t], thread[t], spent[t])
      /\ \A r \in RunRecord : r.status # "running" /\ Known(r, task) => Known(r, new)
  BY <1>1, <1>3, <1>4, <1>5, <1>6, OpenSound
<1>9. /\ runs' \in Seq(RunRecord) /\ Len(runs') > 0 /\ Len(runs') <= MaxHistory
      /\ runs'[Len(runs')] = run
      /\ \A i \in 1 .. Len(runs') - 1 : \E j \in 1 .. Len(runs) : runs'[i] = runs[j]
      /\ DOMAIN runs' = 1 .. Len(runs') /\ Len(runs') \in Nat
  <2>1. /\ rs \in Seq(RunRecord) /\ Len(rs) = Len(runs) + 1 /\ Len(runs) \in Nat
        /\ \A i \in 1 .. Len(runs) : rs[i] = runs[i]
        /\ rs[Len(runs) + 1] = run
    <3>1. runs \in Seq(RunRecord) /\ Len(runs) \in Nat
      BY <1>1, LenProperties DEF Typed
    <3>2. run \in RunRecord
      BY <1>7
    <3>3. rs \in Seq(RunRecord) /\ Len(rs) = Len(runs) + 1
      BY <3>1, <3>2, AppendProperties
    <3>4. \A i \in 1 .. Len(runs) : rs[i] = runs[i]
      BY <3>1, <3>2, AppendProperties
    <3>5. rs[Len(runs) + 1] = run
      BY <3>1, <3>2, AppendProperties
    <3>. HIDE DEF rs
    <3>. QED  BY <3>1, <3>3, <3>4, <3>5
  <2>. HIDE DEF rs
  <2>2. LET after == Retained(rs) IN
        /\ after \in Seq(RunRecord) /\ Len(after) > 0 /\ Len(after) <= MaxHistory
        /\ after[Len(after)] = rs[Len(rs)]
        /\ \A i \in 1 .. Len(after) - 1 : \E j \in 1 .. Len(rs) - 1 : after[i] = rs[j]
    <3>1. rs \in Seq(RunRecord) /\ Len(rs) > 0
      BY <2>1
    <3>. QED  BY <3>1, RetainedFacts
  <2>3. Len(rs) - 1 = Len(runs)
    BY <2>1
  <2>4. /\ runs' \in Seq(RunRecord) /\ Len(runs') > 0 /\ Len(runs') <= MaxHistory
        /\ runs'[Len(runs')] = run
        /\ \A i \in 1 .. Len(runs') - 1 : \E j \in 1 .. Len(runs) : runs'[i] = rs[j]
    BY <1>2, <2>1, <2>2, <2>3
  <2>5. DOMAIN runs' = 1 .. Len(runs') /\ Len(runs') \in Nat
    BY <2>4, LenProperties
  <2>. QED  BY <2>1, <2>4, <2>5
<1>. HIDE DEF rs
<1>10. \A j \in 1 .. Len(runs) :
         /\ runs[j] \in RunRecord /\ runs[j].task \in Tasks /\ runs[j].status # "running"
         /\ Known(runs[j], tasks[runs[j].task])
  BY <1>1, <1>2, RunTypes DEF IInv, Listed, Claims
<1>11. tasks' \in [Tasks -> Task] /\ \A u \in Tasks : tasks'[u] = IF u = t THEN new ELSE tasks[u]
  BY <1>1, <1>2, <1>5 DEF Typed
<1>12. /\ worker' \in [Workers -> Process]
       /\ \A v \in Workers : worker'[v] = IF v = w THEN p ELSE worker[v]
  BY <1>1, <1>2, <1>6 DEF Typed
<1>13. Typed'
  BY <1>1, <1>2, <1>9, <1>11, <1>12 DEF Typed
<1>14. ASSUME NEW i \in DOMAIN runs'
       PROVE  /\ i = Len(runs') => runs'[i] = run
              /\ i # Len(runs') => /\ runs'[i] \in RunRecord /\ runs'[i].task \in Tasks
                                   /\ runs'[i].status # "running"
                                   /\ Known(runs'[i], tasks[runs'[i].task])
  <2>1. CASE i = Len(runs')
    BY <1>9, <2>1
  <2>2. CASE i # Len(runs')
    <3>1. i \in 1 .. Len(runs') - 1
      BY <1>9, <1>14, <2>2
    <3>2. PICK j \in 1 .. Len(runs) : runs'[i] = runs[j]
      BY <1>9, <3>1
    <3>. QED  BY <1>10, <2>2, <3>2
  <2>. QED  BY <2>1, <2>2
<1>15. \A i \in Claims' : i = Len(runs')
  BY <1>14 DEF Claims
<1>16. \A u \in Tasks : Running(u)' <=> u = t
  <2>1. Len(runs') \in DOMAIN runs'
    BY <1>9
  <2>2. \A u : Running(u)' <=> run.task = u
    BY <1>7, <1>9, <1>14, <2>1 DEF Running
  <2>. QED  BY <1>7, <2>2
<1>17. Listed'
  <2>1. \A u \in Tasks : Running(u)' <=> Open(tasks'[u])
    BY <1>3, <1>8, <1>11, <1>16
  <2>2. ASSUME NEW i \in DOMAIN runs' PROVE Known(runs'[i], tasks'[runs'[i].task])
    <3>1. CASE i = Len(runs')
      BY <1>5, <1>7, <1>8, <1>11, <1>14, <3>1 DEF Known, Open
    <3>2. CASE i # Len(runs')
      BY <1>8, <1>11, <1>14, <3>2
    <3>. QED  BY <3>1, <3>2
  <2>. QED  BY <1>15, <2>1, <2>2 DEF Listed
<1>18. provider = None /\ \A v \in Workers : worker[v].at # "off" => v = w
  BY <1>2 DEF IInv, Leased
<1>19. Leased' /\ RecoveryWaits' /\ NoClaimBlocks'
  <2>1. \A v \in Workers : worker'[v].at # "off" <=> worker[v].at # "off"
    BY <1>2, <1>6, <1>12
  <2>2. \A v \in Workers : v # w => worker'[v].at = "off"
    BY <1>12, <1>18
  <2>3. worker'[w].at = "claimed" /\ worker'[w].task = t
    BY <1>6, <1>12
  <2>4. Leased'
    BY <1>2, <1>16, <1>18, <2>1, <2>2, <2>3 DEF IInv, Leased, InRun
  <2>5. RecoveryWaits' /\ NoClaimBlocks'
    BY <1>2, <1>18, <2>2, <2>3 DEF RecoveryWaits, NoClaimBlocks
  <2>. QED  BY <2>4, <2>5
<1>20. \A u \in Tasks : Sound(tasks'[u], disk'[u], thread'[u], spent'[u])
  BY <1>2, <1>8, <1>11 DEF IInv
<1>21. ASSUME NEW v \in Workers, worker'[v].at \in InRun
       PROVE  Carried(worker'[v], tasks'[worker'[v].task], disk'[worker'[v].task],
                      thread'[worker'[v].task], spent'[worker'[v].task])
  <2>1. v = w
    BY <1>12, <1>18, <1>21 DEF InRun
  <2>. QED  BY <1>2, <1>6, <1>8, <1>11, <1>12, <2>1
<1>22. \A u \in unseen' : Resting(tasks'[u])
  <2>1. t \notin unseen
    BY <1>2 DEF IInv, Resting
  <2>. QED  BY <1>1, <1>2, <1>11, <2>1 DEF IInv, Typed
<1>. QED  BY <1>13, <1>17, <1>19, <1>20, <1>21, <1>22 DEF IInv

-----------------------------------------------------------------------------
(* A run.                                                                   *)

(* A step of a worker in its run, which leaves the hot state alone.          *)
LEMMA WorkStep ==
  ASSUME IInv, NEW w \in Workers, NEW t, t = worker[w].task, worker[w].at \in InRun,
         NEW p \in Process, p.at \in InRun, p.task = t,
         worker' = [worker EXCEPT ![w] = p],
         UNCHANGED <<tasks, runs, unseen, faults>>,
         disk' \in [Tasks -> Files], thread' \in [Tasks -> Nat], spent' \in [Tasks -> Nat],
         \A u \in Tasks \ {t} : /\ disk'[u] = disk[u]
                                /\ thread'[u] = thread[u] /\ spent'[u] = spent[u],
         Sound(tasks[t], disk'[t], thread'[t], spent'[t]),
         Carried(p, tasks[t], disk'[t], thread'[t], spent'[t]),
         provider' \in {None, t}, provider' # None => p.at = "running",
         holders' = (IF provider' = None THEN holders \ {Provider} ELSE holders \cup {Provider})
  PROVE  IInv'
<1>1. /\ t \in Tasks /\ Running(t) /\ \A v \in Workers : v # w => worker[v].at = "off"
      /\ t # None /\ Typed /\ Leased
  BY InHand, AgentTasksAssumption DEF IInv
<1>2. /\ worker' \in [Workers -> Process]
      /\ \A v \in Workers : worker'[v] = IF v = w THEN p ELSE worker[v]
  BY <1>1 DEF Typed
<1>3. Typed'
  <2>1. holders' \subseteq Workers \cup {Provider} /\ provider' \in Tasks \cup {None}
    BY <1>1 DEF Typed
  <2>. QED  BY <1>1, <1>2, <2>1 DEF Typed
<1>4. Claims' = Claims /\ \A u : Running(u)' <=> Running(u)
  BY DEF Claims, Running
<1>5. Leased'
  <2>1. \A v \in Workers : worker'[v].at # "off" <=> v \in holders'
    <3>1. \A v \in Workers : v # Provider
      BY AgentTasksAssumption
    <3>2. \A v \in Workers : v \in holders' <=> v \in holders
      BY <3>1
    <3>3. \A v \in Workers : worker[v].at # "off" <=> v \in holders
      BY <1>1 DEF Leased
    <3>. QED  BY <1>2, <3>2, <3>3 DEF InRun
  <2>2. \A v \in Workers : worker'[v].at # "off" => v = w
    BY <1>1, <1>2
  <2>3. Provider \in holders' <=> provider' # None
    OBVIOUS
  <2>4. worker'[w] = p
    BY <1>2
  <2>. QED  BY <1>1, <1>4, <2>1, <2>2, <2>3, <2>4 DEF Leased
<1>6. RecoveryWaits' /\ NoClaimBlocks'
  <2>1. \A v \in Workers : worker'[v].at # "idle"
    BY <1>1, <1>2 DEF InRun
  <2>. QED  BY <1>1, <1>4, <2>1 DEF RecoveryWaits, NoClaimBlocks
<1>7. Listed'
  BY <1>4 DEF IInv, Listed
<1>8. \A u \in Tasks : Sound(tasks[u], disk'[u], thread'[u], spent'[u])
  BY DEF IInv
<1>9. ASSUME NEW v \in Workers, worker'[v].at \in InRun
      PROVE  Carried(worker'[v], tasks[worker'[v].task], disk'[worker'[v].task],
                     thread'[worker'[v].task], spent'[worker'[v].task])
  <2>1. worker'[v] = p
    BY <1>1, <1>2, <1>9 DEF InRun
  <2>. QED  BY <2>1
<1>. QED  BY <1>3, <1>5, <1>6, <1>7, <1>8, <1>9 DEF IInv

(* A worker that gives up the lease, or dies, leaves its claim behind.       *)
LEMMA LeaveStep ==
  ASSUME IInv, NEW w \in Workers, worker' = [worker EXCEPT ![w] = Off], holders' = holders \ {w},
         UNCHANGED <<tasks, runs, provider, thread, spent, unseen>>,
         disk' \in [Tasks -> Files],
         \A t \in Tasks : Sound(tasks[t], disk'[t], thread[t], spent[t]),
         worker[w].at # "off",
         faults' \in [deaths : 0 .. MaxDeaths, failures : 0 .. MaxFailures]
  PROVE  IInv'
<1>1. Typed /\ Leased /\ \A v \in Workers : v # w => worker[v].at = "off"
  BY DEF IInv, Leased
<1>2. Off \in Process /\ Off.at = "off"
  BY DEF Off, Process, Result, Report, Statuses, Usage
<1>3. /\ worker' \in [Workers -> Process]
      /\ \A v \in Workers : worker'[v].at = "off"
  BY <1>1, <1>2 DEF Typed
<1>4. Typed'
  BY <1>1, <1>3 DEF Typed
<1>5. Claims' = Claims /\ \A u : Running(u)' <=> Running(u)
  BY DEF Claims, Running
<1>6. Leased'
  <2>1. \A v \in Workers : v \notin holders'
    BY <1>1 DEF Leased
  <2>2. Provider \in holders' <=> provider' # None
    BY <1>1, AgentTasksAssumption DEF Leased
  <2>. QED  BY <1>3, <2>1, <2>2 DEF Leased, InRun
<1>7. RecoveryWaits' /\ NoClaimBlocks'
  BY <1>3, <1>5 DEF IInv, RecoveryWaits, NoClaimBlocks
<1>8. Listed'
  BY <1>5 DEF IInv, Listed
<1>. QED  BY <1>3, <1>4, <1>6, <1>7, <1>8 DEF IInv, InRun

LEMMA ResultFacts ==
  ASSUME NEW status \in Statuses, NEW usage \in Usage
  PROVE  LET result == Result(status, usage) IN
         /\ result \in Report /\ result.status = status /\ result.usage = usage
         /\ result.total = None /\ ~result.report
BY DEF Result, Report, Usage

LEMMA NotLaunchedStep ==
  ASSUME IInv, NEW w \in Workers, NEW result, NEW stopped \in BOOLEAN, NotLaunched(w, result, stopped)
  PROVE  IInv'
<1>. DEFINE t == worker[w].task
            p == [worker[w] EXCEPT !.at = "collected", !.result = result, !.stop = stopped]
<1>1. /\ worker[w].at = "claimed" /\ worker[w].at \in InRun /\ worker[w] \in Process
      /\ worker' = [worker EXCEPT ![w] = p]
      /\ UNCHANGED <<tasks, runs, disk, holders, provider, thread, spent, unseen, faults>>
  BY DEF NotLaunched, hot, InRun, IInv, Typed
<1>2. /\ t \in Tasks /\ tasks[t] \in Task /\ spent[t] \in Nat
      /\ Sound(tasks[t], disk[t], thread[t], spent[t])
      /\ Carried(worker[w], tasks[t], disk[t], thread[t], spent[t])
  BY <1>1, InHand
<1>3. /\ result \in Report /\ result.total = None /\ result.usage \in {None, 0}
  <2>1. PICK status \in Statuses, usage \in {None, 0} : result = Result(status, usage)
    BY DEF NotLaunched, Statuses
  <2>2. usage \in Usage
    BY DEF Usage
  <2>. QED  BY <2>1, <2>2, ResultFacts
<1>4. p \in Process /\ p.at = "collected" /\ p.task = t /\ p.result = result
  BY <1>1, <1>3 DEF Process
<1>. HIDE DEF p
<1>5. DueFor(tasks[t], spent[t], result)
  <2>1. tasks[t].tokens_used \in Nat
    BY <1>2 DEF Task
  <2>2. Due(tasks[t], spent[t], 0)
    BY <1>1, <1>2 DEF Carried
  <2>. QED  BY <1>2, <1>3, <2>1, <2>2 DEF Due, DueFor
<1>6. Carried(p, tasks[t], disk[t], thread[t], spent[t])
  BY <1>2, <1>3, <1>4, <1>5 DEF Carried
<1>7. provider = None /\ Provider \notin holders
  BY <1>1 DEF IInv, Leased
<1>8. /\ holders = holders \ {Provider} /\ p.at \in InRun /\ provider' \in {None, t}
      /\ disk' \in [Tasks -> Files] /\ thread' \in [Tasks -> Nat] /\ spent' \in [Tasks -> Nat]
  BY <1>1, <1>4, <1>7 DEF InRun, IInv, Typed
<1>. QED  BY <1>1, <1>2, <1>4, <1>6, <1>7, <1>8, WorkStep

(* What is metered from the baseline on is what the run uses.                *)
LEMMA LaunchSound ==
  ASSUME NEW task \in Task, NEW d \in Files, NEW metered \in Nat, NEW used \in Nat,
         Sound(task, d, metered, used), Open(task),
         NEW p, p.at = "claimed", Carried(p, task, d, metered, used),
         NEW count \in Nat, NEW q, q.at = "running",
         q.baseline \in Usage,
         q.baseline # None =>
           \/ q.baseline = 0 /\ count = 1
           \/ /\ d.context.last_run = task.last_run /\ q.baseline = d.context.total
              /\ count = metered + 1
  PROVE  Sound(task, d, count, used + 1) /\ Carried(q, task, d, count, used + 1)
<1>1. /\ task.attempts \in Nat /\ task.tokens_used \in Nat
      /\ d.receipt.id \in Nat /\ d.context.last_run \in Nat
  BY DEF Task, Files, Context
<1>2. d.receipt.id < task.attempts /\ d.context.last_run < task.attempts
  BY DEF Carried
<1>. d.receipt.id # task.attempts /\ d.context.last_run # task.attempts
  BY <1>1, <1>2
<1>3. Due(task, used, 0)
  BY DEF Carried
<1>4. Due(task, used + 1, 1)
  BY <1>1, <1>3 DEF Due
<1>5. Accounts(task, d, used + 1)
  <2>1. task.repairs = {} => task.tokens_used <= used + 1
    BY <1>1 DEF Sound, Accounts
  <2>. QED  BY <2>1 DEF Accounts
<1>6. Meters(task, d, count)
  BY DEF Sound, Meters
<1>7. q.baseline # None => count = q.baseline + 1
  BY DEF Carried
<1>8. Carried(q, task, d, count, used + 1)
  BY <1>2, <1>4, <1>7 DEF Carried
<1>. QED  BY <1>5, <1>6, <1>8 DEF Sound

LEMMA LaunchStep == ASSUME IInv, NEW w \in Workers, Launch(w) PROVE IInv'
<1>. DEFINE t == worker[w].task
            p == [worker[w] EXCEPT !.at = "running", !.baseline = Baseline(t)]
            resumes == tasks[t].persistence = "conversation" /\ disk[t].context.session
            count == IF resumes THEN thread[t] + 1 ELSE 1
<1>1. /\ worker[w].at = "claimed" /\ worker[w].at \in InRun /\ worker[w] \in Process
      /\ worker' = [worker EXCEPT ![w] = p]
      /\ thread' = [thread EXCEPT ![t] = count]
      /\ spent' = [spent EXCEPT ![t] = spent[t] + 1]
      /\ provider' = t /\ holders' = holders \cup {Provider}
      /\ UNCHANGED <<tasks, runs, disk, unseen, faults>>
  BY DEF Launch, hot, InRun, IInv, Typed
<1>2. /\ t \in Tasks /\ tasks[t] \in Task /\ disk[t] \in Files
      /\ thread[t] \in Nat /\ spent[t] \in Nat /\ Open(tasks[t])
      /\ Sound(tasks[t], disk[t], thread[t], spent[t])
      /\ Carried(worker[w], tasks[t], disk[t], thread[t], spent[t])
  BY <1>1, InHand
<1>3. /\ Baseline(t) \in Usage
      /\ Baseline(t) # None =>
           \/ Baseline(t) = 0 /\ count = 1
           \/ /\ disk[t].context.last_run = tasks[t].last_run /\ Baseline(t) = disk[t].context.total
              /\ count = thread[t] + 1
  <2>1. disk[t].context.total \in Usage /\ 0 \in Usage /\ None \in Usage
    BY <1>2 DEF Files, Context, Usage
  <2>. QED  BY <2>1 DEF Baseline
<1>4. p \in Process /\ p.at = "running" /\ p.task = t /\ p.baseline = Baseline(t) /\ count \in Nat
  <2>1. count \in Nat
    BY <1>2
  <2>. HIDE DEF count
  <2>. QED  BY <1>1, <1>3, <2>1 DEF Process
<1>. HIDE DEF p, count
<1>5. /\ Sound(tasks[t], disk[t], count, spent[t] + 1)
      /\ Carried(p, tasks[t], disk[t], count, spent[t] + 1)
  BY <1>1, <1>2, <1>3, <1>4, LaunchSound
<1>6. /\ disk' \in [Tasks -> Files] /\ thread' \in [Tasks -> Nat] /\ spent' \in [Tasks -> Nat]
      /\ thread'[t] = count /\ spent'[t] = spent[t] + 1
      /\ \A u \in Tasks \ {t} : thread'[u] = thread[u] /\ spent'[u] = spent[u]
  BY <1>1, <1>2, <1>4 DEF IInv, Typed
<1>7. t # None /\ p.at \in InRun
  BY <1>2, <1>4, AgentTasksAssumption DEF InRun
<1>. HIDE DEF t
<1>. QED  BY <1>1, <1>4, <1>5, <1>6, <1>7, WorkStep DEF t

LEMMA IdentifyStep == ASSUME IInv, NEW w \in Workers, Identify(w) PROVE IInv'
<1>. DEFINE t == worker[w].task
            d == disk[t]
            e == [d EXCEPT !.context.session = TRUE]
            p == worker[w]
<1>1. /\ p.at = "running" /\ p.at \in InRun /\ p \in Process
      /\ disk' = [disk EXCEPT ![t] = e]
      /\ UNCHANGED <<tasks, runs, worker, holders, provider, thread, spent, unseen, faults>>
  BY DEF Identify, hot, InRun, IInv, Typed
<1>2. /\ t \in Tasks /\ tasks[t] \in Task /\ d \in Files
      /\ Sound(tasks[t], d, thread[t], spent[t])
      /\ Carried(p, tasks[t], d, thread[t], spent[t])
  BY <1>1, InHand
<1>3. /\ e \in Files /\ e.receipt = d.receipt /\ e.context.session
      /\ e.context.last_run = d.context.last_run /\ e.context.checkpoint = d.context.checkpoint
      /\ e.context.total = d.context.total
  BY <1>2 DEF Files, Context
<1>. HIDE DEF e
<1>4. Sound(tasks[t], e, thread[t], spent[t])
  <2>1. Numbers(tasks[t], e) /\ Settings(tasks[t], e)
    BY <1>2, <1>3 DEF Sound, Numbers, Settings
  <2>2. Meters(tasks[t], e, thread[t]) /\ Accounts(tasks[t], e, spent[t])
    BY <1>2, <1>3 DEF Sound, Meters, Accounts
  <2>3. Records(tasks[t], e)
    BY <1>2, <1>3 DEF Sound, Records, Agrees
  <2>. QED  BY <2>1, <2>2, <2>3 DEF Sound
<1>5. Carried(p, tasks[t], e, thread[t], spent[t])
  BY <1>2, <1>3 DEF Carried
<1>6. /\ disk' \in [Tasks -> Files] /\ thread' \in [Tasks -> Nat] /\ spent' \in [Tasks -> Nat]
      /\ disk'[t] = e
      /\ \A u \in Tasks \ {t} : /\ disk'[u] = disk[u]
                                /\ thread'[u] = thread[u] /\ spent'[u] = spent[u]
      /\ worker' = [worker EXCEPT ![w] = p]
  BY <1>1, <1>2, <1>3 DEF IInv, Typed
<1>7. /\ provider' \in {None, t} /\ p.task = t
      /\ holders' = (IF provider' = None THEN holders \ {Provider} ELSE holders \cup {Provider})
  BY <1>1 DEF IInv, Leased, InRun
<1>8. /\ Sound(tasks[t], disk'[t], thread'[t], spent'[t])
      /\ Carried(p, tasks[t], disk'[t], thread'[t], spent'[t])
  BY <1>1, <1>4, <1>5, <1>6
<1>9. /\ UNCHANGED <<tasks, runs, unseen, faults>> /\ t = worker[w].task /\ worker[w].at \in InRun
      /\ provider' # None => p.at = "running"
  BY <1>1
<1>. HIDE DEF t, d, p
<1>. QED  BY <1>1, <1>6, <1>7, <1>8, <1>9, WorkStep

LEMMA CollectStep ==
  ASSUME IInv, NEW w \in Workers, NEW status \in Statuses, NEW reported \in BOOLEAN,
         NEW total \in BOOLEAN, NEW stopped \in BOOLEAN, Collect(w, status, reported, total, stopped)
  PROVE  IInv'
<1>. DEFINE t       == worker[w].task
            session == tasks[t].persistence = "conversation" /\ disk[t].context.session
            counted == IF total THEN thread[t] ELSE None
            usage   == IF counted = None \/ worker[w].baseline = None THEN None
                       ELSE counted - worker[w].baseline
            result  == [status |-> status, usage |-> usage, session |-> session, total |-> counted,
                        report |-> reported /\ tasks[t].persistence # "fresh"]
            p       == [worker[w] EXCEPT !.at = "collected", !.stop = stopped, !.result = result]
<1>1. /\ worker[w].at = "running" /\ worker[w].at \in InRun /\ worker[w] \in Process
      /\ worker' = [worker EXCEPT ![w] = p]
      /\ provider' = None /\ holders' = holders \ {Provider}
      /\ status \in {"completed", "failed", "cancelled"}
      /\ UNCHANGED <<tasks, runs, disk, thread, spent, unseen, faults>>
  BY DEF Collect, hot, InRun, IInv, Typed
<1>2. /\ t \in Tasks /\ tasks[t] \in Task /\ disk[t] \in Files
      /\ thread[t] \in Nat /\ spent[t] \in Nat
      /\ Sound(tasks[t], disk[t], thread[t], spent[t])
      /\ Carried(worker[w], tasks[t], disk[t], thread[t], spent[t])
  BY <1>1, InHand
<1>3. /\ counted \in Usage /\ (counted # None => counted = thread[t])
      /\ worker[w].baseline \in Usage
      /\ worker[w].baseline # None =>
           thread[t] = worker[w].baseline + 1 /\ Due(tasks[t], spent[t], 1)
  <2>1. worker[w].baseline # None =>
          thread[t] = worker[w].baseline + 1 /\ Due(tasks[t], spent[t], 1)
    BY <1>1, <1>2 DEF Carried
  <2>. QED  BY <1>1, <1>2, <2>1 DEF Process, Usage
<1>. HIDE DEF counted
<1>4. usage \in {None, 1} /\ (usage # None => Due(tasks[t], spent[t], 1))
  BY <1>2, <1>3 DEF Usage
<1>5. usage \in Usage /\ session \in BOOLEAN
  BY <1>4 DEF Usage
<1>. HIDE DEF usage, session
<1>6. /\ result \in Report /\ result.status = status /\ result.usage = usage
      /\ result.total = counted
  BY <1>3, <1>5 DEF Report
<1>. HIDE DEF result
<1>7. p \in Process /\ p.at = "collected" /\ p.task = t /\ p.result = result
  BY <1>1, <1>6 DEF Process
<1>. HIDE DEF p
<1>8. DueFor(tasks[t], spent[t], result)
  BY <1>1, <1>4, <1>6 DEF DueFor
<1>9. /\ Sound(tasks[t], disk'[t], thread'[t], spent'[t])
      /\ Carried(p, tasks[t], disk'[t], thread'[t], spent'[t])
  BY <1>1, <1>2, <1>3, <1>6, <1>7, <1>8 DEF Carried
<1>10. /\ disk' \in [Tasks -> Files] /\ thread' \in [Tasks -> Nat] /\ spent' \in [Tasks -> Nat]
       /\ \A u \in Tasks \ {t} : /\ disk'[u] = disk[u]
                                 /\ thread'[u] = thread[u] /\ spent'[u] = spent[u]
       /\ p.at \in InRun /\ t = worker[w].task
  BY <1>1, <1>7 DEF IInv, Typed, InRun
<1>. HIDE DEF t
<1>. QED  BY <1>1, <1>7, <1>9, <1>10, WorkStep

LEMMA ProviderEndsStep == ASSUME IInv, ProviderEnds PROVE IInv'
<1>1. /\ Typed /\ Leased /\ provider' = None /\ holders' = holders \ {Provider}
      /\ UNCHANGED <<tasks, runs, disk, worker, thread, spent, unseen, faults>>
  BY DEF IInv, ProviderEnds, hot
<1>2. Typed'
  BY <1>1 DEF Typed
<1>3. Claims' = Claims /\ \A u : Running(u)' <=> Running(u)
  BY <1>1 DEF Claims, Running
<1>4. Leased'
  <2>1. \A v \in Workers : v \in holders' <=> v \in holders
    BY <1>1, AgentTasksAssumption
  <2>. QED  BY <1>1, <1>3, <2>1 DEF Leased
<1>5. RecoveryWaits' /\ NoClaimBlocks'
  BY <1>1, <1>3 DEF IInv, RecoveryWaits, NoClaimBlocks
<1>6. Listed'
  BY <1>1, <1>3 DEF IInv, Listed
<1>. QED  BY <1>1, <1>2, <1>4, <1>5, <1>6 DEF IInv

LEMMA ExitStep == ASSUME IInv, NEW w \in Workers, Exit(w) PROVE IInv'
<1>1. /\ worker[w].at # "off" /\ worker' = [worker EXCEPT ![w] = Off] /\ holders' = holders \ {w}
      /\ UNCHANGED <<tasks, runs, disk, provider, thread, spent, unseen, faults>>
  BY DEF Exit, hot
<1>2. /\ disk' \in [Tasks -> Files]
      /\ \A t \in Tasks : Sound(tasks[t], disk'[t], thread[t], spent[t])
      /\ faults' \in [deaths : 0 .. MaxDeaths, failures : 0 .. MaxFailures]
  BY <1>1 DEF IInv, Typed
<1>. QED  BY <1>1, <1>2, LeaveStep

(* A worker that dies while it records has written a part of its result.     *)
LEMMA DieStep == ASSUME IInv, NEW w \in Workers, NEW reach \in Reach, Die(w, reach) PROVE IInv'
<1>. DEFINE t == worker[w].task
            e == Recorded(t, disk[t], tasks[t].attempts, worker[w].result, reach)
<1>1. /\ worker[w].at \in InRun /\ worker[w].at # "off"
      /\ worker' = [worker EXCEPT ![w] = Off] /\ holders' = holders \ {w}
      /\ disk' = (IF worker[w].at = "collected" THEN [disk EXCEPT ![t] = e] ELSE disk)
      /\ UNCHANGED <<tasks, runs, provider, thread, spent, unseen>>
  BY DEF Die, hot, InRun, IInv, Typed
<1>2. /\ t \in Tasks /\ tasks[t] \in Task /\ disk[t] \in Files /\ Typed /\ Open(tasks[t])
      /\ thread[t] \in Nat /\ spent[t] \in Nat
      /\ Sound(tasks[t], disk[t], thread[t], spent[t])
      /\ Carried(worker[w], tasks[t], disk[t], thread[t], spent[t])
  BY <1>1, InHand DEF IInv
<1>3. faults' \in [deaths : 0 .. MaxDeaths, failures : 0 .. MaxFailures]
  <2>1. /\ faults \in [deaths : 0 .. MaxDeaths, failures : 0 .. MaxFailures] /\ MaxDeaths \in Nat
        /\ faults' = [faults EXCEPT !.deaths = faults.deaths + 1] /\ faults.deaths < MaxDeaths
    BY <1>2, AgentTasksAssumption DEF Die, Typed
  <2>2. faults.deaths + 1 \in 0 .. MaxDeaths
    BY <2>1
  <2>. QED  BY <2>1, <2>2
<1>4. worker[w].at = "collected" => e \in Files /\ Sound(tasks[t], e, thread[t], spent[t])
  <2>. SUFFICES ASSUME worker[w].at = "collected"
                PROVE  e \in Files /\ Sound(tasks[t], e, thread[t], spent[t])
    OBVIOUS
  <2>1. /\ worker[w].result \in Report
        /\ DueFor(tasks[t], spent[t], worker[w].result)
        /\ worker[w].result.total # None => worker[w].result.total = thread[t]
        /\ disk[t].receipt.id # tasks[t].attempts
    BY <1>2 DEF Carried, Typed, Process, Files, Task
  <2>. QED  BY <1>2, <2>1, RecordSound
<1>5. /\ disk' \in [Tasks -> Files]
      /\ \A u \in Tasks : Sound(tasks[u], disk'[u], thread[u], spent[u])
  <2>. HIDE DEF e, t
  <2>1. CASE worker[w].at = "collected"
    BY <1>1, <1>2, <1>4, <2>1 DEF IInv, Typed
  <2>2. CASE worker[w].at # "collected"
    BY <1>1, <1>2, <2>2 DEF IInv, Typed
  <2>. QED  BY <2>1, <2>2
<1>. QED  BY <1>1, <1>3, <1>5, LeaveStep

-----------------------------------------------------------------------------
(* How a claim ends: at once, or by the next scheduler that starts.           *)

LEMMA QuarantineFacts ==
  ASSUME NEW task, NEW run, NEW after, Counted(task, run, after),
         NEW recovery \in {"pending", "accounting"}
  PROVE  LET new == [Paused(after) EXCEPT !.recovery = recovery] IN
         Counted(task, run, new) /\ new.recovery = recovery /\ Resting(new)
<1>. DEFINE new == [Paused(after) EXCEPT !.recovery = recovery]
<1>1. after \in Task
  BY DEF Counted
<1>2. /\ new \in Task /\ new.recovery = recovery /\ ~new.enabled /\ ~new.queued
      /\ new.persistence = after.persistence /\ new.limited = after.limited
      /\ new.attempts = after.attempts /\ new.last_run = after.last_run
      /\ new.tokens_used = after.tokens_used /\ new.usage_uncertain = after.usage_uncertain
      /\ new.repairs = after.repairs
  BY <1>1 DEF Paused, Task
<1>. HIDE DEF new
<1>. QED  BY <1>2 DEF Counted, Resting, new

(* The claim is the last run, and settling it touches no other.              *)
LEMMA ClosedRuns ==
  ASSUME IInv, NEW t \in Tasks, Running(t),
         NEW run \in RunRecord, run.task = t, run.status # "running",
         NEW after, after.last_run = tasks[t].attempts, Known(run, after)
  PROVE  LET rs == [i \in DOMAIN runs |-> IF i \in Claims THEN run ELSE runs[i]] IN
         /\ rs \in Seq(RunRecord) /\ Len(rs) = Len(runs) /\ DOMAIN rs = DOMAIN runs
         /\ \A i \in DOMAIN runs :
              /\ rs[i].status # "running" /\ rs[i].task = runs[i].task
              /\ rs[i].task = t => Known(rs[i], after)
              /\ rs[i].task # t => Known(rs[i], tasks[rs[i].task])
         /\ \A i \in DOMAIN runs : i \in Claims <=> runs[i].task = t /\ runs[i].id = tasks[t].attempts
         /\ \A i \in Claims : runs[i].task = t
         /\ \A u \in Tasks \ {t} : ~Open(tasks[u])
         /\ Open(tasks[t])
<1>. DEFINE rs == [i \in DOMAIN runs |-> IF i \in Claims THEN run ELSE runs[i]]
<1>1. /\ Typed /\ tasks[t] \in Task /\ Sound(tasks[t], disk[t], thread[t], spent[t])
      /\ Open(tasks[t]) /\ runs \in Seq(RunRecord)
  BY DEF IInv, Typed, Listed
<1>2. \A i \in DOMAIN runs :
        runs[i] \in RunRecord /\ runs[i].task \in Tasks /\ Known(runs[i], tasks[runs[i].task])
  BY <1>1, RunTypes DEF IInv, Listed
<1>3. \A i \in Claims : i \in DOMAIN runs /\ runs[i].task = t /\ runs[i].id = tasks[t].attempts
  <2>1. PICK j \in DOMAIN runs : runs[j].task = t /\ runs[j].status = "running"
    BY DEF Running
  <2>2. \A i \in Claims : i = j
    BY <2>1 DEF IInv, Listed, Claims
  <2>3. runs[j].id = tasks[t].attempts
    BY <1>2, <2>1 DEF Known
  <2>. QED  BY <2>1, <2>2, <2>3
<1>4. ASSUME NEW i \in DOMAIN runs, i \notin Claims, runs[i].task = t
      PROVE  runs[i].id # tasks[t].attempts /\ Known(runs[i], after)
  <2>1. runs[i] \in RunRecord /\ runs[i].status # "running" /\ Known(runs[i], tasks[t])
    BY <1>2, <1>4 DEF Claims
  <2>2. tasks[t].attempts \in Nat /\ tasks[t].last_run \in Nat /\ tasks[t].attempts = tasks[t].last_run + 1
    BY <1>1 DEF Sound, Numbers, Task, Open
  <2>3. runs[i].id \in Nat /\ runs[i].id <= tasks[t].last_run
    BY <2>1 DEF Known, RunRecord
  <2>4. Known(runs[i], after)
    BY <1>1, <2>1, <2>2, OlderKnown
  <2>. QED  BY <2>2, <2>3, <2>4
<1>5. rs \in [DOMAIN runs -> RunRecord]
  BY <1>2
<1>6. rs \in Seq(RunRecord) /\ Len(rs) = Len(runs) /\ DOMAIN rs = DOMAIN runs
  <2>. HIDE DEF rs
  <2>. QED  BY <1>1, <1>5, MappedRuns
<1>7. ASSUME NEW i \in DOMAIN runs
      PROVE  /\ rs[i].status # "running" /\ rs[i].task = runs[i].task
             /\ rs[i].task = t => Known(rs[i], after)
             /\ rs[i].task # t => Known(rs[i], tasks[rs[i].task])
  <2>1. CASE i \in Claims
    BY <1>3, <2>1
  <2>2. CASE i \notin Claims
    BY <1>2, <1>4, <2>2 DEF Claims
  <2>. QED  BY <2>1, <2>2
<1>8. \A i \in DOMAIN runs : i \in Claims <=> runs[i].task = t /\ runs[i].id = tasks[t].attempts
  BY <1>3, <1>4
<1>9. \A u \in Tasks \ {t} : ~Open(tasks[u])
  <2>1. \A u \in Tasks : Running(u) => u = t
    BY <1>3 DEF Running, Claims
  <2>. QED  BY <2>1 DEF IInv, Listed
<1>. QED  BY <1>1, <1>3, <1>6, <1>7, <1>8, <1>9

(* Nobody is in a run, and none is open.                                    *)
LEMMA ClosedStep ==
  ASSUME Typed', provider' = None, Provider \notin holders',
         \A v \in Workers : worker'[v].at \notin InRun,
         \A v \in Workers : worker'[v].at # "off" <=> v \in holders',
         \A u, v \in Workers : worker'[u].at # "off" /\ worker'[v].at # "off" => u = v,
         \A i \in DOMAIN runs' :
           runs'[i].status # "running" /\ Known(runs'[i], tasks'[runs'[i].task]),
         \A t \in Tasks : ~Open(tasks'[t]) /\ Sound(tasks'[t], disk'[t], thread'[t], spent'[t]),
         \A t \in unseen' : Resting(tasks'[t])
  PROVE  IInv'
<1>1. Claims' = {} /\ \A u : ~Running(u)'
  BY DEF Claims, Running
<1>2. Leased'
  BY DEF Leased
<1>3. Listed' /\ RecoveryWaits' /\ NoClaimBlocks'
  BY <1>1 DEF Listed, RecoveryWaits, NoClaimBlocks
<1>. QED  BY <1>2, <1>3 DEF IInv

LEMMA FinishedFacts ==
  ASSUME IInv, NEW w \in Workers, NEW reach \in Reach, worker[w].at = "collected"
  PROVE  LET t     == worker[w].task
             task  == tasks[t]
             run   == FinishedRun(w, reach)
             after == FinishedTask(w, run)
             e     == Recorded(t, disk[t], task.attempts, worker[w].result, reach)
         IN
         /\ run \in RunRecord /\ run.task = t /\ run.status # "running"
         /\ e \in Files /\ Sound(task, e, thread[t], spent[t])
         /\ after \in Task /\ after.last_run = task.attempts
         /\ Sound(after, e, thread[t], spent[t]) /\ Known(run, after) /\ ~Open(after)
         /\ run.storage_error \/ Resting(task) => Resting(after)
         /\ Counted(task, run, after) /\ run.id = task.attempts
<1>. DEFINE t      == worker[w].task
            task   == tasks[t]
            result == worker[w].result
            run    == FinishedRun(w, reach)
            first  == Outcome(task, run)
            after  == FinishedTask(w, run)
            e      == Recorded(t, disk[t], task.attempts, result, reach)
<1>1. /\ t \in Tasks /\ task \in Task /\ disk[t] \in Files /\ Typed /\ Open(task)
      /\ thread[t] \in Nat /\ spent[t] \in Nat
      /\ Sound(task, disk[t], thread[t], spent[t])
      /\ Carried(worker[w], task, disk[t], thread[t], spent[t])
  BY InHand DEF IInv, InRun
<1>2. /\ result \in Report
      /\ DueFor(task, spent[t], result)
      /\ result.total # None => result.total = thread[t]
      /\ disk[t].receipt.id # task.attempts
      /\ task.attempts \in Nat /\ task.attempts # 0
  <2>1. task.attempts \in Nat /\ disk[t].receipt.id \in Nat /\ disk[t].receipt.id < task.attempts
    BY <1>1 DEF Carried, Task, Files
  <2>. QED  BY <1>1, <2>1 DEF Carried, Typed, Process
<1>3. /\ e \in Files
      /\ Sound(task, e, thread[t], spent[t])
      /\ reach # "nothing" => e.receipt.id = task.attempts /\ e.receipt.result = result
      /\ reach = "all" /\ task.persistence # "fresh" => Agrees(e, task.attempts)
  <2>1. task.persistence = tasks[t].persistence /\ result \in Report
    BY <1>2
  <2>. HIDE DEF result, task
  <2>. QED  BY <1>1, <1>2, <2>1, RecordSound
<1>4. reach = "nothing" => e.receipt.id # task.attempts
  BY <1>2 DEF Recorded
<1>. HIDE DEF e, task, result
<1>5. /\ run \in RunRecord /\ run.task = t /\ run.id = task.attempts
      /\ run.usage = result.usage /\ ~run.owing
      /\ run.status = (IF reach = "all" THEN result.status ELSE "failed")
      /\ run.storage_error <=> reach # "all"
  <2>1. result.status \in Statuses /\ result.usage \in Usage
    BY <1>2 DEF Report
  <2>2. Run(t, task.attempts, result) \in RunRecord
    BY <1>1, <1>2, <2>1 DEF Run, RunRecord
  <2>3. run = IF reach = "all" THEN Run(t, task.attempts, result)
              ELSE [Run(t, task.attempts, result) EXCEPT !.status = "failed", !.storage_error = TRUE]
    BY DEF FinishedRun, task, result
  <2>4. Run(t, task.attempts, result) =
          [task |-> t, id |-> task.attempts, status |-> result.status, usage |-> result.usage,
           storage_error |-> FALSE, owing |-> FALSE]
    BY DEF Run
  <2>. HIDE DEF run
  <2>5. CASE reach = "all"
    BY <2>2, <2>3, <2>4, <2>5
  <2>6. CASE reach # "all"
    <3>1. run = [task |-> t, id |-> task.attempts, status |-> "failed", usage |-> result.usage,
                 storage_error |-> TRUE, owing |-> FALSE]
      BY <2>6 DEF run, FinishedRun, Run, task, result
    <3>. QED  BY <1>1, <1>2, <2>1, <2>6, <3>1 DEF RunRecord, Statuses
  <2>. QED  BY <2>5, <2>6
<1>6. run.status \in Statuses
  BY <1>2, <1>5 DEF Report, Statuses
<1>. HIDE DEF run
<1>7. /\ Counted(task, run, first) /\ first.recovery = task.recovery
      /\ first.limited /\ first.usage_uncertain => Resting(first)
  BY <1>1, <1>5, <1>6, OutcomeFacts
<1>8. after = IF run.storage_error THEN [Paused(first) EXCEPT !.recovery = "pending"] ELSE first
  BY DEF FinishedTask, task
<1>. HIDE DEF first, after
<1>9. /\ Counted(task, run, after)
      /\ after.limited /\ after.usage_uncertain => Resting(after)
      /\ run.storage_error => after.recovery = "pending" /\ Resting(after)
      /\ ~run.storage_error => after = first
  BY <1>7, <1>8, QuarantineFacts
<1>10. Sound(after, e, thread[t], spent[t]) /\ Known(run, after) /\ ~Open(after)
  <2>1. CASE reach = "all"
    <3>1. /\ after.recovery = task.recovery /\ ~run.owing
          /\ e.receipt.id = task.attempts
          /\ run.usage = e.receipt.result.usage /\ run.status = e.receipt.result.status
          /\ task.persistence # "fresh" => Agrees(e, task.attempts)
      BY <1>3, <1>5, <1>7, <1>9, <2>1
    <3>. QED  BY <1>1, <1>3, <1>5, <1>6, <1>9, <3>1, CloseSound
  <2>2. CASE reach # "all"
    <3>1. /\ after.recovery = "pending" /\ Resting(after) /\ ~run.owing
          /\ run.status = "failed"
          /\ run.usage # None => Due(task, spent[t], run.usage)
          /\ e.receipt.id = task.attempts => run.usage = e.receipt.result.usage
      BY <1>2, <1>3, <1>4, <1>5, <1>9, <2>2 DEF DueFor, Reach
    <3>. QED  BY <1>1, <1>3, <1>5, <1>6, <1>9, <3>1, CloseSound
  <2>. QED  BY <2>1, <2>2
<1>11. /\ after \in Task /\ after.last_run = task.attempts
       /\ run.storage_error \/ Resting(task) => Resting(after)
  BY <1>5, <1>9 DEF Counted, Resting
<1>12. run.status # "running"
  BY <1>6 DEF Statuses
<1>. QED  BY <1>3, <1>5, <1>9, <1>10, <1>11, <1>12 DEF task, result, run, after, e

LEMMA FaultType ==
  ASSUME NEW reach, NEW saved \in BOOLEAN
  PROVE  Fault(reach, saved) \in Nat
BY DEF Fault

LEMMA FinishStep ==
  ASSUME IInv, NEW w \in Workers, NEW reach \in Reach, NEW saved \in BOOLEAN, Finish(w, reach, saved)
  PROVE  IInv'
<1>. DEFINE t     == worker[w].task
            task  == tasks[t]
            run   == FinishedRun(w, reach)
            after == FinishedTask(w, run)
            e     == Recorded(t, disk[t], task.attempts, worker[w].result, reach)
            p     == [Off EXCEPT !.at = IF saved /\ ~worker[w].stop THEN "idle" ELSE "stopped"]
            rs    == [i \in DOMAIN runs |-> IF i \in Claims THEN run ELSE runs[i]]
<1>1. /\ worker[w].at = "collected" /\ worker[w].at \in InRun
      /\ worker' = [worker EXCEPT ![w] = p]
      /\ disk' = [disk EXCEPT ![t] = e]
      /\ saved => /\ runs' = WithRun(runs, run)
                  /\ tasks' = [tasks EXCEPT ![t] = after]
                  /\ unseen' = IF run.storage_error THEN unseen \cup {t} ELSE unseen
      /\ ~saved => UNCHANGED <<tasks, runs, unseen>>
      /\ UNCHANGED <<holders, provider, thread, spent>>
  <2>1. disk' = [disk EXCEPT ![t] = e]
    BY DEF Finish, IInv, Typed
  <2>. QED  BY <2>1 DEF Finish, InRun, hot
<1>2. /\ t \in Tasks /\ Typed /\ Running(t) /\ \A v \in Workers : v # w => worker[v].at = "off"
      /\ Leased /\ provider = None /\ Provider \notin holders
      /\ tasks[t] \in Task
  BY <1>1, InHand DEF IInv, Leased
<1>3. /\ run \in RunRecord /\ run.task = t /\ run.status # "running"
      /\ e \in Files /\ Sound(task, e, thread[t], spent[t])
      /\ after \in Task /\ after.last_run = task.attempts
      /\ Sound(after, e, thread[t], spent[t]) /\ Known(run, after) /\ ~Open(after)
      /\ run.storage_error \/ Resting(task) => Resting(after)
  BY <1>1, FinishedFacts
<1>4. faults' \in [deaths : 0 .. MaxDeaths, failures : 0 .. MaxFailures]
  BY <1>2, FaultType, CostsType DEF Finish
<1>5. p \in Process /\ p.at \in {"idle", "stopped"}
  BY DEF Off, Process, Result, Report, Statuses, Usage
<1>6. run.id = task.attempts
  BY DEF FinishedRun, Run
<1>. HIDE DEF run, after, e, p
<1>7. /\ worker' \in [Workers -> Process]
      /\ \A v \in Workers : worker'[v] = IF v = w THEN p ELSE worker[v]
  BY <1>1, <1>2, <1>5 DEF Typed
<1>8. /\ disk' \in [Tasks -> Files]
      /\ \A u \in Tasks : disk'[u] = IF u = t THEN e ELSE disk[u]
  BY <1>1, <1>2, <1>3 DEF Typed
<1>9. /\ \A v \in Workers : worker'[v].at \notin InRun
      /\ \A v \in Workers : worker'[v].at # "off" <=> v \in holders'
      /\ \A u, v \in Workers : worker'[u].at # "off" /\ worker'[v].at # "off" => u = v
      /\ worker'[w] = p
  <2>1. worker'[w] = p /\ \A v \in Workers : v # w => worker'[v].at = "off"
    BY <1>2, <1>7
  <2>2. p.at \notin InRun /\ p.at # "off" /\ "off" \notin InRun
    BY <1>5 DEF InRun
  <2>3. \A v \in Workers : v \in holders' <=> v = w
    BY <1>1, <1>2 DEF Leased
  <2>. HIDE DEF t, task
  <2>. QED  BY <2>1, <2>2, <2>3
<1>10. CASE saved
  <2>1. /\ tasks' \in [Tasks -> Task]
        /\ \A u \in Tasks : tasks'[u] = IF u = t THEN after ELSE tasks[u]
    <3>1. tasks \in [Tasks -> Task] /\ after \in Task /\ tasks' = [tasks EXCEPT ![t] = after]
      BY <1>1, <1>2, <1>3, <1>10 DEF Typed
    <3>. HIDE DEF t, task
    <3>. QED  BY <3>1
  <2>2. /\ rs \in Seq(RunRecord) /\ Len(rs) = Len(runs) /\ DOMAIN rs = DOMAIN runs
        /\ \A i \in DOMAIN runs :
             /\ rs[i].status # "running" /\ rs[i].task = runs[i].task
             /\ rs[i].task = t => Known(rs[i], after)
             /\ rs[i].task # t => Known(rs[i], tasks[rs[i].task])
        /\ \A i \in DOMAIN runs : i \in Claims <=> runs[i].task = t /\ runs[i].id = tasks[t].attempts
        /\ \A i \in Claims : runs[i].task = t
        /\ \A u \in Tasks \ {t} : ~Open(tasks[u])
        /\ Open(tasks[t])
    BY <1>2, <1>3, ClosedRuns
  <2>3. runs' = rs
    <3>1. runs' = WithRun(runs, run)
      BY <1>1, <1>10
    <3>. QED  BY <1>3, <1>6, <2>2, <3>1 DEF WithRun
  <2>. HIDE DEF rs
  <2>4. Typed'
    <3>1. unseen' \subseteq Tasks
      BY <1>1, <1>2, <1>10 DEF Typed
    <3>. QED  BY <1>1, <1>2, <1>4, <1>7, <1>8, <2>1, <2>2, <2>3, <3>1 DEF Typed
  <2>5. \A i \in DOMAIN runs' :
          runs'[i].status # "running" /\ Known(runs'[i], tasks'[runs'[i].task])
    <3>1. \A i \in DOMAIN runs : runs[i].task \in Tasks
      BY <1>2, RunTypes
    <3>. QED  BY <2>1, <2>2, <2>3, <3>1
  <2>6. ASSUME NEW u \in Tasks
        PROVE  ~Open(tasks'[u]) /\ Sound(tasks'[u], disk'[u], thread'[u], spent'[u])
    <3>1. Sound(tasks[u], disk[u], thread[u], spent[u])
      BY DEF IInv
    <3>2. CASE u = t
      BY <1>1, <1>3, <1>8, <2>1, <3>2
    <3>3. CASE u # t
      BY <1>1, <1>8, <2>1, <2>2, <3>1, <3>3
    <3>. QED  BY <3>2, <3>3
  <2>7. ASSUME NEW u \in unseen' PROVE Resting(tasks'[u])
    <3>1. u \in unseen \/ (u = t /\ run.storage_error)
      BY <1>1, <1>10, <2>7
    <3>2. u \in unseen => u \in Tasks /\ Resting(tasks[u])
      BY <1>2 DEF IInv, Typed
    <3>3. CASE u = t
      BY <1>2, <1>3, <2>1, <3>1, <3>2, <3>3
    <3>4. CASE u # t
      BY <2>1, <3>1, <3>2, <3>4
    <3>. QED  BY <3>3, <3>4
  <2>. HIDE DEF t, task
  <2>8. provider' = None /\ Provider \notin holders'
    BY <1>1, <1>2
  <2>. QED  BY <1>9, <2>4, <2>5, <2>6, <2>7, <2>8, ClosedStep
<1>11. CASE ~saved
  <2>1. UNCHANGED <<tasks, runs, unseen>>
    BY <1>1, <1>11
  <2>2. Typed'
    BY <1>1, <1>2, <1>4, <1>7, <1>8, <2>1 DEF Typed
  <2>3. Claims' = Claims /\ \A u : Running(u)' <=> Running(u)
    BY <2>1 DEF Claims, Running
  <2>4. Leased'
    BY <1>1, <1>2, <1>9 DEF Leased
  <2>5. RecoveryWaits' /\ NoClaimBlocks'
    <3>1. p.at = "stopped"
      BY <1>11 DEF p, Off
    <3>2. \A v \in Workers : worker'[v].at # "idle"
      BY <1>2, <1>7, <3>1
    <3>. QED  BY <1>1, <1>2, <3>2 DEF RecoveryWaits, NoClaimBlocks
  <2>6. Listed'
    BY <2>1, <2>3 DEF IInv, Listed
  <2>7. \A u \in Tasks : Sound(tasks'[u], disk'[u], thread'[u], spent'[u])
    BY <1>1, <1>3, <1>8, <2>1 DEF IInv
  <2>8. \A u \in unseen' : Resting(tasks'[u])
    BY <2>1 DEF IInv
  <2>. QED  BY <1>9, <2>2, <2>4, <2>5, <2>6, <2>7, <2>8 DEF IInv
<1>. QED  BY <1>10, <1>11

-----------------------------------------------------------------------------
(* A scheduler that starts.                                                 *)

(* A claim that was left behind is settled from what its receipt says, if it *)
(* can be read; a task whose evidence is in doubt rests.                     *)
LEMMA LeftFacts ==
  ASSUME IInv, NEW t \in Tasks, Running(t), NEW readable \in BOOLEAN, NEW reach \in Reach,
         ~readable => reach = "all"
  PROVE  LET task  == tasks[t]
             run   == LeftBehind(t, readable, reach)
             after == LeftTask(t, run)
             e     == LeftOnDisk(t, readable, reach)
         IN
         /\ run \in RunRecord /\ run.task = t /\ run.status # "running"
         /\ e \in Files /\ Sound(task, e, thread[t], spent[t])
         /\ after \in Task /\ after.last_run = task.attempts
         /\ after.persistence = task.persistence
         /\ Sound(after, e, thread[t], spent[t]) /\ Known(run, after) /\ ~Open(after)
         /\ run.status = "interrupted" \/ run.storage_error \/ Resting(task) => Resting(after)
         /\ Counted(task, run, after) /\ run.id = task.attempts
         /\ run.usage # None => e.receipt.result.usage = run.usage
<1>. DEFINE task   == tasks[t]
            d      == disk[t]
            found  == readable /\ d.receipt.id = task.attempts
            result == IF found THEN d.receipt.result ELSE Result("interrupted", None)
            failed == ~readable \/ reach # "all"
            run    == LeftBehind(t, readable, reach)
            first  == Outcome(task, run)
            after  == LeftTask(t, run)
            e      == LeftOnDisk(t, readable, reach)
<1>1. /\ task \in Task /\ d \in Files /\ Typed /\ Open(task)
      /\ thread[t] \in Nat /\ spent[t] \in Nat
      /\ Sound(task, d, thread[t], spent[t])
  BY DEF IInv, Typed, Listed
<1>2. /\ task.attempts \in Nat /\ task.attempts # 0 /\ d.receipt.id \in Nat
      /\ found \in BOOLEAN
  <2>1. task.attempts \in Nat /\ task.last_run \in Nat /\ d.receipt.id \in Nat
    BY <1>1 DEF Task, Files
  <2>. QED  BY <1>1, <2>1 DEF Sound, Numbers, Open
<1>3. /\ result \in Report
      /\ found => result = d.receipt.result
      /\ ~found => result.status = "interrupted" /\ result.usage = None /\ result.total = None
  <2>1. d.receipt.result \in Report
    BY <1>1 DEF Files
  <2>2. LET i == Result("interrupted", None) IN
        i \in Report /\ i.status = "interrupted" /\ i.usage = None /\ i.total = None
    <3>1. "interrupted" \in Statuses /\ None \in Usage
      BY DEF Statuses, Usage
    <3>. QED  BY <3>1, ResultFacts
  <2>. QED  BY <2>1, <2>2
<1>. HIDE DEF result
<1>4. /\ DueFor(task, spent[t], result)
      /\ result.total # None => result.total = thread[t]
  <2>1. CASE found
    BY <1>1, <1>3, <2>1 DEF Sound, Accounts, Meters
  <2>2. CASE ~found
    BY <1>3, <2>2 DEF DueFor
  <2>. QED  BY <2>1, <2>2
<1>5. e = IF readable THEN Recorded(t, d, task.attempts, result, reach) ELSE d
  BY DEF LeftOnDisk, result
<1>6. /\ e \in Files /\ Sound(task, e, thread[t], spent[t])
      /\ readable /\ reach # "nothing" => e.receipt.id = task.attempts /\ e.receipt.result = result
      /\ readable /\ reach = "all" /\ task.persistence # "fresh" => Agrees(e, task.attempts)
      /\ readable /\ reach = "nothing" => e.receipt = d.receipt
  <2>. HIDE DEF e, task, d
  <2>1. CASE readable
    <3>. DEFINE f == Recorded(t, d, task.attempts, result, reach)
    <3>1. d.receipt.id = task.attempts => d.receipt.result = result
      BY <1>3, <2>1
    <3>2. task.persistence = tasks[t].persistence
      BY DEF task
    <3>3. /\ f \in Files /\ Sound(task, f, thread[t], spent[t])
          /\ reach # "nothing" => f.receipt.id = task.attempts /\ f.receipt.result = result
          /\ reach = "all" /\ task.persistence # "fresh" /\ task.attempts # 0 =>
               Agrees(f, task.attempts)
      BY <1>1, <1>3, <1>4, <3>1, <3>2, RecordSound
    <3>4. reach = "nothing" => f.receipt = d.receipt
      BY DEF Recorded
    <3>. HIDE DEF f
    <3>5. e = f
      BY <1>5, <2>1 DEF f
    <3>. QED  BY <1>2, <3>3, <3>4, <3>5
  <2>2. CASE ~readable
    BY <1>1, <1>5, <2>2
  <2>. QED  BY <2>1, <2>2
<1>. HIDE DEF e, found
<1>7. /\ run \in RunRecord /\ run.task = t /\ run.id = task.attempts
      /\ run.usage = result.usage
      /\ ~failed => run.status = result.status /\ ~run.owing /\ ~run.storage_error
      /\ failed => run.status = "failed" /\ run.storage_error /\ (run.owing <=> ~found)
  <2>1. result.status \in Statuses /\ result.usage \in Usage
    BY <1>3 DEF Report
  <2>2. CASE ~failed
    <3>1. run = [task |-> t, id |-> task.attempts, status |-> result.status, usage |-> result.usage,
                 storage_error |-> FALSE, owing |-> FALSE]
      BY <2>2 DEF LeftBehind, Run, result, found
    <3>. QED  BY <1>1, <1>2, <2>1, <2>2, <3>1 DEF RunRecord, Statuses
  <2>3. CASE failed
    <3>1. [result EXCEPT !.status = "failed"].usage = result.usage
      BY <1>3 DEF Report
    <3>2. run = [task |-> t, id |-> task.attempts, status |-> "failed",
                 usage |-> result.usage, storage_error |-> TRUE, owing |-> ~found]
      <4>1. run = [Run(t, task.attempts, [result EXCEPT !.status = "failed"]) EXCEPT
                     !.storage_error = TRUE, !.owing = ~found]
        BY <2>3 DEF LeftBehind, result, found
      <4>2. [result EXCEPT !.status = "failed"].status = "failed"
        BY <1>3 DEF Report
      <4>. QED  BY <3>1, <4>1, <4>2 DEF Run
    <3>. HIDE DEF run
    <3>. QED  BY <1>1, <1>2, <2>1, <2>3, <3>2 DEF RunRecord, Statuses
  <2>. QED  BY <2>2, <2>3
<1>8. run.status \in Statuses /\ run.status # "running"
  BY <1>3, <1>7 DEF Report, Statuses
<1>. HIDE DEF run
<1>9. /\ Counted(task, run, first) /\ first.recovery = task.recovery
      /\ first.limited /\ first.usage_uncertain => Resting(first)
  BY <1>1, <1>7, <1>8, OutcomeFacts
<1>10. after = IF run.storage_error
               THEN [Paused(first) EXCEPT !.recovery = IF run.owing THEN "accounting" ELSE "pending"]
               ELSE PausedIf(run.status = "interrupted", first)
  BY DEF LeftTask
<1>. HIDE DEF first, after, task, d
<1>11. /\ Counted(task, run, after)
       /\ after.limited /\ after.usage_uncertain => Resting(after)
       /\ run.status = "interrupted" \/ run.storage_error => Resting(after)
       /\ run.storage_error => after.recovery = IF run.owing THEN "accounting" ELSE "pending"
       /\ ~run.storage_error => after.recovery = task.recovery
  <2>1. CASE run.storage_error
    <3>. DEFINE recovery == IF run.owing THEN "accounting" ELSE "pending"
    <3>1. recovery \in {"pending", "accounting"} /\ after = [Paused(first) EXCEPT !.recovery = recovery]
      BY <1>10, <2>1
    <3>. HIDE DEF recovery
    <3>2. Counted(task, run, after) /\ after.recovery = recovery /\ Resting(after)
      BY <1>9, <3>1, QuarantineFacts
    <3>. QED  BY <2>1, <3>2 DEF recovery
  <2>2. CASE ~run.storage_error
    <3>1. first \in Task /\ after = PausedIf(run.status = "interrupted", first)
      BY <1>9, <1>10, <2>2 DEF Counted
    <3>2. Scheduled(first, after) /\ (run.status = "interrupted" => Resting(after))
      BY <3>1, PausedIfFacts
    <3>3. Counted(task, run, after) /\ after.recovery = first.recovery
      BY <1>9, <3>2, CountedScheduled
    <3>4. after.limited /\ after.usage_uncertain => Resting(after)
      BY <1>9, <3>2 DEF Scheduled, Resting
    <3>. QED  BY <1>9, <2>2, <3>2, <3>3, <3>4
  <2>. QED  BY <2>1, <2>2
<1>12. Sound(after, e, thread[t], spent[t]) /\ Known(run, after) /\ ~Open(after)
  <2>1. CASE ~failed
    <3>1. /\ after.recovery = task.recovery /\ ~run.owing
          /\ e.receipt.id = task.attempts
          /\ run.usage = e.receipt.result.usage /\ run.status = e.receipt.result.status
          /\ task.persistence # "fresh" => Agrees(e, task.attempts)
      BY <1>6, <1>7, <1>11, <2>1
    <3>. QED  BY <1>1, <1>6, <1>7, <1>8, <1>11, <3>1, CloseSound
  <2>2. CASE failed /\ found
    <3>1. readable /\ d.receipt.id = task.attempts
      BY <2>2 DEF found
    <3>2. /\ after.recovery = "pending" /\ Resting(after) /\ ~run.owing
          /\ run.status = "failed"
          /\ run.usage # None => Due(task, spent[t], run.usage)
          /\ e.receipt.id = task.attempts => run.usage = e.receipt.result.usage
      BY <1>3, <1>4, <1>6, <1>7, <1>11, <2>2, <3>1 DEF DueFor, Reach
    <3>. QED  BY <1>1, <1>6, <1>7, <1>8, <1>11, <3>2, CloseSound
  <2>3. CASE failed /\ ~found
    <3>1. /\ after.recovery = "accounting" /\ Resting(after)
          /\ run.owing /\ run.usage = None
      BY <1>3, <1>7, <1>11, <2>3
    <3>. QED  BY <1>1, <1>6, <1>7, <1>8, <1>11, <3>1, CloseSound
  <2>. QED  BY <2>1, <2>2, <2>3
<1>13. /\ after \in Task /\ after.last_run = task.attempts /\ after.persistence = task.persistence
       /\ Resting(task) => Resting(after)
  BY <1>7, <1>11 DEF Counted, Resting
<1>14. run.usage # None => e.receipt.result.usage = run.usage
  <2>1. CASE ~found
    BY <1>3, <1>7, <2>1
  <2>2. CASE found
    <3>1. readable /\ result = d.receipt.result
      BY <1>3, <2>2 DEF found
    <3>2. e.receipt.result = result
      BY <1>6, <3>1
    <3>. QED  BY <1>7, <3>2
  <2>. QED  BY <2>1, <2>2
<1>. HIDE DEF failed
<1>. QED  BY <1>6, <1>7, <1>8, <1>11, <1>12, <1>13, <1>14 DEF task, run, after, e

(* Every task is closed and sound once start has settled what it found.       *)
LEMMA SettledFacts ==
  ASSUME IInv, NEW readable \in BOOLEAN, NEW reach \in Reach, ~readable => reach = "all",
         NEW t \in Tasks
  PROVE  LET settled == SettledTasks(readable, reach)[t]
             d       == SettledDisk(readable, reach)[t]
         IN
         /\ settled \in Task /\ settled.persistence = tasks[t].persistence
         /\ settled.last_run = tasks[t].attempts
         /\ d \in Files /\ Sound(tasks[t], d, thread[t], spent[t])
         /\ Sound(settled, d, thread[t], spent[t]) /\ ~Open(settled)
         /\ t \notin Claimed => settled = tasks[t] /\ d = disk[t]
         /\ t \in Claimed => Open(tasks[t])
         /\ Resting(tasks[t]) => Resting(settled)
         /\ t \in Claimed /\ (\/ LeftBehind(t, readable, reach).status = "interrupted"
                              \/ LeftBehind(t, readable, reach).storage_error) => Resting(settled)
<1>1. /\ tasks[t] \in Task /\ disk[t] \in Files /\ Sound(tasks[t], disk[t], thread[t], spent[t])
      /\ Running(t) <=> Open(tasks[t])
      /\ tasks[t].attempts \in Nat /\ tasks[t].last_run \in Nat
  BY DEF IInv, Typed, Listed, Task
<1>2. t \in Claimed <=> Running(t)
  BY DEF Claimed, Claims, Running
<1>3. CASE t \in Claimed
  <2>. DEFINE run == LeftBehind(t, readable, reach)
  <2>1. SettledTasks(readable, reach)[t] = LeftTask(t, run)
    BY <1>3 DEF SettledTasks
  <2>2. SettledDisk(readable, reach)[t] = LeftOnDisk(t, readable, reach)
    BY <1>3 DEF SettledDisk
  <2>3. /\ LeftOnDisk(t, readable, reach) \in Files
        /\ Sound(tasks[t], LeftOnDisk(t, readable, reach), thread[t], spent[t])
        /\ LeftTask(t, run) \in Task /\ LeftTask(t, run).last_run = tasks[t].attempts
        /\ LeftTask(t, run).persistence = tasks[t].persistence
        /\ Sound(LeftTask(t, run), LeftOnDisk(t, readable, reach), thread[t], spent[t])
        /\ ~Open(LeftTask(t, run))
        /\ run.status = "interrupted" \/ run.storage_error \/ Resting(tasks[t]) =>
             Resting(LeftTask(t, run))
    BY <1>2, <1>3, LeftFacts
  <2>. QED  BY <1>1, <1>2, <1>3, <2>1, <2>2, <2>3
<1>4. CASE t \notin Claimed
  <2>1. SettledTasks(readable, reach)[t] = tasks[t] /\ SettledDisk(readable, reach)[t] = disk[t]
    BY <1>4 DEF SettledTasks, SettledDisk
  <2>. QED  BY <1>1, <1>2, <1>4, <2>1 DEF Open
<1>. QED  BY <1>3, <1>4

LEMMA SettledRunsFacts ==
  ASSUME IInv, NEW readable \in BOOLEAN, NEW reach \in Reach, ~readable => reach = "all"
  PROVE  LET rs == SettledRuns(readable, reach) IN
         /\ rs \in Seq(RunRecord) /\ Len(rs) = Len(runs) /\ DOMAIN rs = DOMAIN runs
         /\ \A i \in DOMAIN rs :
              /\ rs[i].task \in Tasks /\ rs[i].status # "running"
              /\ Known(rs[i], SettledTasks(readable, reach)[rs[i].task])
<1>. DEFINE rs == SettledRuns(readable, reach)
<1>1. Typed /\ \A i \in DOMAIN runs : runs[i] \in RunRecord /\ runs[i].task \in Tasks
  BY RunTypes DEF IInv
<1>2. CASE Claims = {}
  <2>1. rs = [i \in DOMAIN runs |-> runs[i]] /\ runs = [i \in DOMAIN runs |-> runs[i]]
    <3>1. rs = [i \in DOMAIN runs |-> runs[i]]
      BY <1>2 DEF SettledRuns, Claims
    <3>2. runs = [i \in DOMAIN runs |-> runs[i]]
      BY <1>1, LenProperties DEF Typed
    <3>. QED  BY <3>1, <3>2
  <2>2. \A u \in Tasks : SettledTasks(readable, reach)[u] = tasks[u]
    BY <1>2 DEF SettledTasks, Claimed
  <2>3. \A i \in DOMAIN runs : runs[i].status # "running" /\ Known(runs[i], tasks[runs[i].task])
    BY <1>2 DEF IInv, Listed, Claims
  <2>. QED  BY <1>1, <2>1, <2>2, <2>3 DEF Typed
<1>3. ASSUME NEW j \in Claims
      PROVE  /\ rs \in Seq(RunRecord) /\ Len(rs) = Len(runs) /\ DOMAIN rs = DOMAIN runs
             /\ \A i \in DOMAIN rs :
                  /\ rs[i].task \in Tasks /\ rs[i].status # "running"
                  /\ Known(rs[i], SettledTasks(readable, reach)[rs[i].task])
  <2>. DEFINE t     == runs[j].task
              run   == LeftBehind(t, readable, reach)
              after == LeftTask(t, run)
              ns    == [i \in DOMAIN runs |-> IF i \in Claims THEN run ELSE runs[i]]
  <2>1. t \in Tasks /\ Running(t)
    BY <1>1 DEF Claims, Running
  <2>2. /\ run \in RunRecord /\ run.task = t /\ run.status # "running"
        /\ after.last_run = tasks[t].attempts /\ Known(run, after)
    BY <2>1, LeftFacts
  <2>. HIDE DEF run, after
  <2>3. /\ ns \in Seq(RunRecord) /\ Len(ns) = Len(runs) /\ DOMAIN ns = DOMAIN runs
        /\ \A i \in DOMAIN runs :
             /\ ns[i].status # "running" /\ ns[i].task = runs[i].task
             /\ ns[i].task = t => Known(ns[i], after)
             /\ ns[i].task # t => Known(ns[i], tasks[ns[i].task])
        /\ \A i \in DOMAIN runs : i \in Claims <=> runs[i].task = t /\ runs[i].id = tasks[t].attempts
        /\ \A i \in Claims : runs[i].task = t
        /\ \A u \in Tasks \ {t} : ~Open(tasks[u])
        /\ Open(tasks[t])
    BY <2>1, <2>2, ClosedRuns
  <2>4. rs = ns
    BY <2>3 DEF SettledRuns, Claims, run
  <2>5. Claimed = {t}
    BY <1>3, <2>3 DEF Claimed
  <2>6. \A u \in Tasks : SettledTasks(readable, reach)[u] = IF u = t THEN after ELSE tasks[u]
    BY <2>5 DEF SettledTasks, after, run
  <2>. HIDE DEF rs, ns, t
  <2>7. \A i \in DOMAIN runs : ns[i].task \in Tasks
    BY <1>1, <2>3
  <2>8. \A i \in DOMAIN runs : Known(ns[i], SettledTasks(readable, reach)[ns[i].task])
    BY <2>3, <2>6, <2>7
  <2>. QED  BY <2>3, <2>4, <2>7, <2>8
<1>. QED  BY <1>2, <1>3

(* A recovery that start has not saved is one of a claim that stays open.     *)
LEMMA UnsavedSound ==
  ASSUME Typed, NEW t \in Tasks, NEW task \in Task, task.persistence = tasks[t].persistence,
         NEW d \in Files, NEW metered \in Nat, NEW used \in Nat, NEW reach \in Reach,
         Sound(task, d, metered, used), Open(task),
         NEW after, after.last_run = task.attempts
  PROVE  LET e == ReconciledDisk(t, after, d, reach) IN
         e \in Files /\ Sound(task, e, metered, used)
<1>1. CASE Pending(after) /\ d.receipt.id = after.last_run /\ Lacking(t, d, after.last_run)
  <2>1. d.receipt.id = task.attempts /\ d.receipt.result \in Report
    BY <1>1 DEF Files
  <2>2. /\ DueFor(task, used, d.receipt.result)
        /\ d.receipt.result.total # None => d.receipt.result.total = metered
    BY <2>1 DEF Sound, Accounts, Meters
  <2>. DEFINE e == Recorded(t, d, task.attempts, d.receipt.result, reach)
  <2>3. e \in Files /\ Sound(task, e, metered, used)
    BY <2>1, <2>2, RecordSound
  <2>4. ReconciledDisk(t, after, d, reach) = e
    BY <1>1 DEF ReconciledDisk
  <2>. QED  BY <2>3, <2>4
<1>2. CASE ~(Pending(after) /\ d.receipt.id = after.last_run /\ Lacking(t, d, after.last_run))
  BY <1>2 DEF ReconciledDisk
<1>. QED  BY <1>1, <1>2

LEMMA StartStep ==
  ASSUME IInv, NEW w \in Workers, worker[w].at = "off", holders = {},
         NEW readable \in BOOLEAN, NEW saved \in BOOLEAN, NEW reach \in Reach, NEW how \in Reach,
         NEW blocked \in SUBSET Tasks, Start(w, readable, reach, blocked, how, saved)
  PROVE  IInv'
<1>. DEFINE settled == SettledTasks(readable, reach)
            d       == SettledDisk(readable, reach)
            Far(t)  == IF t \in blocked THEN how ELSE "all"
            done    == {t \in Tasks : Reconcilable(settled[t], d[t], Far(t))}
            new(t)  == ReconciledTask(settled[t], d[t], Far(t))
            e(t)    == ReconciledDisk(t, settled[t], d[t], Far(t))
            rs      == SettledRuns(readable, reach)
            p       == [Off EXCEPT !.at = "idle"]
<1>1. /\ ~readable => reach = "all"
      /\ disk' = [t \in Tasks |-> e(t)]
      /\ saved => /\ worker' = [worker EXCEPT ![w] = p] /\ holders' = {w}
                  /\ tasks' = [t \in Tasks |-> new(t)]
                  /\ runs' = ReconciledRuns(rs, done, settled, d)
                  /\ unseen' = unseen \cup {t \in Claimed :
                                 LeftBehind(t, readable, reach).status = "interrupted"
                                 \/ LeftBehind(t, readable, reach).storage_error}
      /\ ~saved => UNCHANGED <<worker, holders, tasks, runs, unseen>>
      /\ UNCHANGED <<provider, thread, spent>>
  BY DEF Start, hot
<1>2. /\ Typed /\ Leased /\ \A v \in Workers : worker[v].at = "off"
      /\ provider = None
      /\ Claimed \subseteq Tasks
  <2>1. Claimed \subseteq Tasks
    BY RunTypes DEF IInv, Claimed, Claims
  <2>. QED  BY <2>1 DEF IInv, Leased
<1>3. faults' \in [deaths : 0 .. MaxDeaths, failures : 0 .. MaxFailures]
  <2>. DEFINE n == Fault(reach, saved) + (IF readable THEN 0 ELSE 1) + Cardinality(blocked)
  <2>1. Cardinality(blocked) \in Nat
    BY FS_Subset, FS_CardinalityType, AgentTasksAssumption
  <2>2. n \in Nat
    BY <2>1, FaultType
  <2>3. Costs(n)
    BY DEF Start
  <2>. HIDE DEF n
  <2>. QED  BY <1>2, <2>2, <2>3, CostsType
<1>4. \A t : Far(t) \in Reach
  BY DEF Reach
<1>5. ASSUME NEW t \in Tasks
      PROVE  /\ settled[t] \in Task /\ settled[t].persistence = tasks[t].persistence
             /\ settled[t].last_run = tasks[t].attempts
             /\ d[t] \in Files /\ Sound(tasks[t], d[t], thread[t], spent[t])
             /\ Sound(settled[t], d[t], thread[t], spent[t]) /\ ~Open(settled[t])
             /\ t \notin Claimed => settled[t] = tasks[t] /\ d[t] = disk[t]
             /\ t \in Claimed => Open(tasks[t])
             /\ Resting(tasks[t]) => Resting(settled[t])
             /\ t \in Claimed /\ (\/ LeftBehind(t, readable, reach).status = "interrupted"
                                  \/ LeftBehind(t, readable, reach).storage_error) =>
                  Resting(settled[t])
  BY <1>1, SettledFacts
<1>6. /\ rs \in Seq(RunRecord) /\ Len(rs) = Len(runs) /\ DOMAIN rs = DOMAIN runs
      /\ \A i \in DOMAIN rs :
           /\ rs[i].task \in Tasks /\ rs[i].status # "running"
           /\ Known(rs[i], settled[rs[i].task])
  BY <1>1, SettledRunsFacts
<1>7. settled \in [Tasks -> Task] /\ d \in [Tasks -> Files]
  <2>1. settled = [t \in Tasks |-> settled[t]] /\ d = [t \in Tasks |-> d[t]]
    BY DEF SettledTasks, SettledDisk
  <2>. HIDE DEF settled, d
  <2>. QED  BY <1>5, <2>1
<1>. HIDE DEF settled, d, rs, Far
<1>8. ASSUME NEW t \in Tasks
      PROVE  /\ e(t) \in Files
             /\ Sound(settled[t], e(t), thread[t], spent[t])
             /\ Sound(tasks[t], e(t), thread[t], spent[t])
             /\ new(t) \in Task /\ Sound(new(t), e(t), thread[t], spent[t]) /\ ~Open(new(t))
             /\ Resting(settled[t]) => Resting(new(t))
             /\ t \notin done => new(t) = settled[t]
  <2>1. thread[t] \in Nat /\ spent[t] \in Nat /\ tasks[t] \in Task
    BY <1>2 DEF Typed
  <2>2. e(t) \in Files /\ Sound(settled[t], e(t), thread[t], spent[t])
    BY <1>2, <1>4, <1>5, <2>1, ReconciledDiskFacts
  <2>3. Sound(new(t), e(t), thread[t], spent[t])
    BY <1>2, <1>4, <1>5, <2>1, ReconcileSound
  <2>4. /\ new(t) \in Task /\ (t \notin done => new(t) = settled[t])
        /\ new(t).attempts = settled[t].attempts /\ new(t).last_run = settled[t].last_run
        /\ new(t).enabled = settled[t].enabled /\ new(t).queued = settled[t].queued
    BY <1>5, ReconciledTaskFacts
  <2>5. Sound(tasks[t], e(t), thread[t], spent[t])
    <3>1. CASE t \in Claimed
      BY <1>2, <1>4, <1>5, <2>1, <3>1, UnsavedSound
    <3>2. CASE t \notin Claimed
      BY <1>5, <2>2, <3>2
    <3>. QED  BY <3>1, <3>2
  <2>. HIDE DEF new, e, done
  <2>. QED  BY <1>5, <2>2, <2>3, <2>4, <2>5 DEF Open, Resting
<1>9. /\ disk' \in [Tasks -> Files]
      /\ \A t \in Tasks : disk'[t] = e(t)
  BY <1>1, <1>8
<1>10. CASE ~saved
  <2>1. /\ \A t \in Tasks : Sound(tasks[t], disk'[t], thread[t], spent[t])
        /\ \A v \in Workers : worker[v].at \notin InRun
    BY <1>2, <1>8, <1>9 DEF InRun
  <2>2. UNCHANGED <<tasks, runs, worker, holders, provider, thread, spent, unseen>>
    BY <1>1, <1>10
  <2>. QED  BY <1>3, <1>9, <2>1, <2>2, DiskStep
<1>11. CASE saved
  <2>. HIDE DEF e
  <2>1. tasks' \in [Tasks -> Task] /\ \A t \in Tasks : tasks'[t] = new(t)
    BY <1>1, <1>8, <1>11
  <2>2. done \in SUBSET Tasks
    OBVIOUS
  <2>3. LET ns == ReconciledRuns(rs, done, settled, d) IN
        /\ ns \in Seq(RunRecord) /\ Len(ns) = Len(rs) /\ DOMAIN ns = DOMAIN rs
        /\ \A i \in DOMAIN rs :
             /\ ns[i] = (IF rs[i].task \in done /\ rs[i].id = settled[rs[i].task].last_run
                         THEN Told(rs[i], d[rs[i].task].receipt.result.usage)
                         ELSE rs[i])
             /\ ns[i].task = rs[i].task /\ ns[i].id = rs[i].id /\ ns[i].status = rs[i].status
    <3>. HIDE DEF done
    <3>. QED  BY <1>6, <1>7, <2>2, ReconciledRunsFacts
  <2>4. /\ runs' \in Seq(RunRecord) /\ Len(runs') = Len(runs) /\ DOMAIN runs' = DOMAIN rs
        /\ \A i \in DOMAIN rs :
             /\ runs'[i] = (IF rs[i].task \in done /\ rs[i].id = settled[rs[i].task].last_run
                            THEN Told(rs[i], d[rs[i].task].receipt.result.usage)
                            ELSE rs[i])
             /\ runs'[i].task = rs[i].task /\ runs'[i].status = rs[i].status
    <3>. HIDE DEF done
    <3>. QED  BY <1>1, <1>6, <1>11, <2>3
  <2>5. ASSUME NEW i \in DOMAIN runs'
        PROVE  runs'[i].status # "running" /\ Known(runs'[i], tasks'[runs'[i].task])
    <3>. DEFINE t == rs[i].task
    <3>1. /\ rs[i] \in RunRecord /\ t \in Tasks /\ rs[i].status # "running"
          /\ Known(rs[i], settled[t])
          /\ runs'[i].task = t /\ runs'[i].status = rs[i].status
          /\ runs'[i] = (IF t \in done /\ rs[i].id = settled[t].last_run
                         THEN Told(rs[i], d[t].receipt.result.usage)
                         ELSE rs[i])
      <4>1. i \in DOMAIN rs /\ i \in 1 .. Len(rs)
        BY <1>6, <2>4, LenProperties
      <4>. HIDE DEF done
      <4>. QED  BY <1>6, <2>4, <4>1, ElementOfSeq
    <3>. HIDE DEF t
    <3>2. Known(runs'[i], new(t))
      <4>1. CASE t \in done
        <5>1. Reconcilable(settled[t], d[t], Far(t))
          BY <4>1
        <5>. HIDE DEF done
        <5>2. /\ rs[i].id # settled[t].last_run => Known(rs[i], new(t))
              /\ rs[i].id = settled[t].last_run =>
                   Known(Told(rs[i], d[t].receipt.result.usage), new(t))
          BY <1>5, <3>1, <5>1, ReconcileKnown
        <5>. HIDE DEF new
        <5>. QED  BY <3>1, <4>1, <5>2
      <4>2. CASE t \notin done
        <5>. HIDE DEF new, done
        <5>. QED  BY <1>8, <3>1, <4>2
      <4>. QED  BY <4>1, <4>2
    <3>. HIDE DEF new, done
    <3>. QED  BY <2>1, <3>1, <3>2
  <2>. HIDE DEF new, done
  <2>6. p \in Process /\ p.at = "idle"
    BY DEF Off, Process, Result, Report, Statuses, Usage
  <2>. HIDE DEF p
  <2>7. /\ worker' \in [Workers -> Process]
        /\ \A v \in Workers : worker'[v] = IF v = w THEN p ELSE worker[v]
    BY <1>1, <1>2, <1>11, <2>6 DEF Typed
  <2>8. /\ \A v \in Workers : worker'[v].at \notin InRun
        /\ \A v \in Workers : worker'[v].at # "off" <=> v \in holders'
        /\ \A u, v \in Workers : worker'[u].at # "off" /\ worker'[v].at # "off" => u = v
        /\ provider' = None /\ Provider \notin holders'
    BY <1>1, <1>2, <1>11, <2>6, <2>7, AgentTasksAssumption DEF InRun
  <2>9. Typed'
    <3>1. unseen' \subseteq Tasks
      BY <1>1, <1>2, <1>11 DEF Typed
    <3>. QED  BY <1>1, <1>2, <1>3, <1>9, <1>11, <2>1, <2>4, <2>7, <3>1 DEF Typed
  <2>10. \A t \in Tasks : ~Open(tasks'[t]) /\ Sound(tasks'[t], disk'[t], thread'[t], spent'[t])
    BY <1>1, <1>8, <1>9, <2>1
  <2>11. ASSUME NEW t \in unseen' PROVE Resting(tasks'[t])
    <3>1. t \in Tasks /\ Resting(settled[t])
      <4>1. CASE t \in unseen
        BY <1>2, <1>5, <4>1 DEF IInv, Typed
      <4>2. CASE t \notin unseen
        BY <1>1, <1>2, <1>5, <1>11, <2>11, <4>2
      <4>. QED  BY <4>1, <4>2
    <3>. QED  BY <1>8, <2>1, <3>1
  <2>. QED  BY <2>5, <2>8, <2>9, <2>10, <2>11, ClosedStep
<1>. QED  BY <1>10, <1>11

-----------------------------------------------------------------------------
(* The invariant.                                                           *)

LEMMA InitInv == ASSUME Init PROVE IInv
<1>1. \A kind \in Kinds :
        /\ NewTask(kind) \in Task
        /\ NewTask(kind).attempts = 0 /\ NewTask(kind).last_run = 0
        /\ NewTask(kind).tokens_used = 0 /\ NewTask(kind).recovery = "none"
        /\ ~NewTask(kind).usage_uncertain /\ ~NewTask(kind).auto_paused
  BY AgentTasksAssumption DEF NewTask, Task
<1>2. /\ tasks \in [Tasks -> Task]
      /\ \A t \in Tasks : /\ tasks[t].attempts = 0 /\ tasks[t].last_run = 0
                          /\ tasks[t].tokens_used = 0 /\ tasks[t].recovery = "none"
                          /\ ~tasks[t].usage_uncertain /\ ~tasks[t].auto_paused
  <2>1. tasks \in [Tasks -> {NewTask(kind) : kind \in Kinds}]
    BY DEF Init
  <2>2. \A t \in Tasks : \E kind \in Kinds : tasks[t] = NewTask(kind)
    BY <2>1
  <2>. QED  BY <1>1, <2>1, <2>2
<1>. DEFINE files == [receipt |-> NoReceipt, context |-> NoContext]
<1>3. /\ files \in Files /\ files.receipt.id = 0 /\ files.receipt.result.usage = None
      /\ files.receipt.result.total = None /\ files.receipt.result.status = "failed"
      /\ files.context.last_run = 0 /\ files.context.checkpoint = 0 /\ files.context.total = None
  <2>1. "failed" \in Statuses /\ None \in Usage
    BY DEF Statuses, Usage
  <2>2. LET r == Result("failed", None) IN
        r \in Report /\ r.usage = None /\ r.total = None /\ r.status = "failed"
    BY <2>1, ResultFacts
  <2>3. NoContext \in Context
    BY DEF NoContext, Context, Usage
  <2>. QED  BY <2>2, <2>3 DEF Files, NoReceipt, NoContext
<1>4. Off \in Process /\ Off.at = "off"
  BY DEF Off, Process, Result, Report, Statuses, Usage
<1>. HIDE DEF files
<1>5. /\ disk \in [Tasks -> Files] /\ worker \in [Workers -> Process]
      /\ \A t \in Tasks : disk[t] = files /\ thread[t] = 0 /\ spent[t] = 0
      /\ \A w \in Workers : worker[w].at = "off"
  BY <1>3, <1>4 DEF Init, files
<1>6. runs = <<>> /\ runs \in Seq(RunRecord) /\ Len(runs) = 0 /\ DOMAIN runs = {}
  <2>1. runs \in Seq(RunRecord) /\ Len(runs) = 0
    BY EmptySeq DEF Init
  <2>2. DOMAIN runs = 1 .. 0
    BY <2>1, LenProperties
  <2>. QED  BY <2>1, <2>2 DEF Init
<1>7. Typed
  <2>1. [deaths |-> 0, failures |-> 0] \in [deaths : 0 .. MaxDeaths, failures : 0 .. MaxFailures]
    BY AgentTasksAssumption
  <2>2. Len(runs) <= MaxHistory
    BY <1>6, AgentTasksAssumption
  <2>. QED  BY <1>2, <1>5, <1>6, <2>1, <2>2 DEF Init, Typed
<1>8. Claims = {} /\ \A t : ~Running(t)
  BY <1>6 DEF Claims, Running
<1>9. Leased /\ RecoveryWaits /\ NoClaimBlocks
  BY <1>5, <1>8 DEF Init, Leased, RecoveryWaits, NoClaimBlocks, InRun
<1>10. Listed
  BY <1>2, <1>6, <1>8 DEF Listed, Open
<1>11. ASSUME NEW t \in Tasks PROVE Sound(tasks[t], files, 0, 0)
  <2>1. MaxRuns \in Nat
    BY AgentTasksAssumption
  <2>2. Numbers(tasks[t], files) /\ Meters(tasks[t], files, 0)
    BY <1>2, <1>3, <2>1 DEF Numbers, Meters
  <2>3. Settings(tasks[t], files)
    BY <1>2 DEF Settings, Pending
  <2>4. Accounts(tasks[t], files, 0) /\ Records(tasks[t], files)
    BY <1>2, <1>3 DEF Accounts, Records, Open
  <2>. QED  BY <2>2, <2>3, <2>4 DEF Sound
<1>12. \A t \in Tasks : Sound(tasks[t], disk[t], thread[t], spent[t])
  BY <1>5, <1>11
<1>13. unseen = {}
  BY DEF Init
<1>. QED  BY <1>5, <1>7, <1>9, <1>10, <1>12, <1>13 DEF IInv, InRun

LEMMA StepInv == ASSUME IInv, [Next]_vars PROVE IInv'
<1>1. CASE UNCHANGED vars
  <2>1. Typed'
    BY <1>1 DEF IInv, Typed, vars
  <2>2. Claims' = Claims /\ \A u : Running(u)' <=> Running(u)
    BY <1>1 DEF Claims, Running, vars
  <2>3. Leased' /\ RecoveryWaits' /\ NoClaimBlocks'
    BY <1>1, <2>2, SameLease DEF IInv, vars
  <2>4. Listed'
    BY <1>1, <2>2 DEF IInv, Listed, vars
  <2>. QED  BY <1>1, <2>1, <2>3, <2>4 DEF IInv, vars
<1>2. ASSUME NEW t \in Tasks, Operates(t) PROVE IInv'
  <2>1. CASE Cancel(t) \/ Pause(t) \/ Notify(t)
    BY <2>1, CancelStep, PauseStep, NotifyStep
  <2>2. CASE \E limited \in BOOLEAN, total \in Totals \cup {None} : Update(t, limited, total)
    BY <2>2, UpdateStep
  <2>3. CASE \E reach \in Reach, saved \in BOOLEAN :
               RunNow(t, reach, saved) \/ Resume(t, reach, saved) \/ ResetContext(t, reach, saved)
    BY <2>3, RunNowStep, ResumeStep, ResetContextStep
  <2>. QED  BY <1>2, <2>1, <2>2, <2>3 DEF Operates
<1>3. ASSUME NEW w \in Workers, Starts(w) PROVE IInv'
  BY <1>3, StartStep DEF Starts
<1>4. ASSUME NEW w \in Workers, Works(w) PROVE IInv'
  <2>1. CASE EnforceLimits(w) \/ \E t \in Tasks : Claim(w, t)
    BY <2>1, EnforceLimitsStep, ClaimStep
  <2>2. CASE \E result \in Early, stopped \in BOOLEAN : NotLaunched(w, result, stopped)
    BY <2>2, NotLaunchedStep
  <2>3. CASE Launch(w) \/ Identify(w) \/ Exit(w)
    BY <2>3, LaunchStep, IdentifyStep, ExitStep
  <2>4. CASE \E status \in Statuses, reported, total, stopped \in BOOLEAN :
               Collect(w, status, reported, total, stopped)
    BY <2>4, CollectStep
  <2>5. CASE \E reach \in Reach, saved \in BOOLEAN : Finish(w, reach, saved)
    BY <2>5, FinishStep
  <2>. QED  BY <1>4, <2>1, <2>2, <2>3, <2>4, <2>5 DEF Works
<1>5. ASSUME NEW w \in Workers, NEW reach \in Reach, Die(w, reach) PROVE IInv'
  BY <1>5, DieStep
<1>6. CASE ProviderEnds
  BY <1>6, ProviderEndsStep
<1>. QED  BY <1>1, <1>2, <1>3, <1>4, <1>5, <1>6 DEF Next

(* Invariance: whatever dies or cannot be written, and whatever operators do  *)
(* meanwhile, the counters, the receipt and the context of every task say of   *)
(* each other what Sound states, and only one claim is ever open.            *)
THEOREM Invariance == Spec => []IInv
<1>1. Init => IInv
  BY InitInv
<1>2. IInv /\ [Next]_vars => IInv'
  BY StepInv
<1>. QED  BY <1>1, <1>2, PTL DEF Spec

-----------------------------------------------------------------------------
(* The limit of the counters.  Every transaction loads counters that respect  *)
(* it, and only the charge of a run that ends can leave one that does not.     *)

(* The last run of a task is on record, and charging it took the task's       *)
(* counter past the limit, if anything did.                                 *)
LastCharge(rs, t, task) ==
  \E i \in DOMAIN rs :
    /\ rs[i].task = t /\ rs[i].id = task.last_run
    /\ rs[i].usage # None
    /\ task.tokens_used <= MaxTokens + rs[i].usage

Limited == \A t \in Tasks : tasks[t].tokens_used > MaxTokens => LastCharge(runs, t, tasks[t])

LEMMA ReconciledWithin ==
  ASSUME NEW task \in Task, NEW d \in Files, NEW reach
  PROVE  LET new == ReconciledTask(task, d, reach) IN
         new.tokens_used = task.tokens_used \/ new.tokens_used <= MaxTokens
<1>1. CASE Reconcilable(task, d, reach) /\ task.recovery = "accounting"
  BY <1>1, ReconciledTaskFacts DEF Addable
<1>2. CASE ~(Reconcilable(task, d, reach) /\ task.recovery = "accounting")
  BY <1>2, ReconciledTaskFacts DEF Reconcilable, Pending
<1>. QED  BY <1>1, <1>2

(* What a charge adds is known, and only that.                               *)
LEMMA ChargedWithin ==
  ASSUME NEW task \in Task, NEW run \in RunRecord, NEW after, Counted(task, run, after),
         task.tokens_used <= MaxTokens, after.tokens_used > MaxTokens
  PROVE  run.usage # None /\ after.tokens_used <= MaxTokens + run.usage
<1>1. task.tokens_used \in Nat /\ run.usage \in Nat \cup {None} /\ MaxTokens \in Nat
  BY AgentTasksAssumption DEF Task, RunRecord, Usage
<1>2. after.tokens_used = (IF run.usage = None THEN task.tokens_used
                           ELSE task.tokens_used + run.usage)
  BY DEF Counted
<1>3. run.usage # None
  BY <1>1, <1>2
<1>. QED  BY <1>1, <1>2, <1>3

LEMMA SettlesTokens ==
  ASSUME IInv, Loads, NEW t \in Tasks, NEW reach, NEW saved, NEW new, NEW e, NEW seen,
         Settles(t, reach, saved, new, e, seen), new.tokens_used <= MaxTokens, NEW u \in Tasks
  PROVE  tasks'[u].tokens_used <= MaxTokens
<1>1. tasks' = [tasks EXCEPT ![t] = new] \/ tasks' = tasks
  BY DEF Settles, hot
<1>. QED  BY <1>1 DEF IInv, Typed, Loads

LEMMA OperatorTokens ==
  ASSUME IInv, NEW t \in Tasks, Operates(t), NEW u \in Tasks
  PROVE  tasks'[u].tokens_used <= MaxTokens
<1>1. /\ tasks \in [Tasks -> Task] /\ tasks[t] \in Task /\ disk[t] \in Files
      /\ Loads /\ tasks[u].tokens_used <= MaxTokens /\ tasks[t].tokens_used <= MaxTokens
  BY DEF IInv, Typed, Operates, Loads
<1>2. CASE Cancel(t) \/ Pause(t) \/ Notify(t)
  <2>1. CASE Cancel(t)
    <3>. DEFINE cancelled == tasks[t].cancel_requested \/ Running(t)
    <3>1. tasks' = [tasks EXCEPT ![t].queued = FALSE, ![t].events = FALSE,
                                 ![t].cancel_requested = cancelled]
      BY <1>1, <2>1 DEF Cancel
    <3>. HIDE DEF cancelled
    <3>. QED  BY <1>1, <3>1 DEF Task
  <2>2. CASE Pause(t)
    BY <1>1, <2>2 DEF Pause, Paused, Task
  <2>3. CASE Notify(t)
    BY <1>1, <2>3 DEF Notify, Task
  <2>. QED  BY <1>2, <2>1, <2>2, <2>3
<1>3. ASSUME NEW limited \in BOOLEAN, NEW total \in Totals \cup {None}, Update(t, limited, total)
      PROVE  tasks'[u].tokens_used <= MaxTokens
  <2>1. total # None => total <= MaxTokens
    BY AgentTasksAssumption
  <2>. QED  BY <1>1, <1>3, <2>1 DEF Update, Paused, PausedIf, Task
<1>4. ASSUME NEW reach \in Reach, NEW saved \in BOOLEAN,
             RunNow(t, reach, saved) \/ Resume(t, reach, saved) \/ ResetContext(t, reach, saved)
      PROVE  tasks'[u].tokens_used <= MaxTokens
  <2>. DEFINE task == ReconciledTask(tasks[t], disk[t], reach)
  <2>1. task \in Task /\ task.tokens_used <= MaxTokens
    BY <1>1, ReconciledTaskFacts, ReconciledWithin
  <2>. HIDE DEF task
  <2>2. /\ Paused(task).tokens_used <= MaxTokens
        /\ [task EXCEPT !.queued = TRUE].tokens_used <= MaxTokens
        /\ [task EXCEPT !.enabled = TRUE, !.auto_paused = FALSE, !.failures = 0,
                        !.queued = task.events].tokens_used <= MaxTokens
    BY <2>1 DEF Paused, Task
  <2>3. \E new, e, seen : /\ Settles(t, reach, saved, new, e, seen)
                          /\ new.tokens_used <= MaxTokens
    <3>1. CASE RunNow(t, reach, saved)
      BY <2>2, <3>1 DEF RunNow, task
    <3>2. CASE Resume(t, reach, saved)
      BY <2>2, <3>2 DEF Resume, task
    <3>3. CASE ResetContext(t, reach, saved)
      BY <2>1, <3>3 DEF ResetContext, task
    <3>. QED  BY <1>4, <3>1, <3>2, <3>3
  <2>. QED  BY <1>1, <2>3, SettlesTokens
<1>. QED  BY <1>2, <1>3, <1>4 DEF Operates

LEMMA FinishTokens ==
  ASSUME IInv, NEW w \in Workers, NEW reach \in Reach, NEW saved \in BOOLEAN,
         Finish(w, reach, saved), NEW u \in Tasks, tasks'[u].tokens_used > MaxTokens
  PROVE  LastCharge(runs', u, tasks'[u])
<1>. DEFINE t     == worker[w].task
            run   == FinishedRun(w, reach)
            after == FinishedTask(w, run)
<1>1. /\ worker[w].at = "collected" /\ Loads /\ tasks \in [Tasks -> Task]
      /\ \A v \in Tasks : tasks[v].tokens_used \in Nat /\ tasks[v].tokens_used <= MaxTokens
  BY DEF Finish, IInv, Typed, Loads, Task
<1>2. /\ run \in RunRecord /\ run.task = t /\ run.id = tasks[t].attempts
      /\ after \in Task /\ after.last_run = tasks[t].attempts
      /\ Counted(tasks[t], run, after)
  BY <1>1, FinishedFacts
<1>3. t \in Tasks /\ Running(t)
  BY <1>1, InHand DEF InRun
<1>4. \/ tasks' = tasks
      \/ tasks' = [tasks EXCEPT ![t] = after] /\ runs' = WithRun(runs, run)
  BY DEF Finish, hot
<1>5. PICK i \in DOMAIN runs : runs[i].task = t /\ runs[i].id = tasks[t].attempts
  BY <1>3 DEF Running, IInv, Listed, Known
<1>. HIDE DEF run, after, t
<1>6. MaxTokens \in Nat
  BY AgentTasksAssumption
<1>7. u = t /\ tasks'[u] = after /\ runs' = WithRun(runs, run)
  BY <1>1, <1>3, <1>4, <1>6
<1>8. i \in DOMAIN runs' /\ runs'[i] = run
  BY <1>2, <1>5, <1>7 DEF WithRun
<1>9. run.usage # None /\ after.tokens_used <= MaxTokens + run.usage
  BY <1>1, <1>2, <1>3, <1>7, ChargedWithin
<1>. QED  BY <1>2, <1>7, <1>8, <1>9 DEF LastCharge

LEMMA StartTokens ==
  ASSUME IInv, NEW w \in Workers, Starts(w), NEW u \in Tasks, tasks'[u].tokens_used > MaxTokens
  PROVE  LastCharge(runs', u, tasks'[u])
<1>1. PICK readable \in BOOLEAN, saved \in BOOLEAN, reach \in Reach, how \in Reach,
           blocked \in SUBSET Tasks :
        Start(w, readable, reach, blocked, how, saved)
  BY DEF Starts
<1>. DEFINE settled == SettledTasks(readable, reach)
            d       == SettledDisk(readable, reach)
            Far(t)  == IF t \in blocked THEN how ELSE "all"
            done    == {t \in Tasks : Reconcilable(settled[t], d[t], Far(t))}
            rs      == SettledRuns(readable, reach)
            run     == LeftBehind(u, readable, reach)
<1>2. /\ MaxTokens \in Nat /\ tasks[u].tokens_used \in Nat /\ tasks[u].tokens_used <= MaxTokens
      /\ tasks[u] \in Task
  BY AgentTasksAssumption DEF Starts, Loads, IInv, Typed, Task
<1>3. saved /\ (~readable => reach = "all")
  BY <1>1, <1>2 DEF Start, hot
<1>4. /\ tasks'[u] = ReconciledTask(settled[u], d[u], Far(u))
      /\ runs' = ReconciledRuns(rs, done, settled, d)
  BY <1>1, <1>3 DEF Start
<1>5. \A t \in Tasks : settled[t] \in Task /\ d[t] \in Files
  BY <1>3, SettledFacts
<1>6. settled \in [Tasks -> Task] /\ d \in [Tasks -> Files]
  <2>1. settled = [t \in Tasks |-> settled[t]] /\ d = [t \in Tasks |-> d[t]]
    BY DEF SettledTasks, SettledDisk
  <2>. HIDE DEF settled, d
  <2>. QED  BY <1>5, <2>1
<1>7. rs \in Seq(RunRecord) /\ DOMAIN rs = DOMAIN runs
  BY <1>3, SettledRunsFacts
<1>8. u \notin Claimed => settled[u] = tasks[u]
  BY <1>3, SettledFacts
<1>9. u \in Claimed => settled[u] = LeftTask(u, run) /\ d[u] = LeftOnDisk(u, readable, reach)
  BY DEF SettledTasks, SettledDisk
<1>. HIDE DEF settled, d, Far, rs, run
<1>10. /\ tasks'[u].tokens_used = settled[u].tokens_used
       /\ tasks'[u].last_run = settled[u].last_run
  <2>1. settled[u] \in Task /\ settled[u].tokens_used \in Nat
    BY <1>5 DEF Task
  <2>2. tasks'[u].tokens_used = settled[u].tokens_used \/ tasks'[u].tokens_used <= MaxTokens
    BY <1>4, <1>5, ReconciledWithin
  <2>3. tasks'[u].last_run = settled[u].last_run /\ tasks'[u].tokens_used \in Nat
    <3>1. tasks'[u] \in Task /\ tasks'[u].last_run = settled[u].last_run
      BY <1>4, <1>5, ReconciledTaskFacts
    <3>. QED  BY <3>1 DEF Task
  <2>. QED  BY <1>2, <2>2, <2>3
<1>11. u \in Claimed
  BY <1>2, <1>8, <1>10
<1>12. PICK i \in DOMAIN runs : runs[i].status = "running" /\ runs[i].task = u
  BY <1>11 DEF Claimed, Claims
<1>13. Running(u)
  BY <1>12 DEF Running
<1>14. /\ run \in RunRecord /\ run.task = u /\ run.id = tasks[u].attempts
       /\ Counted(tasks[u], run, settled[u])
       /\ run.usage # None => d[u].receipt.result.usage = run.usage
  BY <1>3, <1>9, <1>11, <1>13, LeftFacts DEF run
<1>15. run.usage # None /\ settled[u].tokens_used <= MaxTokens + run.usage
  BY <1>2, <1>10, <1>14, ChargedWithin
<1>16. rs[i] = run
  BY <1>12 DEF rs, run, SettledRuns
<1>17. /\ i \in DOMAIN runs'
       /\ runs'[i].task = u /\ runs'[i].id = run.id /\ runs'[i].usage = run.usage
  <2>1. done \in SUBSET Tasks
    OBVIOUS
  <2>. HIDE DEF done
  <2>2. /\ i \in DOMAIN runs'
        /\ runs'[i] = Told(run, d[u].receipt.result.usage) \/ runs'[i] = run
    BY <1>4, <1>6, <1>7, <1>12, <1>14, <1>16, <2>1, ReconciledRunsFacts
  <2>3. LET told == Told(run, run.usage) IN
        told.task = run.task /\ told.id = run.id /\ told.usage = run.usage
    BY <1>14, ToldFacts DEF RunRecord
  <2>. QED  BY <1>14, <1>15, <2>2, <2>3
<1>18. tasks'[u].last_run = run.id
  BY <1>10, <1>14 DEF Counted
<1>. QED  BY <1>10, <1>15, <1>17, <1>18 DEF LastCharge

LEMMA LimitedStep == ASSUME IInv, Limited, [Next]_vars PROVE Limited'
<1>. SUFFICES ASSUME NEW u \in Tasks, tasks'[u].tokens_used > MaxTokens
              PROVE  LastCharge(runs', u, tasks'[u])
  BY DEF Limited
<1>1. CASE UNCHANGED <<tasks, runs>>
  BY <1>1 DEF Limited
<1>2. ASSUME NEW t \in Tasks, Operates(t) PROVE FALSE
  <2>1. tasks'[u].tokens_used <= MaxTokens
    BY <1>2, OperatorTokens
  <2>2. tasks'[u].tokens_used \in Nat /\ MaxTokens \in Nat
    BY StepInv, AgentTasksAssumption DEF IInv, Typed, Task
  <2>. QED  BY <2>1, <2>2
<1>3. ASSUME NEW w \in Workers, Starts(w) PROVE LastCharge(runs', u, tasks'[u])
  BY <1>3, StartTokens
<1>4. ASSUME NEW w \in Workers, NEW reach \in Reach, NEW saved \in BOOLEAN, Finish(w, reach, saved)
      PROVE  LastCharge(runs', u, tasks'[u])
  BY <1>4, FinishTokens
<1>5. ASSUME NEW w \in Workers, EnforceLimits(w) \/ \E t \in Tasks : Claim(w, t) PROVE FALSE
  <2>1. /\ tasks \in [Tasks -> Task] /\ tasks[u].tokens_used \in Nat /\ MaxTokens \in Nat
        /\ tasks[u].tokens_used <= MaxTokens
    BY <1>5, AgentTasksAssumption DEF EnforceLimits, Claim, Ticks, Loads, IInv, Typed, Task
  <2>2. tasks'[u].tokens_used = tasks[u].tokens_used
    <3>1. CASE EnforceLimits(w)
      <4>1. CASE ~Stopping(u)
        BY <2>1, <3>1, <4>1 DEF EnforceLimits
      <4>2. CASE Stopping(u)
        <5>. DEFINE paused  == Paused(tasks[u])
                    stopped == paused.auto_paused \/ ~LimitReached(tasks[u])
        <5>0. tasks[u] \in Task
          BY <2>1
        <5>1. paused \in Task /\ paused.tokens_used = tasks[u].tokens_used
          BY <5>0 DEF Paused, Task
        <5>2. tasks'[u] = [paused EXCEPT !.auto_paused = stopped]
          BY <3>1, <4>2 DEF EnforceLimits
        <5>. HIDE DEF paused, stopped
        <5>3. [paused EXCEPT !.auto_paused = stopped].tokens_used = paused.tokens_used
          BY <5>1 DEF Task
        <5>. QED  BY <5>1, <5>2, <5>3
      <4>. QED  BY <4>1, <4>2
    <3>2. ASSUME NEW t \in Tasks, Claim(w, t)
          PROVE  tasks'[u].tokens_used = tasks[u].tokens_used
      BY <2>1, <3>2 DEF Claim, Task
    <3>. QED  BY <1>5, <3>1, <3>2
  <2>. QED  BY <2>1, <2>2
<1>6. CASE \E w \in Workers : \/ Launch(w) \/ Identify(w) \/ Exit(w)
                              \/ \E reach \in Reach : Die(w, reach)
  BY <1>1, <1>6 DEF Launch, Identify, Exit, Die, hot
<1>7. CASE \E w \in Workers, result \in Early, stopped \in BOOLEAN : NotLaunched(w, result, stopped)
  BY <1>1, <1>7 DEF NotLaunched, hot
<1>8. CASE \E w \in Workers, status \in Statuses, reported, total, stopped \in BOOLEAN :
             Collect(w, status, reported, total, stopped)
  BY <1>1, <1>8 DEF Collect, hot
<1>9. CASE ProviderEnds \/ UNCHANGED vars
  BY <1>1, <1>9 DEF ProviderEnds, hot, vars
<1>. QED  BY <1>2, <1>3, <1>4, <1>5, <1>6, <1>7, <1>8, <1>9 DEF Next, Works

(* InLimit: where a counter is past its limit, the last run of its task is on  *)
(* record and its usage, which _record_outcome adds without looking at the     *)
(* limit, is at least the excess.                                           *)
THEOREM InLimit == Spec => []Limited
<1>1. Init => Limited
  BY AgentTasksAssumption DEF Init, Limited, NewTask
<1>2. IInv /\ Limited /\ [Next]_vars => Limited'
  BY LimitedStep
<1>. QED  BY <1>1, <1>2, Invariance, PTL DEF Spec

-----------------------------------------------------------------------------
(* What follows.                                                            *)

LEMMA InvTypeOK == ASSUME IInv PROVE TypeOK
<1>1. Typed /\ \A t \in Tasks : Sound(tasks[t], disk[t], thread[t], spent[t])
  BY DEF IInv
<1>2. Cardinality(Claims) <= 1
  <2>1. CASE Claims = {}
    BY <2>1, FS_EmptySet
  <2>2. CASE Claims # {}
    <3>1. Claims = {Len(runs)}
      BY <2>2 DEF IInv, Listed
    <3>2. Cardinality({Len(runs)}) = 1
      BY FS_Singleton
    <3>. QED  BY <3>1, <3>2
  <2>. QED  BY <2>1, <2>2
<1>3. \A i \in DOMAIN runs :
        /\ runs[i].task \in Tasks
        /\ runs[i].status \in Statuses \cup {"running"}
        /\ runs[i].usage \in Usage
  BY <1>1, RunTypes DEF RunRecord
<1>4. \A t \in Tasks :
        /\ tasks[t].attempts <= MaxRuns /\ tasks[t].last_run <= tasks[t].attempts
        /\ disk[t].receipt.id \in 0 .. tasks[t].attempts
  <2>. TAKE t \in Tasks
  <2>1. /\ tasks[t].attempts \in Nat /\ tasks[t].last_run \in Nat /\ disk[t].receipt.id \in Nat
    BY <1>1 DEF Typed, Task, Files
  <2>. QED  BY <1>1, <2>1 DEF Sound, Numbers
<1>5. \A w \in Workers :
        /\ worker[w].at \in {"off", "idle", "claimed", "running", "collected", "stopped"}
        /\ worker[w].at # "off" <=> w \in holders
  BY <1>1 DEF IInv, Typed, Leased, Process
<1>. QED  BY <1>1, <1>2, <1>3, <1>4, <1>5 DEF TypeOK, Typed, Task

(* StateLoads holds: no transaction, and no sequence of them with whatever     *)
(* was lost, leaves a hot state that the next one would refuse to load, but    *)
(* where the charge of a run has taken a counter past its limit, and then the  *)
(* task was repaired before or really used more than the limit.               *)
THEOREM SavedStateLoads == Spec => []StateLoads
<1>1. IInv /\ Limited => StateLoads
  <2>. SUFFICES ASSUME IInv, Limited PROVE StateLoads
    OBVIOUS
  <2>1. ASSUME NEW t \in Tasks
        PROVE  /\ ~(tasks[t].auto_paused /\ tasks[t].enabled)
               /\ Pending(tasks[t]) => ~tasks[t].enabled /\ ~tasks[t].queued
               /\ tasks[t].limited /\ tasks[t].usage_uncertain =>
                    ~tasks[t].enabled /\ ~tasks[t].queued
    BY DEF IInv, Sound, Settings, Resting
  <2>2. ASSUME NEW t \in Tasks, NEW i \in DOMAIN runs, runs[i].task = t,
               runs[i].id = tasks[t].last_run,
               runs[i].status \notin {"running", "unprepared"},
               ~runs[i].owing, runs[i].usage = None, runs[i].id \notin tasks[t].repairs
        PROVE  tasks[t].usage_uncertain
    BY <2>2 DEF IInv, Listed, Known
  <2>3. ASSUME NEW t \in Tasks, tasks[t].tokens_used > MaxTokens PROVE ChargedPast(t)
    <3>1. /\ tasks[t].tokens_used \in Nat /\ spent[t] \in Nat /\ MaxTokens \in Nat
          /\ tasks[t].repairs = {} => tasks[t].tokens_used <= spent[t]
      BY AgentTasksAssumption DEF IInv, Typed, Task, Sound, Accounts
    <3>2. tasks[t].repairs # {} \/ spent[t] > MaxTokens
      BY <2>3, <3>1
    <3>3. LastCharge(runs, t, tasks[t])
      BY <2>3 DEF Limited
    <3>. QED  BY <3>2, <3>3 DEF ChargedPast, LastCharge
  <2>. QED  BY <2>1, <2>2, <2>3, InvTypeOK DEF StateLoads
<1>. QED  BY <1>1, Invariance, InLimit, PTL

(* UsageAccounted holds: the counter that is checked against a budget covers   *)
(* what the runs really used, or the task says that it does not; nothing is     *)
(* charged twice, whichever of a run's three writes were lost or repeated.      *)
THEOREM UsageIsAccounted == Spec => []UsageAccounted
<1>1. IInv => UsageAccounted
  BY DEF IInv, Listed, Sound, Accounts, UsageAccounted
<1>. QED  BY <1>1, Invariance, PTL

(* RecoveryWaits holds: while a provider lives its claim is open, since its     *)
(* worker's successor cannot get the lease that the provider still holds.      *)
THEOREM RecoveryDoesWait == Spec => []RecoveryWaits
<1>1. IInv => RecoveryWaits
  BY DEF IInv
<1>. QED  BY <1>1, Invariance, PTL

(* ContextCurrent holds: the context of a task that owes no recovery is the one *)
(* of its last receipt, however often the record of it was cut short.          *)
THEOREM ContextIsCurrent == Spec => []ContextCurrent
<1>1. IInv => ContextCurrent
  <2>. SUFFICES ASSUME IInv, NEW t \in Tasks,
                       tasks[t].persistence # "fresh", disk[t].context.last_run # 0,
                       ~Running(t), ~Pending(tasks[t])
                PROVE  Agrees(disk[t], tasks[t].last_run)
    BY DEF ContextCurrent, Agrees
  <2>. QED  BY DEF IInv, Listed, Sound, Records
<1>. QED  BY <1>1, Invariance, PTL

(* NoClaimBlocks holds: a scheduler that waits for work has settled whatever    *)
(* claim the one before it left behind.                                       *)
THEOREM NoClaimDoesBlock == Spec => []NoClaimBlocks
<1>1. IInv => NoClaimBlocks
  BY DEF IInv
<1>. QED  BY <1>1, Invariance, PTL

-----------------------------------------------------------------------------
(* Only a claim counts an attempt.                                          *)

LEMMA SettlesAttempts ==
  ASSUME IInv, NEW t \in Tasks, NEW reach, NEW saved, NEW new, NEW e, NEW seen,
         Settles(t, reach, saved, new, e, seen), new.attempts = tasks[t].attempts, NEW u \in Tasks
  PROVE  tasks'[u].attempts = tasks[u].attempts
<1>1. tasks' = [tasks EXCEPT ![t] = new] \/ tasks' = tasks
  BY DEF Settles, hot
<1>. QED  BY <1>1 DEF IInv, Typed

LEMMA OperatorAttempts ==
  ASSUME IInv, NEW t \in Tasks, Operates(t), NEW u \in Tasks
  PROVE  tasks'[u].attempts = tasks[u].attempts
<1>1. tasks \in [Tasks -> Task] /\ tasks[t] \in Task /\ disk[t] \in Files
  BY DEF IInv, Typed
<1>2. CASE Cancel(t) \/ Pause(t) \/ Notify(t)
  <2>1. CASE Cancel(t)
    <3>. DEFINE cancelled == tasks[t].cancel_requested \/ Running(t)
    <3>1. tasks' = [tasks EXCEPT ![t].queued = FALSE, ![t].events = FALSE,
                                 ![t].cancel_requested = cancelled]
      BY <1>1, <2>1 DEF Cancel
    <3>. HIDE DEF cancelled
    <3>. QED  BY <1>1, <3>1 DEF Task
  <2>2. CASE Pause(t)
    BY <1>1, <2>2 DEF Pause, Paused, Task
  <2>3. CASE Notify(t)
    BY <1>1, <2>3 DEF Notify, Task
  <2>. QED  BY <1>2, <2>1, <2>2, <2>3
<1>3. ASSUME NEW limited \in BOOLEAN, NEW total \in Totals \cup {None}, Update(t, limited, total)
      PROVE  tasks'[u].attempts = tasks[u].attempts
  BY <1>1, <1>3 DEF Update, Paused, PausedIf, Task
<1>4. ASSUME NEW reach \in Reach, NEW saved \in BOOLEAN,
             RunNow(t, reach, saved) \/ Resume(t, reach, saved) \/ ResetContext(t, reach, saved)
      PROVE  tasks'[u].attempts = tasks[u].attempts
  <2>. DEFINE task == ReconciledTask(tasks[t], disk[t], reach)
  <2>1. task \in Task /\ task.attempts = tasks[t].attempts
    BY <1>1, ReconciledTaskFacts
  <2>. HIDE DEF task
  <2>2. /\ Paused(task).attempts = tasks[t].attempts
        /\ [task EXCEPT !.queued = TRUE].attempts = tasks[t].attempts
        /\ [task EXCEPT !.enabled = TRUE, !.auto_paused = FALSE, !.failures = 0,
                        !.queued = task.events].attempts = tasks[t].attempts
    BY <2>1 DEF Paused, Task
  <2>3. \E new, e, seen : /\ Settles(t, reach, saved, new, e, seen)
                          /\ new.attempts = tasks[t].attempts
    <3>1. CASE RunNow(t, reach, saved)
      BY <2>2, <3>1 DEF RunNow, task
    <3>2. CASE Resume(t, reach, saved)
      BY <2>2, <3>2 DEF Resume, task
    <3>3. CASE ResetContext(t, reach, saved)
      BY <2>1, <3>3 DEF ResetContext, task
    <3>. QED  BY <1>4, <3>1, <3>2, <3>3
  <2>. QED  BY <2>3, SettlesAttempts
<1>. QED  BY <1>2, <1>3, <1>4 DEF Operates

LEMMA StartAttempts ==
  ASSUME IInv, NEW w \in Workers, Starts(w), NEW u \in Tasks
  PROVE  tasks'[u].attempts = tasks[u].attempts
<1>1. PICK readable \in BOOLEAN, saved \in BOOLEAN, reach \in Reach, how \in Reach,
           blocked \in SUBSET Tasks :
        Start(w, readable, reach, blocked, how, saved)
  BY DEF Starts
<1>2. CASE ~saved
  BY <1>1, <1>2 DEF Start, hot
<1>3. CASE saved
  <2>. DEFINE settled == SettledTasks(readable, reach)
              d       == SettledDisk(readable, reach)
              far     == IF u \in blocked THEN how ELSE "all"
  <2>1. tasks'[u] = ReconciledTask(settled[u], d[u], far)
    BY <1>1, <1>3 DEF Start
  <2>2. ~readable => reach = "all"
    BY <1>1 DEF Start
  <2>3. settled[u] \in Task /\ d[u] \in Files /\ settled[u].attempts = tasks[u].attempts
    BY <2>2, SettledFacts DEF Open
  <2>. HIDE DEF settled, d, far
  <2>. QED  BY <2>1, <2>3, ReconciledTaskFacts
<1>. QED  BY <1>2, <1>3

LEMMA WorkAttempts ==
  ASSUME IInv, NEW w \in Workers, Works(w), ~(\E t \in Tasks : Claim(w, t)), NEW u \in Tasks
  PROVE  tasks'[u].attempts = tasks[u].attempts
<1>1. tasks \in [Tasks -> Task] /\ tasks[u] \in Task
  BY DEF IInv, Typed
<1>2. CASE EnforceLimits(w)
  BY <1>1, <1>2 DEF EnforceLimits, Paused, Task
<1>3. CASE Launch(w) \/ Identify(w) \/ Exit(w)
  BY <1>3 DEF Launch, Identify, Exit, hot
<1>4. ASSUME NEW result, NEW stopped, NotLaunched(w, result, stopped)
      PROVE  tasks'[u].attempts = tasks[u].attempts
  BY <1>4 DEF NotLaunched, hot
<1>5. ASSUME NEW status, NEW reported, NEW total, NEW stopped,
             Collect(w, status, reported, total, stopped)
      PROVE  tasks'[u].attempts = tasks[u].attempts
  BY <1>5 DEF Collect, hot
<1>6. ASSUME NEW reach \in Reach, NEW saved \in BOOLEAN, Finish(w, reach, saved)
      PROVE  tasks'[u].attempts = tasks[u].attempts
  <2>. DEFINE t     == worker[w].task
              after == FinishedTask(w, FinishedRun(w, reach))
  <2>1. worker[w].at = "collected"
    BY <1>6 DEF Finish
  <2>2. after.last_run = tasks[t].attempts /\ ~Open(after)
    BY <2>1, FinishedFacts
  <2>3. tasks' = [tasks EXCEPT ![t] = after] \/ tasks' = tasks
    BY <1>6 DEF Finish, hot
  <2>. HIDE DEF after
  <2>. QED  BY <1>1, <2>2, <2>3 DEF Open
<1>. QED  BY <1>2, <1>3, <1>4, <1>5, <1>6 DEF Works

(* ReviewedAfterInterruption holds: a task whose run was interrupted, or whose *)
(* evidence could not be saved, is claimed again only after an operator has     *)
(* run or resumed it, since until then nothing puts it back on its schedule.    *)
THEOREM ReviewComesFirst == Spec => ReviewedAfterInterruption
<1>1. IInv /\ [Next]_vars => [\A t \in Tasks : Launches(t) => t \notin unseen]_vars
  <2>. SUFFICES ASSUME IInv, Next, NEW t \in Tasks, Launches(t) PROVE t \notin unseen
    BY DEF Launches
  <2>1. tasks \in [Tasks -> Task] /\ tasks[t].attempts \in Nat
    BY DEF IInv, Typed, Task
  <2>2. tasks'[t].attempts # tasks[t].attempts
    BY <2>1 DEF Launches
  <2>3. PICK w \in Workers, u \in Tasks : Claim(w, u)
    <3>1. ~(\E u \in Tasks : Operates(u))
      BY <2>2, OperatorAttempts
    <3>2. \A w \in Workers : ~Starts(w)
      BY <2>2, StartAttempts
    <3>3. \A w \in Workers, reach \in Reach : ~Die(w, reach)
      BY <2>2 DEF Die, hot
    <3>4. ~ProviderEnds
      BY <2>2 DEF ProviderEnds, hot
    <3>5. PICK w \in Workers : Works(w)
      BY <3>1, <3>2, <3>3, <3>4 DEF Next
    <3>. QED  BY <2>2, <3>5, WorkAttempts
  <2>4. u = t
    BY <2>1, <2>2, <2>3 DEF Claim
  <2>. QED  BY <2>3, <2>4 DEF Claim, IInv, Resting
<1>. QED  BY <1>1, Invariance, PTL DEF Spec, ReviewedAfterInterruption

=============================================================================
