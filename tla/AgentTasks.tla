------------------------------ MODULE AgentTasks ------------------------------
(***************************************************************************)
(* Agent tasks (lib/agent_tasks.py with TaskContextStore of                 *)
(* lib/agent_task_context.py and lib/agent_task_worker.py): saved prompts    *)
(* that one worker at a time claims, hands to a provider process and settles. *)
(*                                                                         *)
(* Three things are kept apart and written one after the other: the shared   *)
(* hot state (settings, counters, recent runs), a receipt for each run, and  *)
(* each task's context.  A process may die, and a file may fail to be        *)
(* written, between any two; the provider is a child that outlives its       *)
(* worker.  The panel and the command line change the hot state meanwhile.   *)
(*                                                                         *)
(* Every transaction reloads the hot state under its lock and is one step    *)
(* here, with a choice of how far its writes got.  Time is abstracted: an     *)
(* enabled task may be due whenever nothing else speaks against it.          *)
(***************************************************************************)
EXTENDS Naturals, Sequences, FiniteSets

CONSTANTS
  Tasks,         \* saved tasks
  Workers,       \* processes that may schedule: the panel, the service
  Provider,      \* the one child process, as a holder of the worker lease
  None,          \* no usage known, nothing there
  Kinds,         \* settings tasks are created with: an interval ("once", "repeat",
                 \* "event"), a persistence ("fresh", "checkpoint", "conversation")
                 \* and a failure_limit, 0 to disable it
  MaxRuns,       \* max_runs of every task; bounds the claims of an instance
  TokenBudget,   \* token_budget of a task that is limited
  MaxTokens,     \* the largest counter that _validate_state accepts: 10^15
  Totals,        \* totals an operator may give for a counter; bounds an instance
  MaxHistory,    \* MAX_RUNS: recent runs kept in the hot state
  MaxDeaths,     \* bound on workers that die during a run
  MaxFailures    \* bound on writes and reads that fail

ASSUME AgentTasksAssumption ==
  /\ Provider \notin Workers /\ None \notin Tasks /\ IsFiniteSet(Tasks)
  /\ Kinds \subseteq [interval : {"once", "repeat", "event"},
                    persistence : {"fresh", "checkpoint", "conversation"},
                    failure_limit : Nat]
  /\ MaxRuns \in Nat \ {0}
  /\ TokenBudget \in Nat \ {0}
  /\ MaxTokens \in Nat /\ Totals \subseteq 0 .. MaxTokens
  /\ MaxHistory \in Nat \ {0}
  /\ MaxDeaths \in Nat
  /\ MaxFailures \in Nat
  /\ None \notin Nat

VARIABLES
  tasks,     \* hot state: settings and counters of each task
  runs,      \* hot state: recent runs, oldest first
  disk,      \* each task's last receipt and its context
  worker,    \* where each process stands, and the result in its memory
  holders,   \* processes with a descriptor of the locked worker.lock
  provider,  \* the run whose provider process lives
  thread,    \* tokens the provider counts in each task's conversation
  spent,     \* history: tokens each task's runs really used
  unseen,    \* history: interrupted work no operator has reacted to
  faults     \* deaths and failures so far

hot  == <<tasks, runs>>
vars == <<tasks, runs, disk, worker, holders, provider, thread, spent, unseen, faults>>

Usage == Nat \cup {None}

\* What a run reports in the end; "unprepared" is a run cancelled before its
\* workspace was prepared, whose usage is known to be zero.
Statuses == {"completed", "failed", "cancelled", "unprepared", "interrupted"}

Result(status, usage) ==
  [status |-> status, usage |-> usage, report |-> FALSE, session |-> FALSE, total |-> None]

NoReceipt == [id |-> 0, result |-> Result("failed", None)]

\* TaskContextStore.load of a task without a context.
NoContext == [last_run |-> 0, checkpoint |-> 0, session |-> FALSE, total |-> None]

NewTask(kind) ==
  [interval |-> kind.interval, persistence |-> kind.persistence,
   failure_limit |-> kind.failure_limit,
   enabled |-> kind.interval # "once", queued |-> FALSE, auto_paused |-> FALSE, cancel_requested |-> FALSE,
   events |-> FALSE, limited |-> FALSE, attempts |-> 0, tokens_used |-> 0,
   usage_uncertain |-> FALSE, failures |-> 0, last_run |-> 0, recovery |-> "none",
   repairs |-> {}]

Off == [at |-> "off", task |-> None, baseline |-> None, result |-> Result("failed", None),
        stop |-> FALSE]

-----------------------------------------------------------------------------
(* The hot state.                                                           *)

Run(t, id, result) ==
  [task |-> t, id |-> id, status |-> result.status, usage |-> result.usage,
   storage_error |-> FALSE, owing |-> FALSE]

Running(t) == \E i \in DOMAIN runs : runs[i].task = t /\ runs[i].status = "running"

\* The claim that is executing, or that a dead worker has left behind.
Claims == {i \in DOMAIN runs : runs[i].status = "running"}

WithRun(rs, run) ==
  [i \in DOMAIN rs |-> IF rs[i].task = run.task /\ rs[i].id = run.id THEN run ELSE rs[i]]

Retained(rs) == SubSeq(rs, Len(rs) + 1 - (IF Len(rs) < MaxHistory THEN Len(rs) ELSE MaxHistory),
                       Len(rs))

\* _validate_state, on a counter: a transaction that loads one past the limit is
\* refused, whichever task it is about.
Loads == \A t \in Tasks : tasks[t].tokens_used <= MaxTokens

Pending(task) == task.recovery \in {"pending", "accounting"}

Paused(task) == [task EXCEPT !.enabled = FALSE, !.queued = FALSE]

PausedIf(cond, task) == IF cond THEN Paused(task) ELSE task

\* _limit_reason other than the failure limit, and the failure limit.
LimitReached(task) ==
  \/ task.attempts >= MaxRuns
  \/ Pending(task)
  \/ task.limited /\ (task.usage_uncertain \/ task.tokens_used >= TokenBudget)

Tripped(task) == task.failure_limit > 0 /\ task.failures >= task.failure_limit

\* Mutant: the streak marks a task as paused without taking it off its schedule.
StreakEnabled(task, status) ==
  LET more == [task EXCEPT !.failures = @ + 1] IN
  IF status \in {"cancelled", "unprepared", "completed"} \/ ~Tripped(more) THEN task
  ELSE [more EXCEPT !.auto_paused = TRUE]

\* The failure streak after a run.
Streak(task, status) ==
  IF status \in {"cancelled", "unprepared"} THEN task
  ELSE IF status = "completed"
  THEN [task EXCEPT !.failures = 0, !.auto_paused = FALSE]
  ELSE LET more == [task EXCEPT !.failures = @ + 1] IN
       IF Tripped(more) /\ (task.enabled \/ task.auto_paused)
       THEN [Paused(more) EXCEPT !.auto_paused = TRUE]
       ELSE more

\* The counters after a run: usage that is not known makes them uncertain,
\* unless a receipt still owes it or nothing was prepared.
Charged(task, run) ==
  [task EXCEPT !.last_run = run.id,
               !.tokens_used = IF run.usage = None THEN @ ELSE @ + run.usage,
               !.usage_uncertain = @ \/ (/\ run.usage = None
                                         /\ ~run.owing
                                         /\ run.status # "unprepared")]

\* _record_outcome.
Outcome(task, run) ==
  LET after == Streak(Charged(task, run), run.status) IN
  PausedIf(\/ after.attempts >= MaxRuns
           \/ after.limited /\ (after.usage_uncertain \/ after.tokens_used >= TokenBudget),
           after)

-----------------------------------------------------------------------------
(* Receipts and contexts.  A record may reach nothing, the receipt, or all.  *)

Reach == {"nothing", "receipt", "all"}

\* The context a run leaves: its checkpoint if it reported one, and a baseline
\* only if it identified its conversation and reported that one's total.
ContextAfter(t, context, id, result) ==
  IF tasks[t].persistence = "fresh" THEN context
  ELSE [last_run   |-> id,
        checkpoint |-> IF result.report THEN id ELSE context.checkpoint,
        session    |-> context.session \/ (tasks[t].persistence = "conversation" /\ result.session),
        total      |-> IF tasks[t].persistence = "conversation" /\ result.session
                       THEN result.total ELSE None]

\* Mutant: the checkpoint comes before the receipt.
RecordedContextFirst(t, d, id, result, reach) ==
  [receipt |-> IF reach = "all" THEN [id |-> id, result |-> result] ELSE d.receipt,
   context |-> IF reach = "nothing" THEN d.context ELSE ContextAfter(t, d.context, id, result)]

\* TaskContextStore.record: the receipt, then the context.
Recorded(t, d, id, result, reach) ==
  [receipt |-> IF reach = "nothing" THEN d.receipt ELSE [id |-> id, result |-> result],
   context |-> IF reach = "all" THEN ContextAfter(t, d.context, id, result) ELSE d.context]

\* A record that fails when both are written, while it drops old receipts, leaves
\* what "all" does and reports what "receipt" does: recording it again changes nothing.

\* Whether the context lacks what the receipt of the last run says.
Lacking(t, d, id) ==
  /\ tasks[t].persistence # "fresh"
  /\ \/ d.context.last_run # id
     \/ d.receipt.result.report /\ d.context.checkpoint # id
     \/ /\ tasks[t].persistence = "conversation"
        /\ \/ d.receipt.result.session /\ ~d.context.session
           \/ d.context.total # d.receipt.result.total

\* _reconcile_storage_error for a task with a pending recovery: it raises where
\* the receipt is missing, or cannot be read, or the context cannot be written.
Reconcilable(task, d, reach) ==
  /\ Pending(task)
  /\ d.receipt.id = task.last_run
  /\ reach = "all"

ReconciledDisk(t, task, d, reach) ==
  IF Pending(task) /\ d.receipt.id = task.last_run /\ Lacking(t, d, task.last_run)
  THEN Recorded(t, d, task.last_run, d.receipt.result, reach)
  ELSE d

\* What a recovery adds to the counter: a usage that is known and leaves the
\* counter within its limit.  Any other makes the counter uncertain.
Addable(task, usage) == usage # None /\ task.tokens_used + usage <= MaxTokens

\* Mutant: recovery charges the run whether or not its outcome did.
ReconciledTaskTwice(task, d, reach) ==
  LET usage == d.receipt.result.usage IN
  IF ~Reconcilable(task, d, reach) THEN task
  ELSE [task EXCEPT !.recovery = "reconciled",
                    !.tokens_used = IF Addable(task, usage) THEN @ + usage ELSE @,
                    !.usage_uncertain = @ \/ ~Addable(task, usage)]

\* A receipt that still owes its usage is charged once it is readable.
ReconciledTask(task, d, reach) ==
  LET usage == d.receipt.result.usage IN
  IF ~Reconcilable(task, d, reach) THEN task
  ELSE IF task.recovery = "accounting"
  THEN [task EXCEPT !.recovery = "reconciled",
                    !.tokens_used = IF Addable(task, usage) THEN @ + usage ELSE @,
                    !.usage_uncertain = @ \/ ~Addable(task, usage)]
  ELSE [task EXCEPT !.recovery = "reconciled"]

\* The hot records of the runs that the tasks ts have reconciled.
ReconciledRuns(rs, ts, saved, d) ==
  [i \in DOMAIN rs |->
    IF rs[i].task \in ts /\ rs[i].id = saved[rs[i].task].last_run
    THEN [rs[i] EXCEPT !.usage = d[rs[i].task].receipt.result.usage, !.owing = FALSE]
    ELSE rs[i]]

\* How many faults a transaction has met.
Fault(reach, saved) == (IF reach = "all" THEN 0 ELSE 1) + (IF saved THEN 0 ELSE 1)

Costs(n) ==
  /\ faults.failures + n <= MaxFailures
  /\ faults' = [faults EXCEPT !.failures = @ + n]

-----------------------------------------------------------------------------
Init ==
  /\ tasks \in [Tasks -> {NewTask(kind) : kind \in Kinds}]
  /\ runs = <<>>
  /\ disk = [t \in Tasks |-> [receipt |-> NoReceipt, context |-> NoContext]]
  /\ worker = [w \in Workers |-> Off]
  /\ holders = {}
  /\ provider = None
  /\ thread = [t \in Tasks |-> 0]
  /\ spent = [t \in Tasks |-> 0]
  /\ unseen = {}
  /\ faults = [deaths |-> 0, failures |-> 0]

-----------------------------------------------------------------------------
(* The operator, from the panel, the command line or an event source.        *)

Cancel(t) ==
  /\ tasks' = [tasks EXCEPT ![t].queued = FALSE, ![t].events = FALSE,
                            ![t].cancel_requested = @ \/ Running(t)]
  /\ UNCHANGED <<runs, disk, worker, holders, provider, thread, spent, unseen, faults>>

Pause(t) ==
  /\ tasks' = [tasks EXCEPT ![t] = [Paused(tasks[t]) EXCEPT !.auto_paused = FALSE]]
  /\ UNCHANGED <<runs, disk, worker, holders, provider, thread, spent, unseen, faults>>

\* What run, resume and reset-context begin with, and save in the end: task is
\* the reconciled task as they change it, d the disk they leave.  One that fails
\* before it has written anything is no step.
Settles(t, reach, saved, task, d, seen) ==
  LET ok == Pending(tasks[t]) => Reconcilable(tasks[t], disk[t], reach) IN
  /\ reach = "all" \/ Pending(tasks[t])
  /\ Costs(Fault(reach, saved))
  /\ disk' = [disk EXCEPT ![t] = IF ok THEN d ELSE ReconciledDisk(t, tasks[t], disk[t], reach)]
  /\ Fault(reach, saved) > 0 => disk' # disk
  /\ IF ok /\ saved
     THEN /\ tasks' = [tasks EXCEPT ![t] = task]
          /\ runs' = IF Pending(tasks[t])
                     THEN ReconciledRuns(runs, {t}, tasks, disk) ELSE runs
          /\ unseen' = unseen \ seen
     ELSE UNCHANGED <<hot, unseen>>
  /\ UNCHANGED <<worker, holders, provider, thread, spent>>

\* An explicit run is queued, unless a budget cannot be checked.
RunNow(t, reach, saved) ==
  LET task == ReconciledTask(tasks[t], disk[t], reach) IN
  /\ ~Running(t)
  /\ ~tasks[t].queued
  /\ IF task.limited /\ task.usage_uncertain
     THEN Settles(t, reach, saved, Paused(task), ReconciledDisk(t, tasks[t], disk[t], reach), {})
     ELSE Settles(t, reach, saved, [task EXCEPT !.queued = TRUE],
                  ReconciledDisk(t, tasks[t], disk[t], reach), {t})

Resume(t, reach, saved) ==
  LET task == ReconciledTask(tasks[t], disk[t], reach) IN
  \/ /\ task.limited /\ task.usage_uncertain
     /\ Settles(t, reach, saved, Paused(task), ReconciledDisk(t, tasks[t], disk[t], reach), {})
  \/ /\ ~(task.limited /\ task.usage_uncertain)
     /\ tasks[t].interval # "once"
     /\ Settles(t, reach, saved,
                [task EXCEPT !.enabled = TRUE, !.auto_paused = FALSE, !.failures = 0,
                             !.queued = task.events],
                ReconciledDisk(t, tasks[t], disk[t], reach), {t})

ResetContext(t, reach, saved) ==
  /\ ~Running(t)
  /\ ~tasks[t].queued
  /\ Settles(t, reach, saved, ReconciledTask(tasks[t], disk[t], reach),
             [ReconciledDisk(t, tasks[t], disk[t], reach) EXCEPT
                !.context = NoContext], {})

\* update, of the settings that matter here: the token budget is set or
\* dropped, and a total the operator has looked up, which covers what was really
\* used, may replace the counter.  (Refusing the 101st repair is left out.)
Update(t, limited, total) ==
  LET repair  == total # None
      unknown == \E i \in DOMAIN runs :
                   /\ runs[i].task = t
                   /\ runs[i].id = tasks[t].last_run
                   /\ runs[i].usage = None
                   /\ runs[i].status # "unprepared"
                   /\ tasks[t].last_run \notin tasks[t].repairs
      marked  == [tasks[t] EXCEPT !.limited = limited,
                                  !.usage_uncertain = @ \/ unknown]
      edited  == IF repair
                 THEN [marked EXCEPT !.tokens_used = total,
                                     !.repairs = @ \cup {marked.last_run},
                                     !.usage_uncertain = FALSE]
                 ELSE marked
      checked == PausedIf(Pending(edited) \/ (edited.limited /\ edited.usage_uncertain), edited)
  IN
  /\ ~tasks[t].queued
  /\ ~Running(t)
  /\ repair => /\ marked.usage_uncertain /\ marked.last_run # 0
               /\ total >= marked.tokens_used /\ total >= spent[t]
  /\ tasks' = [tasks EXCEPT ![t] = IF checked.enabled /\ Tripped(checked)
                                   THEN [Paused(checked) EXCEPT !.auto_paused = TRUE]
                                   ELSE checked]
  /\ UNCHANGED <<runs, disk, worker, holders, provider, thread, spent, unseen, faults>>

\* notify: an event wakes a task that is scheduled, whatever its interval.
Notify(t) ==
  /\ tasks[t].enabled
  /\ ~tasks[t].auto_paused
  /\ ~(tasks[t].limited /\ tasks[t].usage_uncertain)
  /\ ~Pending(tasks[t])
  /\ tasks' = [tasks EXCEPT ![t].events = TRUE, ![t].queued = TRUE]
  /\ UNCHANGED <<runs, disk, worker, holders, provider, thread, spent, unseen, faults>>

-----------------------------------------------------------------------------
(* Starting: the lease, then the claim a dead worker has left behind.         *)

\* The claim of task t as start settles it.  Its receipt, if there is one that
\* can be read, is recorded again; otherwise the run was interrupted.  Where
\* that fails the claim is quarantined, and owes its usage if no receipt told it.
LeftBehind(t, readable, reach) ==
  LET id     == tasks[t].attempts
      found  == readable /\ disk[t].receipt.id = id
      result == IF found THEN disk[t].receipt.result ELSE Result("interrupted", None)
      failed == ~readable \/ reach # "all"
  IN
  IF failed
  THEN [Run(t, id, [result EXCEPT !.status = "failed"]) EXCEPT
          !.storage_error = TRUE, !.owing = ~found]
  ELSE Run(t, id, result)

LeftOnDisk(t, readable, reach) ==
  LET d == disk[t] IN
  IF ~readable THEN d
  ELSE Recorded(t, d, tasks[t].attempts,
                IF d.receipt.id = tasks[t].attempts THEN d.receipt.result
                ELSE Result("interrupted", None), reach)

\* Mutant: only the worker that writes an interrupted receipt pauses its task.
LeftTaskReplayed(t, run) ==
  LET after == Outcome(tasks[t], run) IN
  IF run.storage_error
  THEN [Paused(after) EXCEPT !.recovery = IF run.owing THEN "accounting" ELSE "pending"]
  ELSE PausedIf(run.status = "interrupted" /\ disk[t].receipt.id # run.id, after)

LeftTask(t, run) ==
  LET after == Outcome(tasks[t], run) IN
  IF run.storage_error
  THEN [Paused(after) EXCEPT !.recovery = IF run.owing THEN "accounting" ELSE "pending"]
  ELSE PausedIf(run.status = "interrupted", after)

\* The hot state and the disk once a claim, if any, is settled.
Claimed == {runs[i].task : i \in Claims}

\* Mutant: a claim without a receipt is left as it is.
SettledRunsIfFound(readable, reach) ==
  [i \in DOMAIN runs |->
    IF runs[i].status = "running" /\ disk[runs[i].task].receipt.id = runs[i].id
    THEN LeftBehind(runs[i].task, readable, reach) ELSE runs[i]]

SettledRuns(readable, reach) ==
  [i \in DOMAIN runs |->
    IF runs[i].status = "running" THEN LeftBehind(runs[i].task, readable, reach) ELSE runs[i]]

SettledTasks(readable, reach) ==
  [t \in Tasks |-> IF t \in Claimed THEN LeftTask(t, LeftBehind(t, readable, reach)) ELSE tasks[t]]

SettledDisk(readable, reach) ==
  [t \in Tasks |-> IF t \in Claimed THEN LeftOnDisk(t, readable, reach) ELSE disk[t]]

\* start: with the lease, settle what was left behind, then try every pending
\* recovery (those in blocked fail), then save.
Start(w, readable, reach, blocked, how, saved) ==
  LET settled == SettledTasks(readable, reach)
      d       == SettledDisk(readable, reach)
      Far(t)  == IF t \in blocked THEN how ELSE "all"
      done    == {t \in Tasks : Reconcilable(settled[t], d[t], Far(t))}
  IN
  /\ Claims = {} => readable /\ reach = "all"
  /\ ~readable => reach = "all"
  /\ blocked = {} => how = "nothing"
  /\ how # "all"
  /\ Costs(Fault(reach, saved) + (IF readable THEN 0 ELSE 1) + Cardinality(blocked))
  /\ IF saved
     THEN /\ worker' = [worker EXCEPT ![w] = [Off EXCEPT !.at = "idle"]]
          /\ holders' = {w}
     ELSE UNCHANGED <<worker, holders>>
  /\ blocked \subseteq {t \in Tasks : Pending(settled[t])}
  /\ disk' = [t \in Tasks |-> ReconciledDisk(t, settled[t], d[t], Far(t))]
  /\ IF saved
     THEN /\ tasks' = [t \in Tasks |-> ReconciledTask(settled[t], d[t], Far(t))]
          /\ runs' = ReconciledRuns(SettledRuns(readable, reach), done, settled, d)
          /\ unseen' = unseen \cup {t \in Claimed :
                         LeftBehind(t, readable, reach).status = "interrupted"
                         \/ LeftBehind(t, readable, reach).storage_error}
     ELSE disk' # disk /\ UNCHANGED <<hot, unseen>>
  /\ UNCHANGED <<provider, thread, spent>>

-----------------------------------------------------------------------------
(* A tick: limits first, then one claim.                                     *)

Stopping(t) ==
  /\ tasks[t].enabled \/ tasks[t].queued
  /\ \/ LimitReached(tasks[t])
     \/ Tripped(tasks[t]) /\ ~(tasks[t].queued /\ tasks[t].auto_paused)

Ticks(w) == worker[w].at = "idle" /\ Loads /\ Claims = {}

EnforceLimits(w) ==
  /\ Ticks(w)
  /\ \E t \in Tasks : Stopping(t)
  /\ tasks' = [t \in Tasks |->
                 IF ~Stopping(t) THEN tasks[t]
                 ELSE [Paused(tasks[t]) EXCEPT
                         !.auto_paused = @ \/ ~LimitReached(tasks[t])]]
  /\ UNCHANGED <<runs, disk, worker, holders, provider, thread, spent, unseen, faults>>

\* The claim is saved before anything is prepared.
Claim(w, t) ==
  /\ Ticks(w)
  /\ \A u \in Tasks : ~Stopping(u)
  /\ tasks[t].queued \/ (tasks[t].enabled /\ tasks[t].interval # "event")
  /\ tasks' = [tasks EXCEPT ![t].queued = FALSE, ![t].cancel_requested = FALSE,
                            ![t].events = FALSE, ![t].attempts = @ + 1,
                            ![t].enabled = @ /\ tasks[t].interval # "once"]
  /\ runs' = Retained(Append(runs, Run(t, tasks[t].attempts + 1, [status |-> "running", usage |-> None])))
  /\ worker' = [worker EXCEPT ![w].at = "claimed", ![w].task = t]
  /\ UNCHANGED <<disk, holders, provider, thread, spent, unseen, faults>>

-----------------------------------------------------------------------------
(* A run, outside the lock.                                                  *)

\* What ends a run as cancelled: SIGTERM or a closing panel, after which its
\* worker makes no other claim, or the operator.  (One that stops when its run is
\* already over does what a worker does that stops right after it.)
CancelSeen(w, stopped) == stopped \/ tasks[worker[w].task].cancel_requested

\* The baseline from which a conversation's total is counted: only the last
\* run's own context has one.
Baseline(t) ==
  LET context == disk[t].context IN
  IF tasks[t].persistence # "conversation" \/ ~context.session THEN 0
  ELSE IF tasks[t].last_run = context.last_run THEN context.total ELSE None

\* Cancelled, refused or failed before a provider was launched.
NotLaunched(w, result, stopped) ==
  /\ worker[w].at = "claimed"
  /\ \/ ~stopped /\ result \in {Result("failed", None), Result("failed", 0)}
     \/ /\ CancelSeen(w, stopped)
        /\ result \in {Result("unprepared", None), Result("cancelled", None), Result("cancelled", 0)}
  /\ worker' = [worker EXCEPT ![w].at = "collected", ![w].result = result, ![w].stop = stopped]
  /\ UNCHANGED <<hot, disk, holders, provider, thread, spent, unseen, faults>>

\* Mutant: the provider does not inherit the lease.
LaunchDetached(w) ==
  LET t == worker[w].task
      resumes == tasks[t].persistence = "conversation" /\ disk[t].context.session
  IN
  /\ worker[w].at = "claimed"
  /\ ~(resumes /\ tasks[t].limited /\ Baseline(t) = None)
  /\ provider' = t
  /\ thread' = [thread EXCEPT ![t] = IF resumes THEN @ + 1 ELSE 1]
  /\ spent' = [spent EXCEPT ![t] = @ + 1]
  /\ worker' = [worker EXCEPT ![w].at = "running", ![w].baseline = Baseline(t)]
  /\ UNCHANGED <<hot, disk, holders, unseen, faults>>

\* Popen with the lease among pass_fds.  A conversation whose use cannot be
\* told is not resumed under a budget.
Launch(w) ==
  LET t == worker[w].task
      resumes == tasks[t].persistence = "conversation" /\ disk[t].context.session
  IN
  /\ worker[w].at = "claimed"
  /\ ~(resumes /\ tasks[t].limited /\ Baseline(t) = None)
  /\ provider' = t
  /\ holders' = holders \cup {Provider}
  /\ thread' = [thread EXCEPT ![t] = IF resumes THEN @ + 1 ELSE 1]
  /\ spent' = [spent EXCEPT ![t] = @ + 1]
  /\ worker' = [worker EXCEPT ![w].at = "running", ![w].baseline = Baseline(t)]
  /\ UNCHANGED <<hot, disk, unseen, faults>>

\* The first event of a new conversation names it; the context keeps it at once.
Identify(w) ==
  LET t == worker[w].task IN
  /\ worker[w].at = "running"
  /\ tasks[t].persistence = "conversation"
  /\ ~disk[t].context.session
  /\ disk' = [disk EXCEPT ![t].context.session = TRUE]
  /\ UNCHANGED <<hot, worker, holders, provider, thread, spent, unseen, faults>>

\* The provider exits, with or without a worker that waits for it.
ProviderEnds ==
  /\ provider # None
  /\ provider' = None
  /\ holders' = holders \ {Provider}
  /\ UNCHANGED <<hot, disk, worker, thread, spent, unseen, faults>>

\* The worker has read the last of the output, or stopped at a cancellation, a
\* time limit or an error; it kills what is left and forms the result.
Collect(w, status, reported, total, stopped) ==
  LET t       == worker[w].task
      session == tasks[t].persistence = "conversation" /\ disk[t].context.session
      counted == IF total THEN thread[t] ELSE None
      usage   == IF counted = None \/ worker[w].baseline = None THEN None
                 ELSE counted - worker[w].baseline
  IN
  /\ worker[w].at = "running"
  /\ status \in {"completed", "failed", "cancelled"}
  /\ status = "completed" => reported /\ (tasks[t].persistence = "conversation" => session)
  /\ IF status = "cancelled" THEN CancelSeen(w, stopped) ELSE ~stopped
  /\ worker' = [worker EXCEPT ![w].at = "collected",
                              ![w].stop = stopped,
                              ![w].result =
                 [status |-> status, usage |-> usage, session |-> session, total |-> counted,
                  report |-> reported /\ tasks[t].persistence # "fresh"]]
  /\ provider' = None
  /\ holders' = holders \ {Provider}
  /\ UNCHANGED <<hot, disk, thread, spent, unseen, faults>>

-----------------------------------------------------------------------------
(* The run's second transaction, and the ends of a worker.                   *)

FinishedRun(w, reach) ==
  LET t == worker[w].task
      run == Run(t, tasks[t].attempts, worker[w].result)
  IN
  IF reach = "all" THEN run ELSE [run EXCEPT !.status = "failed", !.storage_error = TRUE]

FinishedTask(w, run) ==
  LET after == Outcome(tasks[worker[w].task], run) IN
  IF run.storage_error THEN [Paused(after) EXCEPT !.recovery = "pending"] ELSE after

Finish(w, reach, saved) ==
  LET t == worker[w].task
      run == FinishedRun(w, reach)
  IN
  /\ worker[w].at = "collected"
  /\ Loads
  /\ Costs(Fault(reach, saved))
  /\ worker' = [worker EXCEPT ![w] =
       [Off EXCEPT !.at = IF saved /\ ~worker[w].stop THEN "idle" ELSE "stopped"]]
  /\ disk' = [disk EXCEPT ![t] = Recorded(t, @, tasks[t].attempts, worker[w].result, reach)]
  /\ IF saved
     THEN /\ runs' = WithRun(runs, run)
          /\ tasks' = [tasks EXCEPT ![t] = FinishedTask(w, run)]
          /\ unseen' = IF run.storage_error THEN unseen \cup {t} ELSE unseen
     ELSE UNCHANGED <<hot, unseen>>
  /\ UNCHANGED <<holders, provider, thread, spent>>

\* A scheduler that was stopped, or stops by itself where a tick fails, gives up
\* the lease; it may also die there.
Exit(w) ==
  /\ worker[w].at \in {"idle", "stopped"}
  /\ worker' = [worker EXCEPT ![w] = Off]
  /\ holders' = holders \ {w}
  /\ UNCHANGED <<hot, disk, provider, thread, spent, unseen, faults>>

\* The process dies during a run; while it records, a part of that may be written.
\* Its provider lives on, with the lease.
Die(w, reach) ==
  LET t == worker[w].task IN
  /\ worker[w].at \in {"claimed", "running", "collected"}
  /\ reach # "nothing" => worker[w].at = "collected"
  /\ faults.deaths < MaxDeaths
  /\ faults' = [faults EXCEPT !.deaths = @ + 1]
  /\ worker' = [worker EXCEPT ![w] = Off]
  /\ holders' = holders \ {w}
  /\ disk' = IF worker[w].at = "collected"
             THEN [disk EXCEPT ![t] = Recorded(t, @, tasks[t].attempts, worker[w].result, reach)]
             ELSE disk
  /\ UNCHANGED <<hot, provider, thread, spent, unseen>>

-----------------------------------------------------------------------------
Early == {Result(status, usage) : status \in {"failed", "unprepared", "cancelled"},
                                  usage \in {0, None}}

\* Every operation is a transaction, which loads the hot state first.
Operates(t) ==
  /\ Loads
  /\ \/ Cancel(t)
     \/ Pause(t)
     \/ Notify(t)
     \/ \E limited \in BOOLEAN, total \in Totals \cup {None} : Update(t, limited, total)
     \/ \E reach \in Reach, saved \in BOOLEAN :
          RunNow(t, reach, saved) \/ Resume(t, reach, saved) \/ ResetContext(t, reach, saved)

\* One that cannot load the hot state gives the lease up again.
Starts(w) ==
  /\ worker[w].at = "off"
  /\ Loads
  /\ holders = {}
  /\ \E readable, saved \in BOOLEAN, reach, how \in Reach, blocked \in SUBSET Tasks :
       Start(w, readable, reach, blocked, how, saved)

Works(w) ==
  \/ EnforceLimits(w)
  \/ \E t \in Tasks : Claim(w, t)
  \/ \E result \in Early, stopped \in BOOLEAN : NotLaunched(w, result, stopped)
  \/ Launch(w)
  \/ Identify(w)
  \/ \E status \in Statuses, reported, total, stopped \in BOOLEAN :
       Collect(w, status, reported, total, stopped)
  \/ \E reach \in Reach, saved \in BOOLEAN : Finish(w, reach, saved)
  \/ Exit(w)

Next ==
  \/ \E t \in Tasks : Operates(t)
  \/ \E w \in Workers : \/ Starts(w)
                        \/ Works(w)
                        \/ \E reach \in Reach : Die(w, reach)
  \/ ProviderEnds

Spec == Init /\ [][Next]_vars

-----------------------------------------------------------------------------
(* Properties.                                                              *)

\* TypeOK: the types.  The limit of tokens_used is not one of them: see StateLoads.
TypeOK ==
  /\ tasks \in [Tasks ->
       [interval : {"once", "repeat", "event"},
        persistence : {"fresh", "checkpoint", "conversation"},
        enabled : BOOLEAN, queued : BOOLEAN, auto_paused : BOOLEAN, cancel_requested : BOOLEAN,
        events : BOOLEAN, failure_limit : Nat, limited : BOOLEAN, attempts : Nat, tokens_used : Nat,
        usage_uncertain : BOOLEAN, failures : Nat, last_run : Nat,
        recovery : {"none", "pending", "accounting", "reconciled"}, repairs : SUBSET Nat]]
  /\ \A t \in Tasks : tasks[t].attempts <= MaxRuns /\ tasks[t].last_run <= tasks[t].attempts
  /\ Len(runs) <= MaxHistory
  /\ Cardinality(Claims) <= 1
  /\ \A i \in DOMAIN runs :
       /\ runs[i].task \in Tasks
       /\ runs[i].status \in Statuses \cup {"running"}
       /\ runs[i].usage \in Usage
  /\ \A t \in Tasks : disk[t].receipt.id \in 0 .. tasks[t].attempts
  /\ \A w \in Workers :
       /\ worker[w].at \in {"off", "idle", "claimed", "running", "collected", "stopped"}
       /\ worker[w].at # "off" <=> w \in holders
  /\ holders \subseteq Workers \cup {Provider}
  /\ provider \in Tasks \cup {None}
  /\ faults \in [deaths : 0 .. MaxDeaths, failures : 0 .. MaxFailures]

\* The one way a counter gets past its limit: _record_outcome has added the usage of
\* the last run to a counter within the limit, and that counter had been replaced
\* by an operator's total, or the task really used more than the limit.
ChargedPast(t) ==
  /\ tasks[t].repairs # {} \/ spent[t] > MaxTokens
  /\ \E i \in DOMAIN runs :
       /\ runs[i].task = t /\ runs[i].id = tasks[t].last_run
       /\ runs[i].usage # None
       /\ tasks[t].tokens_used <= MaxTokens + runs[i].usage

\* StateLoads: every saved state has its type, and _validate_state, through which
\* every later transaction loads it, accepts it and changes nothing, but for one
\* case that the code does not exclude and that is excepted by name: ChargedPast.
\* A state that validation refuses stops all tasks of the account, and does so in
\* that case: _record_outcome adds without the check that a recovery makes.
StateLoads ==
  /\ TypeOK
  /\ \A t \in Tasks : tasks[t].tokens_used > MaxTokens => ChargedPast(t)
  /\ \A t \in Tasks :
       LET task == tasks[t] IN
       /\ ~(task.auto_paused /\ task.enabled)
       /\ Pending(task) => ~task.enabled /\ ~task.queued
       /\ task.limited /\ task.usage_uncertain => ~task.enabled /\ ~task.queued
       /\ (\E i \in DOMAIN runs :
             /\ runs[i].task = t /\ runs[i].id = task.last_run
             /\ runs[i].status \notin {"running", "unprepared"}
             /\ ~runs[i].owing /\ runs[i].usage = None /\ runs[i].id \notin task.repairs)
          => task.usage_uncertain

\* UsageAccounted: the counter a token budget is checked against covers what the
\* task's runs really used, whatever was lost, interrupted or recovered, unless
\* the task is marked uncertain or still owes a run's usage.  And nothing is
\* charged twice, unless an operator has overwritten the counter.
UsageAccounted ==
  \A t \in Tasks :
    /\ ~Running(t) /\ ~tasks[t].usage_uncertain /\ tasks[t].recovery # "accounting"
         => spent[t] <= tasks[t].tokens_used
    /\ tasks[t].repairs = {} => tasks[t].tokens_used <= spent[t]

\* RecoveryWaits: while a provider lives, also without its worker, its claim
\* stays open: nobody reports its run as interrupted, and no other begins.
RecoveryWaits == provider # None => Running(provider)

Launches(t) == tasks'[t].attempts > tasks[t].attempts

\* ReviewedAfterInterruption: a task whose run was interrupted, or whose
\* evidence could not be saved, is not claimed before somebody ran or resumed it.
ReviewedAfterInterruption ==
  [][\A t \in Tasks : Launches(t) => t \notin unseen]_vars

\* ContextCurrent: a task that owes no recovery has the context its last
\* receipt describes: no checkpoint or conversation total is lost or left over.
ContextCurrent ==
  \A t \in Tasks :
    LET context == disk[t].context
        receipt == disk[t].receipt
    IN
    (/\ tasks[t].persistence # "fresh"
     /\ context.last_run # 0
     /\ ~Running(t)
     /\ ~Pending(tasks[t]))
    => /\ context.last_run = tasks[t].last_run
       /\ receipt.id = tasks[t].last_run
       /\ receipt.result.report <=> context.checkpoint = receipt.id
       /\ context.total # None => context.total = receipt.result.total

\* NoClaimBlocks: a scheduler that waits for work has left no claim open, however
\* the worker before it ended: one that stays open would keep every task of the
\* account from being claimed again.
NoClaimBlocks == (\E w \in Workers : worker[w].at = "idle") => Claims = {}

=============================================================================
