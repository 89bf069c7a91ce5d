--------------------------- MODULE UnitTransaction ---------------------------
(***************************************************************************)
(* Replacement and removal of related systemd units (_reconcile_units of     *)
(* lib/unit_transaction.py) under one durable marker and lock                *)
(* (lib/operation_state.py).                                                 *)
(*                                                                         *)
(* The lock excludes a second operation, so there is one at a time.  systemd *)
(* is not excluded: timers and sockets start other units, and jobs end,      *)
(* between any two steps.  Every command and every file operation can fail,  *)
(* with its effect or without it; what stop, disable and their inspection    *)
(* find of one unit is one step.  The process can die and the host can       *)
(* restart anywhere.                                                         *)
(*                                                                         *)
(* The operation's own definitions are numbered by the operation; contents   *)
(* are not compared.  Left out: runtime enablement, templates, the pairing   *)
(* of mounts and automounts, and the early return of preserve_unchanged,     *)
(* which changes nothing.                                                    *)
(*                                                                         *)
(* An operator marked "Mutant" is a plausible bug in the definition that     *)
(* follows it, there to show that some property would notice.                *)
(***************************************************************************)
EXTENDS Integers, Sequences

CONSTANTS
  Units,     \* names of systemd units
  Groups,    \* operations the program requests
  Triggers,  \* the units that a timer, path or socket starts
  MaxOps,    \* bound: operations begun
  None       \* no file, no marker, not running

Members(s) == {s[n] : n \in DOMAIN s}

\* Definitions of units, by the operation that wrote them, and previous.json.
Definitions == 0 .. MaxOps
Snapshots ==
  [files : [Units -> Definitions \cup {None}], enabled : SUBSET Units, active : SUBSET Units]

\* The checks of _reconcile_units before it begins.
ASSUME GroupsAssumption ==
  /\ MaxOps \in Nat /\ Groups # {}
  /\ None \notin Definitions \cup Snapshots \cup {"in_progress", "recovery_required"}
  /\ Triggers \in [Units -> SUBSET Units]
  /\ \A g \in Groups :
       /\ \A f \in {"write", "remove", "deactivate", "once", "activate"} : g[f] \in Seq(Units)
       /\ \A f \in {"write", "remove", "deactivate", "once", "activate"} :
            \A m, n \in DOMAIN g[f] : g[f][m] = g[f][n] => m = n
       /\ g.write = << >> \/ g.remove = << >>
       /\ Members(g.deactivate) \cup Members(g.once) \cup Members(g.activate) \subseteq Members(g.write)
       /\ Members(g.once) \cap (Members(g.activate) \cup Members(g.deactivate)) = {}
       /\ g.once # << >> => Members(g.activate) \subseteq Members(g.deactivate)

\* What the groups of the program have in common, though nothing checks it (but
\* that jobs are services): a unit that starts others is not started itself, and
\* is named before them (cleanup_service of lib/systemd_service.py, MCUnitTransaction).
ASSUME TriggersAssumption ==
  /\ \A a \in Units : \A u \in Triggers[a] : Triggers[u] = {}
  /\ \A g \in Groups :
       /\ \A u \in Members(g.once) : Triggers[u] = {}
       /\ \A a \in Units : \A u \in Triggers[a] :
            /\ u \notin Members(g.deactivate)
            /\ u \in Members(g.once) => a \in Members(g.deactivate)
            /\ \A f \in {"remove", "activate"} : \A n \in DOMAIN g[f] :
                 g[f][n] = u => \E m \in DOMAIN g[f] : m < n /\ g[f][m] = a

VARIABLES
  files,      \* unit files on disk, by the operation that wrote them
  loaded,     \* definitions systemd has loaded
  running,    \* the definition under which each unit runs, or None
  enabled,    \* units that are enabled
  marker,     \* status of the operation's marker, or None
  backup,     \* previous.json: files and states before the operation, or None
  pc,         \* the next step of the operation, or "idle"
  group,      \* the operation
  gen,        \* its number
  step,       \* position in the loop it is in
  touched,    \* units it stopped or started
  preserved,  \* jobs that ran before it published
  faults,     \* errors of its rollback
  sound       \* the rollback may go on

disk    == <<files, marker, backup>>
systemd == <<loaded, running, enabled>>
request == <<group, gen>>
memory  == <<touched, preserved, faults, sound>>
vars    == <<disk, systemd, request, pc, step, memory>>

\* LoadState of the snapshot is "loaded".
Known(u) == backup.files[u] # None

Stops   == group.deactivate \o group.remove
Changes == group.remove \o group.write

\* A removal leaves a unit without a managed file alone, a deactivation one that
\* is not loaded, not active and not enabled.
Skipped(u) ==
  ~Known(u) /\ (u \in Members(group.remove) \/ u \notin backup.active \cup backup.enabled)

\* Mutant: the rollback also stops the jobs.
RollbackUnitsAndJobs == touched \o group.once \o group.activate

\* Each unit at its first place.
RollbackUnits == touched \o group.activate
Repeated(n)   == n > Len(touched) /\ RollbackUnits[n] \in Members(touched)

\* Services come back before the activators that were stopped before them.
RestoredLast(n) ==
  IF \A u \in Members(Stops) : u \in Members(group.remove) /\ ~Known(u)
  THEN n ELSE Len(RollbackUnits) + 1 - n

\* The operation goes on at p, at the beginning of a loop.
Goto(p) == pc' = p /\ step' = 1
Again   == pc' = pc /\ step' = step + 1

\* It returns or raises; only its marker and previous.json remain.
Return ==
  /\ Goto("idle")
  /\ touched' = << >> /\ preserved' = {} /\ faults' = FALSE /\ sound' = TRUE

-----------------------------------------------------------------------------
(* The operation.                                                           *)

\* Mutant: an unfinished operation is not noticed.
BeginAnyway(g) ==
  /\ pc = "idle" /\ gen < MaxOps
  /\ marker' = "in_progress" /\ Goto("staging")
  /\ group' = g /\ gen' = gen + 1
  /\ UNCHANGED <<files, backup, systemd, memory>>

\* The marker of an unfinished operation refuses this one.
Begin(g) ==
  /\ pc = "idle" /\ marker = None /\ gen < MaxOps
  /\ marker' = "in_progress" /\ Goto("staging")
  /\ group' = g /\ gen' = gen + 1
  /\ UNCHANGED <<files, backup, systemd, memory>>

\* There is something to write, or a file left to remove.
HasWork == group.write # << >> \/ \E u \in Members(group.remove) : files[u] # None

Snapshot ==
  /\ pc = "staging" /\ HasWork
  /\ backup' = [files |-> files, enabled |-> enabled, active |-> {u \in Units : running[u] # None}]
  /\ Goto("validating")
  /\ UNCHANGED <<files, marker, systemd, request, memory>>

NothingToDo ==
  /\ pc = "staging" /\ ~HasWork
  /\ marker' = None /\ Return
  /\ UNCHANGED <<files, backup, systemd, request>>

Validate ==
  /\ pc = "validating"
  /\ Goto("stopping")
  /\ UNCHANGED <<disk, systemd, request, memory>>

StopUnit ==
  /\ pc = "stopping" /\ step <= Len(Stops)
  /\ LET u == Stops[step] IN
     \/ /\ Skipped(u) /\ Again
        /\ UNCHANGED <<touched, running, enabled>>
     \/ /\ ~Skipped(u) /\ touched' = Append(touched, u)
        /\ \/ Again /\ running' = [running EXCEPT ![u] = None] /\ enabled' = enabled \ {u}
           \/ /\ Goto("quiescing")
              /\ running' \in {running, [running EXCEPT ![u] = None]}
              /\ enabled' \in {enabled, enabled \ {u}}
  /\ UNCHANGED <<disk, loaded, request, preserved, faults, sound>>

\* Jobs observed before or after their timers were stopped.
ObserveJobs ==
  /\ pc = "stopping" /\ step > Len(Stops)
  /\ preserved' = {u \in Members(group.once) : u \in backup.active \/ running[u] # None}
  /\ Goto("changing")
  /\ UNCHANGED <<disk, systemd, request, touched, faults, sound>>

ChangeFile ==
  /\ pc = "changing" /\ step <= Len(Changes)
  /\ LET u == Changes[step] IN
     /\ files' = [files EXCEPT ![u] = IF u \in Members(group.write) THEN gen ELSE None]
     /\ Again \/ Goto("quiescing")
  /\ UNCHANGED <<marker, backup, systemd, request, memory>>

Reload ==
  /\ pc = "changing" /\ step > Len(Changes)
  /\ loaded' = files
  /\ \/ Goto("quiescing")
     \/ Goto("starting") /\ \A u \in Members(group.remove) : Known(u) => running[u] = None /\ u \notin enabled
  /\ UNCHANGED <<disk, running, enabled, request, memory>>

PreserveJob ==
  /\ pc = "starting" /\ step <= Len(group.once)
  /\ LET u == group.once[step] IN
     /\ u \in preserved \/ running[u] # None
     /\ preserved' = preserved \cup {u}
  /\ Again
  /\ UNCHANGED <<disk, systemd, request, touched, faults, sound>>

\* The job may be over, or remain, when the command returns or fails.
StartJob ==
  /\ pc = "starting" /\ step <= Len(group.once)
  /\ LET u == group.once[step] IN
     /\ u \notin preserved /\ running[u] = None
     /\ touched' = Append(touched, u)
     /\ running' \in {running, [running EXCEPT ![u] = loaded[u]]}
  /\ Again \/ Goto("quiescing")
  /\ UNCHANGED <<disk, loaded, enabled, request, preserved, faults, sound>>

JobsStarted ==
  /\ pc = "starting" /\ step > Len(group.once)
  /\ Goto("activating")
  /\ UNCHANGED <<disk, systemd, request, memory>>

\* systemctl enable, restart and their verification.
ActivateUnit ==
  /\ pc = "activating" /\ step <= Len(group.activate)
  /\ LET u == group.activate[step] IN
     /\ touched' = IF u \in Members(touched) THEN touched ELSE Append(touched, u)
     /\ \/ Again /\ running' = [running EXCEPT ![u] = loaded[u]] /\ enabled' = enabled \cup {u}
        \/ /\ Goto("quiescing")
           /\ running' \in {running, [running EXCEPT ![u] = None], [running EXCEPT ![u] = loaded[u]]}
           /\ enabled' \in {enabled, enabled \cup {u}}
  /\ UNCHANGED <<disk, loaded, request, preserved, faults, sound>>

Succeed ==
  /\ pc = "activating" /\ step > Len(group.activate)
  /\ marker' = None /\ backup' = None
  /\ Return
  /\ UNCHANGED <<files, systemd, request>>

\* Any other exception: a refused inspection, a callback, a lost marker update.
Fail ==
  /\ \/ pc \in {"staging", "validating"} /\ Goto("unmodified")
     \/ pc \in {"stopping", "changing", "starting", "activating"} /\ Goto("quiescing")
  /\ UNCHANGED <<disk, systemd, request, memory>>

-----------------------------------------------------------------------------
(* Its rollback.                                                            *)

\* The marker could not record that the operation is rolled back.
PhaseLost ==
  /\ pc \in {"unmodified", "quiescing"} /\ step = 1
  /\ faults' = TRUE
  /\ UNCHANGED <<disk, systemd, pc, step, request, touched, preserved, sound>>

\* Was never there: neither its file nor a loaded definition.
Nonexistent(u) == u \notin Members(touched) /\ ~Known(u) /\ files[u] = None

\* systemctl stop, disable, and the confirmation that the unit is stopped.
Quiesce ==
  /\ pc = "quiescing" /\ step <= Len(RollbackUnits)
  /\ LET u    == RollbackUnits[step]
         left == IF u \in Members(group.activate) \cup backup.enabled THEN enabled \ {u} ELSE enabled
     IN
     \/ /\ Nonexistent(u) \/ Repeated(step)
        /\ UNCHANGED <<running, enabled, faults, sound>>
     \/ /\ ~Nonexistent(u) /\ ~Repeated(step)
        /\ \/ /\ running' = [running EXCEPT ![u] = None] /\ enabled' = left
              /\ UNCHANGED <<faults, sound>>
           \/ /\ running' \in {running, [running EXCEPT ![u] = None]}
              /\ enabled' \in {enabled, left}
              /\ faults' = TRUE /\ sound' = FALSE
  /\ Again
  /\ UNCHANGED <<disk, loaded, request, touched, preserved>>

\* Mutant: files are restored although a unit may still run.
QuiescedAnyway ==
  /\ pc = "quiescing" /\ step > Len(RollbackUnits)
  /\ Goto("restoring")
  /\ sound' = TRUE
  /\ UNCHANGED <<disk, systemd, request, touched, preserved, faults>>

Quiesced ==
  /\ pc = "quiescing" /\ step > Len(RollbackUnits)
  /\ Goto(IF sound THEN "restoring" ELSE "verifying")
  /\ UNCHANGED <<disk, systemd, request, memory>>

\* A file whose restoration fails may have been restored nevertheless.
RestoreFile ==
  /\ pc = "restoring" /\ step <= Len(Changes)
  /\ LET u == Changes[step] IN
     \/ /\ files' = [files EXCEPT ![u] = backup.files[u]]
        /\ UNCHANGED <<faults, sound>>
     \/ /\ files' \in {files, [files EXCEPT ![u] = backup.files[u]]}
        /\ faults' = TRUE /\ sound' = FALSE
  /\ Again
  /\ UNCHANGED <<marker, backup, systemd, request, touched, preserved>>

ReloadRestored ==
  /\ pc = "restoring" /\ step > Len(Changes)
  /\ \/ /\ loaded' = files /\ faults' = faults
        /\ Goto(IF sound THEN "rearming" ELSE "verifying")
     \/ loaded' \in {loaded, files} /\ faults' = TRUE /\ Goto("verifying")
  /\ UNCHANGED <<disk, running, enabled, request, touched, preserved, sound>>

Rearm ==
  /\ pc = "rearming" /\ step <= Len(RollbackUnits)
  /\ LET n  == RestoredLast(step)
         u  == RollbackUnits[n]
         on == IF u \in backup.enabled THEN enabled \cup {u} ELSE enabled
         up == IF u \in backup.active THEN [running EXCEPT ![u] = loaded[u]] ELSE running
     IN
     \/ Repeated(n) /\ UNCHANGED <<running, enabled, faults>>
     \/ ~Repeated(n) /\ running' = up /\ enabled' = on /\ faults' = faults
     \/ /\ ~Repeated(n)
        /\ \/ running' \in {running, up}
           \/ u \in backup.active /\ running' = [running EXCEPT ![u] = None]
        /\ enabled' \in {enabled, on}
        /\ faults' = TRUE
  /\ Again
  /\ UNCHANGED <<disk, loaded, request, touched, preserved, sound>>

Rearmed ==
  /\ pc = "rearming" /\ step > Len(RollbackUnits)
  /\ Goto("verifying")
  /\ UNCHANGED <<disk, systemd, request, memory>>

\* Mutant: only the enablement is compared.
AsBeforeIfEnabled(u) == u \in enabled <=> u \in backup.enabled

AsBefore(u) ==
  /\ running[u] # None <=> u \in backup.active
  /\ u \in enabled <=> u \in backup.enabled

VerifyRestored ==
  /\ pc = "verifying" /\ step <= Len(RollbackUnits)
  /\ \/ Repeated(step) /\ faults' = faults
     \/ ~Repeated(step) /\ faults' \in {TRUE, faults \/ ~AsBefore(RollbackUnits[step])}
  /\ Again
  /\ UNCHANGED <<disk, systemd, request, touched, preserved, sound>>

Ended ==
  \/ pc = "unmodified"
  \/ pc = "verifying" /\ step > Len(RollbackUnits)

Undone ==
  /\ Ended /\ ~faults
  /\ marker' = None /\ backup' = None
  /\ Return
  /\ UNCHANGED <<files, systemd, request>>

\* UnitRecoveryError: errors, or the marker could not be removed or written.
Retain ==
  /\ Ended
  /\ \/ faults /\ marker' = "recovery_required"
     \/ marker' = marker
  /\ Return
  /\ UNCHANGED <<files, backup, systemd, request>>

-----------------------------------------------------------------------------
(* systemd, the host and an administrator.                                  *)

Fire(a, u) ==
  /\ u \in Triggers[a] /\ running[a] # None
  /\ running[u] = None /\ loaded[u] # None
  /\ running' = [running EXCEPT ![u] = loaded[u]]
  /\ UNCHANGED <<disk, loaded, enabled, request, pc, step, memory>>

\* A job ends, a service fails.
End(u) ==
  /\ Triggers[u] = {} /\ running[u] # None
  /\ running' = [running EXCEPT ![u] = None]
  /\ UNCHANGED <<disk, loaded, enabled, request, pc, step, memory>>

Die ==
  /\ pc # "idle"
  /\ Return
  /\ UNCHANGED <<disk, systemd, request>>

Booted(f, e) == [u \in Units |-> IF u \in e THEN f[u] ELSE None]

Reboot ==
  /\ Return
  /\ loaded' = files
  /\ running' = Booted(files, enabled)
  /\ UNCHANGED <<disk, enabled, request>>

\* What the operation makes of the files and of the enablement.
Target(f) ==
  [u \in Units |-> IF u \in Members(group.write) THEN gen
                  ELSE IF u \in Members(group.remove) THEN None ELSE f[u]]
Armed(f, e) ==
  (e \ (Members(group.deactivate) \cup {u \in Members(group.remove) : f[u] # None}))
    \cup Members(group.activate)

\* An administrator restores the originals or completes the replacement.
OperatorResolves ==
  /\ pc = "idle" /\ marker # None
  /\ LET f == IF backup = None THEN files ELSE backup.files
         e == IF backup = None THEN enabled ELSE backup.enabled
     IN
     \/ files' = f /\ enabled' = e
     \/ files' = Target(f) /\ enabled' = Armed(f, e)
  /\ loaded' = files'
  /\ running' = Booted(files', enabled')
  /\ marker' = None /\ backup' = None
  /\ UNCHANGED <<request, pc, step, memory>>

-----------------------------------------------------------------------------
Init ==
  /\ files \in [Units -> {0, None}]
  /\ loaded = files
  /\ enabled \in SUBSET {u \in Units : files[u] # None}
  /\ running = Booted(files, enabled)
  /\ marker = None /\ backup = None
  /\ pc = "idle" /\ step = 1 /\ gen = 0
  /\ group = CHOOSE g \in Groups : TRUE
  /\ touched = << >> /\ preserved = {} /\ faults = FALSE /\ sound = TRUE

Operate ==
  \/ \E g \in Groups : Begin(g)
  \/ Snapshot \/ NothingToDo \/ Validate \/ StopUnit \/ ObserveJobs \/ ChangeFile
  \/ Reload \/ PreserveJob \/ StartJob \/ JobsStarted \/ ActivateUnit \/ Succeed \/ Fail

RollBack ==
  \/ PhaseLost \/ Quiesce \/ Quiesced \/ RestoreFile \/ ReloadRestored \/ Rearm
  \/ Rearmed \/ VerifyRestored \/ Undone \/ Retain

Surroundings ==
  \/ \E a, u \in Units : Fire(a, u)
  \/ \E u \in Units : End(u)
  \/ Die \/ Reboot \/ OperatorResolves

Next == Operate \/ RollBack \/ Surroundings

Spec == Init /\ [][Next]_vars

-----------------------------------------------------------------------------
(* Properties.                                                              *)

TypeOK ==
  /\ files \in [Units -> Definitions \cup {None}]
  /\ loaded \in [Units -> Definitions \cup {None}]
  /\ running \in [Units -> Definitions \cup {None}]
  /\ enabled \in SUBSET Units
  /\ marker \in {None, "in_progress", "recovery_required"}
  /\ backup \in Snapshots \cup {None}
  /\ pc \in {"idle", "staging", "validating", "stopping", "changing", "starting", "activating",
            "unmodified", "quiescing", "restoring", "rearming", "verifying"}
  /\ group \in Groups /\ gen \in 0 .. MaxOps /\ step \in Nat \ {0}
  /\ touched \in Seq(Units) /\ preserved \in SUBSET Units
  /\ faults \in BOOLEAN /\ sound \in BOOLEAN

\* "Rollback quiesces every requested activation ... If ... activity cannot be
\* confirmed stopped, the group retains its live candidate files", and jobs
\* started by the operation "require checked quiescence before restoring files"
\* (docs/agents/contributing/transaction-safety.md, replace_units): while the
\* rollback restores files, no unit that it stopped runs.
Quiescent == \A u \in Members(RollbackUnits) : Nonexistent(u) \/ running[u] = None

RestoredQuiescent == pc = "restoring" /\ sound => Quiescent

\* The same, unless the operation installs the timer of a job for the first
\* time: such a timer is the only activator stopped after what it starts.
QuiescentUnlessNewTimer ==
  /\ pc = "restoring" /\ sound
  /\ group.once # << >> => \A u \in Members(group.activate) : Known(u)
  => Quiescent

OperationStep == pc' # "idle" /\ pc # "idle" /\ <<disk, pc, step, touched>>' # <<disk, pc, step, touched>>

\* "Jobs observed running before or after timer quiescence stay outside
\* start/stop/rollback": a run that began before the new definitions were loaded
\* is never stopped, and a job that ran when the operation began is not started.
JobsLeftAlone ==
  [][OperationStep /\ backup # None => \A j \in Members(group.once) :
       /\ running[j] \notin {None, gen} => running'[j] = running[j]
       /\ j \in backup.active /\ running[j] = None => running'[j] = None]_vars

\* An operation that was rolled back leaves nothing of itself: systemd has
\* loaded the restored files, and no unit it stopped or started runs its
\* definition.  After any operation systemd has loaded what is on disk.
NothingUndoneRuns ==
  [][pc # "idle" /\ marker # None /\ marker' = None =>
       /\ loaded = files
       /\ pc = "verifying" => \A u \in Members(RollbackUnits) : running[u] # gen]_vars

\* Files and enablement of a group change together or not at all, whatever
\* fails or dies in between: until the marker is removed the originals count,
\* and previous.json has them.
Group == INSTANCE UnitGroups WITH
  Definitions <- Definitions,
  installed <- IF marker = None \/ backup = None THEN files ELSE backup.files,
  armed     <- IF marker = None \/ backup = None THEN enabled ELSE backup.enabled

ImplementsGroups == Group!Spec
=============================================================================
