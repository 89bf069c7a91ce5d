------------------------------- MODULE HostSlot -------------------------------
(***************************************************************************)
(* The shared capacity of one build host (lib/build_coordinator.py) and the *)
(* scheduled maintenance that respects it (lib/maintenance_lock.py).        *)
(*                                                                         *)
(* Capacity is one file, slot.lock: its flock excludes live processes, its  *)
(* content (the marker) keeps excluding after a process died with work that *)
(* may still run.  The file "drain" beside it refuses new work: empty while *)
(* setup is under way, and holding a boot ID while a reboot is intended.    *)
(* Scheduled operations also serialize on the setup flock in /run.          *)
(*                                                                         *)
(* Files survive a reboot, flocks and processes do not.  Every system call  *)
(* on the shared files that another process can observe is a step of its    *)
(* own; a read that only this process can change is merged with the next.   *)
(*                                                                         *)
(* An operator marked "Mutant" is a plausible bug in the definition that    *)
(* follows it, there to show that some property would notice.               *)
(***************************************************************************)
EXTENDS Naturals, FiniteSets

CONSTANTS
  Producers,    \* processes that build: worker, webhook intake, runner guardian
  Maintainers,  \* setup runs inside maintenance()
  Schedulers,   \* callers of maintenance_lock()
  None,         \* no lock holder
  MaxBoots,     \* bound on reboots, for model checking only
  MaxCrashes    \* bound on process deaths, for model checking only

ASSUME HostSlotAssumption ==
  /\ None \notin Producers \cup Maintainers \cup Schedulers
  /\ Producers \cap Maintainers = {}
  /\ (Producers \cup Maintainers) \cap Schedulers = {}
  /\ MaxBoots \in Nat /\ MaxCrashes \in Nat

VARIABLES
  drain,      \* the drain file: its kind, and the boot ID an intent records
  marker,     \* slot.lock has content: capacity is uncertain
  slotLock,   \* holder of the flock on slot.lock
  setupLock,  \* holder of the flock on basaltwater-setup.lock
  boot,       \* the kernel's boot ID
  pc,         \* where each process stands
  goal,       \* what a scheduled process is about to do
  orphans,    \* processes that died or gave up while their work may still run
  crashes     \* process deaths so far

files == <<drain, marker>>
locks == <<slotLock, setupLock>>
vars  == <<files, locks, boot, pc, goal, orphans, crashes>>

Procs == Producers \cup Maintainers \cup Schedulers

Goals == {"update", "auto", "explicit", "external", "cancel", "recover"}

\* maintenance_lock(build_slot=False)
WithoutSlot == {"cancel", "recover"}

\* Processes inside host_slot, whose work occupies the host.
InSlot == {"working", "creating", "intent"}

Intents == {"reboot", "external"}
NoDrain == [kind |-> "none", boot |-> 0]
Empty   == [kind |-> "empty", boot |-> 0]
Drained == drain.kind # "none"
Intended == drain.kind \in Intents

Go(p, step) == pc' = [pc EXCEPT ![p] = step]

\* Closing its descriptors frees the flocks a process holds.
Leave(p) ==
  /\ Go(p, "idle")
  /\ slotLock' = IF slotLock = p THEN None ELSE slotLock
  /\ setupLock' = IF setupLock = p THEN None ELSE setupLock

-----------------------------------------------------------------------------
(* host_slot, for producers and, once they hold the setup lock, schedulers.  *)

Outside(p) == pc[p] = IF p \in Schedulers THEN "admission" ELSE "idle"

\* The drain is looked at before the flock is tried.
CheckDrain(p) ==
  /\ Outside(p)
  /\ IF Drained THEN Leave(p) ELSE Go(p, "checked") /\ UNCHANGED locks
  /\ UNCHANGED <<files, boot, goal, orphans, crashes>>

TakeSlot(p) ==
  /\ pc[p] = "checked"
  /\ IF slotLock = None
       THEN Go(p, "locked") /\ slotLock' = p /\ UNCHANGED setupLock
       ELSE Leave(p)
  /\ UNCHANGED <<files, boot, goal, orphans, crashes>>

\* Mutant: the drain is not looked at again under the flock.
RecheckNothing(p) ==
  /\ pc[p] = "locked"
  /\ Go(p, "rechecked")
  /\ UNCHANGED <<files, locks, boot, goal, orphans, crashes>>

\* And once more under the flock.
Recheck(p) ==
  /\ pc[p] = "locked"
  /\ IF Drained THEN Leave(p) ELSE Go(p, "rechecked") /\ UNCHANGED locks
  /\ UNCHANGED <<files, boot, goal, orphans, crashes>>

\* Mutant: what an interrupted lease left behind is overwritten.
MarkAnyway(p) ==
  /\ pc[p] = "rechecked"
  /\ Go(p, "working")
  /\ marker' = TRUE
  /\ UNCHANGED <<drain, locks, boot, goal, orphans, crashes>>

\* The marker is written before any work; a marker that is already there is
\* an interrupted lease and refuses.
Mark(p) ==
  /\ pc[p] = "rechecked"
  /\ IF marker
       THEN Leave(p) /\ UNCHANGED marker
       ELSE Go(p, "working") /\ marker' = TRUE /\ UNCHANGED locks
  /\ UNCHANGED <<drain, boot, goal, orphans, crashes>>

\* The body ended normally: its producer confirmed that all work stopped.
Finish(p) ==
  /\ pc[p] = "working"
  /\ p \in Schedulers => goal[p] \in {"update", "auto"}
  /\ marker' = FALSE
  /\ Leave(p)
  /\ UNCHANGED <<drain, boot, goal, orphans, crashes>>

\* The body raised: the marker stays, as some of its work may still run.
GiveUp(p) ==
  /\ pc[p] = "working"
  /\ Leave(p)
  /\ orphans' \in {orphans, orphans \cup {p}}
  /\ UNCHANGED <<files, boot, goal, crashes>>

-----------------------------------------------------------------------------
(* maintenance(): drain first, then capacity.                               *)

\* Open or create the drain; one with content is an intent and refuses.
OpenDrain(m) ==
  /\ pc[m] = "idle"
  /\ ~Intended
  /\ drain' = Empty
  /\ Go(m, "draining")
  /\ UNCHANGED <<marker, locks, boot, goal, orphans, crashes>>

\* Refused while capacity is held: the drain stays.
LockForSetup(m) ==
  /\ pc[m] = "draining"
  /\ IF slotLock = None
       THEN Go(m, "entering") /\ slotLock' = m /\ UNCHANGED setupLock
       ELSE Leave(m)
  /\ UNCHANGED <<files, boot, goal, orphans, crashes>>

\* Mutant: the drain opened before the flock is taken to be the one still there.
EnterUnchecked(m) ==
  /\ pc[m] = "entering"
  /\ IF marker THEN Leave(m) ELSE Go(m, "maintaining") /\ UNCHANGED locks
  /\ UNCHANGED <<files, boot, goal, orphans, crashes>>

\* Under the flock: the marker must be clear and the drain still there and
\* still empty, since another setup may have removed it and a scheduled
\* reboot may have written its intent before the flock was won.
EnterSetup(m) ==
  /\ pc[m] = "entering"
  /\ IF marker \/ drain.kind # "empty"
       THEN Leave(m)
       ELSE Go(m, "maintaining") /\ UNCHANGED locks
  /\ UNCHANGED <<files, boot, goal, orphans, crashes>>

\* Setup succeeded: the drain is removed, unless release_drain is false.
LeaveSetup(m, release) ==
  /\ pc[m] = "maintaining"
  /\ drain' = IF release THEN NoDrain ELSE drain
  /\ Leave(m)
  /\ UNCHANGED <<marker, boot, goal, orphans, crashes>>

\* Setup raised: the drain stays.
FailSetup(m) ==
  /\ pc[m] = "maintaining"
  /\ Leave(m)
  /\ UNCHANGED <<files, boot, goal, orphans, crashes>>

-----------------------------------------------------------------------------
(* maintenance_lock(): the setup flock, recovery, then the slot.            *)

TakeSetupLock(s, g) ==
  /\ pc[s] = "idle"
  /\ setupLock = None
  /\ setupLock' = s
  /\ goal' = [goal EXCEPT ![s] = g]
  /\ Go(s, "setup")
  /\ UNCHANGED <<files, slotLock, boot, orphans, crashes>>

\* Where recover_reboot_drain returns to.
AfterRecovery(s) == IF goal[s] \in WithoutSlot THEN "leaving" ELSE "admission"

\* recover_reboot_drain tries the flock; a marker ends the attempt.
LockForRecovery(s) ==
  /\ pc[s] = "setup"
  /\ IF slotLock = None /\ ~marker
       THEN Go(s, "recovering") /\ slotLock' = s
       ELSE Go(s, AfterRecovery(s)) /\ UNCHANGED slotLock
  /\ UNCHANGED <<files, setupLock, boot, goal, orphans, crashes>>

\* Mutant: cancellation releases the provider's power drain as well.
RecoverableByAny(s) ==
  Intended /\ (goal[s] = "cancel" \/ drain.boot # boot)

\* Mutant: an earlier boot's intent waits for a cancellation as well.
RecoverableOnCancel(s) ==
  goal[s] = "cancel" /\ drain.kind = "reboot"

\* Only an intent, and only one that was cancelled or that an earlier boot
\* recorded; shutdown -c cannot cancel a provider's power request.
Recoverable(s) ==
  IF goal[s] = "cancel" THEN drain.kind = "reboot"
                        ELSE Intended /\ drain.boot # boot

Recover(s) ==
  /\ pc[s] = "recovering"
  /\ drain' = IF Recoverable(s) THEN NoDrain ELSE drain
  /\ slotLock' = None
  /\ Go(s, AfterRecovery(s))
  /\ UNCHANGED <<marker, setupLock, boot, goal, orphans, crashes>>

\* Cancellation and boot recovery end here.
EndRecovery(s) ==
  /\ pc[s] = "leaving"
  /\ Leave(s)
  /\ UNCHANGED <<files, boot, goal, orphans, crashes>>

\* retain_reboot_drain creates the file with O_EXCL.  When setup was refused
\* meanwhile its drain is there: the automatic restart reports that and ends
\* normally, the others raise out of the slot.
CreateIntent(s) ==
  /\ pc[s] = "working"
  /\ goal[s] \in {"auto", "explicit", "external"}
  /\ \/ ~Drained /\ drain' = Empty /\ Go(s, "creating") /\ UNCHANGED <<marker, locks>>
     \/ Drained /\ marker' = (goal[s] # "auto") /\ Leave(s) /\ UNCHANGED drain
  /\ UNCHANGED <<boot, goal, orphans, crashes>>

\* Then it writes the boot ID.
WriteIntent(s) ==
  /\ pc[s] = "creating"
  /\ drain' = [kind |-> IF goal[s] = "external" THEN "external" ELSE "reboot",
               boot |-> boot]
  /\ Go(s, "intent")
  /\ UNCHANGED <<marker, locks, boot, goal, orphans, crashes>>

\* The reboot was requested, or the automatic restart reported its failure, or
\* the provider is asked by the caller: the slot ends normally.
RequestReboot(s) ==
  /\ pc[s] = "intent"
  /\ marker' = FALSE
  /\ Leave(s)
  /\ UNCHANGED <<drain, boot, goal, orphans, crashes>>

\* systemctl refused the explicit restart: _restart_local_host raises while it
\* is still inside maintenance_lock, and host_slot keeps the marker.
RebootRefused(s) ==
  /\ pc[s] = "intent"
  /\ goal[s] = "explicit"
  /\ Leave(s)
  /\ UNCHANGED <<files, boot, goal, orphans, crashes>>

-----------------------------------------------------------------------------
(* The environment.                                                         *)

\* A process dies.  What it had started may survive it.
Crash(p) ==
  /\ pc[p] # "idle"
  /\ crashes < MaxCrashes
  /\ crashes' = crashes + 1
  /\ orphans' \in IF pc[p] \in InSlot THEN {orphans, orphans \cup {p}} ELSE {orphans}
  /\ Leave(p)
  /\ UNCHANGED <<files, boot, goal>>

OrphanEnds(p) ==
  /\ p \in orphans
  /\ orphans' = orphans \ {p}
  /\ UNCHANGED <<files, locks, boot, pc, goal, crashes>>

\* An administrator inspected processes and cgroups before clearing the marker
\* (docs/services/build-systems.md, "Shared capacity and maintenance").
ClearMarker ==
  /\ marker
  /\ orphans = {}
  /\ slotLock = None
  /\ marker' = FALSE
  /\ UNCHANGED <<drain, locks, boot, pc, goal, orphans, crashes>>

\* Requested or not: flocks and processes are gone, the files stay.
Reboot ==
  /\ boot < MaxBoots
  /\ boot' = boot + 1
  /\ pc' = [p \in Procs |-> "idle"]
  /\ slotLock' = None
  /\ setupLock' = None
  /\ orphans' = {}
  /\ UNCHANGED <<files, goal, crashes>>

-----------------------------------------------------------------------------

Init ==
  /\ drain = NoDrain
  /\ marker = FALSE
  /\ slotLock = None
  /\ setupLock = None
  /\ boot = 0
  /\ pc = [p \in Procs |-> "idle"]
  /\ goal = [s \in Schedulers |-> "update"]
  /\ orphans = {}
  /\ crashes = 0

SlotNext(p) ==
  \/ CheckDrain(p) \/ TakeSlot(p) \/ Recheck(p) \/ Mark(p)
  \/ Finish(p) \/ GiveUp(p)

SetupNext(m) ==
  \/ OpenDrain(m) \/ LockForSetup(m) \/ EnterSetup(m) \/ FailSetup(m)
  \/ \E release \in BOOLEAN : LeaveSetup(m, release)

RebootNext(s) ==
  \/ CreateIntent(s) \/ WriteIntent(s) \/ RequestReboot(s) \/ RebootRefused(s)

RecoveryNext(s) == LockForRecovery(s) \/ Recover(s) \/ EndRecovery(s)

Environment ==
  \/ \E p \in Procs : Crash(p) \/ OrphanEnds(p)
  \/ ClearMarker
  \/ Reboot

Next ==
  \/ \E p \in Producers \cup Schedulers : SlotNext(p)
  \/ \E m \in Maintainers : SetupNext(m)
  \/ \E s \in Schedulers :
       \/ \E g \in Goals : TakeSetupLock(s, g)
       \/ RecoveryNext(s) \/ RebootNext(s)
  \/ Environment

Spec == Init /\ [][Next]_vars

\* Running processes go on, a body ends some way, and the timers of scheduled
\* maintenance find the setup lock free now and then.
Fairness ==
  /\ \A p \in Producers \cup Schedulers :
       WF_vars(pc[p] # "idle" /\ SlotNext(p))
  /\ \A s \in Schedulers :
       /\ WF_vars(RecoveryNext(s))
       /\ WF_vars(RebootNext(s))
       /\ SF_vars(TakeSetupLock(s, "update"))

FairSpec == Spec /\ Fairness

-----------------------------------------------------------------------------
(* Properties.                                                              *)

Working     == {p \in Procs : pc[p] \in InSlot}
Maintaining == {m \in Maintainers : pc[m] = "maintaining"}

\* Types of the variables.
TypeOK ==
  /\ drain \in [kind: {"none", "empty"} \cup Intents, boot: Nat]
  /\ marker \in BOOLEAN
  /\ slotLock \in Procs \cup {None}
  /\ setupLock \in Schedulers \cup {None}
  /\ boot \in Nat
  /\ pc \in [Procs -> {"idle", "checked", "locked", "rechecked", "draining",
                       "entering", "maintaining", "setup", "recovering",
                       "admission", "leaving"} \cup InSlot]
  /\ goal \in [Schedulers -> Goals]
  /\ orphans \subseteq Procs
  /\ crashes \in Nat

\* Work occupies the host once: nothing starts while other work runs, also
\* when that work outlived the process that held the flock.
CapacityExclusive ==
  /\ Cardinality(Working) <= 1
  /\ orphans # {} => Working = {} /\ marker

\* Setup replaces code and packages only while nothing builds.
SetupAlone ==
  Maintaining # {} =>
    /\ Cardinality(Maintaining) = 1
    /\ Working = {} /\ orphans = {}
    /\ drain.kind = "empty"

\* No work starts while a reboot is intended, although the drain is only read
\* and the flock only tried without waiting.
NoWorkBeforeReboot ==
  [][\A p \in Procs : p \notin Working /\ p \in Working' => ~Intended]_vars

\* An intent disappears only by its confirmed cancellation or in a later boot,
\* the one for a provider's power request only in a later boot; setup, which
\* opens the same file without the flock, never takes it for its own drain.
IntentKept ==
  [][Intended /\ drain' # drain =>
       /\ drain' = NoDrain
       /\ \/ drain.boot # boot
          \/ /\ drain.kind = "reboot"
             /\ \E s \in Schedulers : pc[s] = "recovering" /\ goal[s] = "cancel"]_vars

\* The intent of an earlier boot is removed by some scheduled maintenance, so
\* that a confirmed reboot reopens intake, unless capacity needs recovery.
StaleIntentRecovered ==
  (Intended /\ drain.boot # boot /\ ~marker) ~> ~Intended

\* docs/services/build-operations.md, line 149: when the reboot request fails
\* the intent stays, to be released by the existing cancellation or confirmed
\* boot recovery.  Both refuse a marker, so an intent that no process holds
\* must come without one (unless a process died).
IntentReleasable ==
  drain.kind = "reboot" /\ slotLock = None => ~marker

=============================================================================
