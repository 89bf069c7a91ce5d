-------------------------- MODULE TargetDeployment --------------------------
(***************************************************************************)
(* The target side of a deployment.  Each SSH connection is a process that   *)
(* serves one typed request (lib/build_target_service.py) under the shared   *)
(* target lease (lib/build_target_maintenance.py):                           *)
(*   - the admission ledger (lib/build_admission.py), whose lock is held     *)
(*     through a whole activation;                                           *)
(*   - the staged artifacts (lib/build_target_artifacts.py), whose lock is   *)
(*     released while the admission is read again;                           *)
(*   - the activator (lib/build_target_activation.py) with its marker        *)
(*     activation.json and its release registry.                             *)
(* A local setup replays the installed releases under the exclusive lease.   *)
(*                                                                         *)
(* All locks are taken without waiting: a request that finds one taken is    *)
(* refused, which is no step here.  So is a request whose identity, owner,   *)
(* policy or deadline is not accepted; times are not compared at all.  Every *)
(* connection can end anywhere (Abort): by an exception, its deadline, a     *)
(* kill or a crash of the host.                                              *)
(*                                                                         *)
(* An operator marked "Mutant" is a plausible bug in the definition that     *)
(* follows it, there to show that some property would notice.                *)
(***************************************************************************)
EXTENDS Integers, Sequences, FiniteSets

CONSTANTS
  Apps,        \* applications with a grant
  Keys,        \* idempotency keys, with the principal that owns them
  Digests,     \* artifacts
  Conns,       \* connections served at the same time
  MaxOps,      \* MAX_OPERATIONS
  MaxRecords,  \* records the staging store may retain
  None         \* no artifact, no operation

ASSUME TargetAssumption ==
  /\ MaxOps \in Nat /\ MaxRecords \in Nat
  /\ None \notin Digests \cup (0 .. MaxOps)

VARIABLES
  ops,       \* the ledger's operations; the position is the operation's ID
  desired,   \* desired_generations
  evidence,  \* suffixes of the files the staging store has of an operation
  staged,    \* the artifact an operation's staging intent names
  marker,    \* the operation activation.json records, or Refresh, or None
  registry,  \* releases.json: the installed operation of each application
  release,   \* the generation whose files and services are in place
  routed,    \* the generation the published routes belong to
  conn,      \* the request each connection serves
  admin,     \* how far a replay of installed releases has come
  deploys    \* how often the activator began to deploy an operation; history

ledger == <<ops, desired>>
store  == <<evidence, staged>>
site   == <<registry, release, routed>>
vars   == <<ledger, store, marker, site, conn, admin, deploys>>

OpIds == 1 .. MaxOps
Torn  == -1  \* partly replaced
Refresh == 0 \* the marker of a replay

Operations == 1 .. Len(ops)
Request(at, i, d) == [at |-> at, op |-> i, artifact |-> d, before |-> 0]
Idle       == Request("idle", 0, None)
Absent     == [op |-> 0, generation |-> 0, artifact |-> None]

\* The steps of a connection that hold the store's lock, and the admission's.
Uploads     == {"intent", "part", "verifying", "reverifying", "renamed", "opened"}
Activations == {"marked", "begun", "opened", "deployed", "publishing", "published", "saved", "cleared"}

Activating(c) == conn[c].at \in Activations
AdmissionFree == \A c \in Conns : ~Activating(c)
StagingFree   == \A c \in Conns : conn[c].at \notin Uploads
Served        == admin = "idle"

\* A connection's next step.
Goto(c, at) == conn' = [conn EXCEPT ![c].at = at]
Hangup(c)   == conn' = [conn EXCEPT ![c] = Idle]

-----------------------------------------------------------------------------
(* The admission ledger.                                                    *)

\* The effective status is "reserved".
Current(i) == ops[i].state = "reserved" /\ ops[i].generation = desired[ops[i].app]

Reserved(a, k) ==
  [app |-> a, generation |-> desired[a] + 1, key |-> k, state |-> "reserved", artifact |-> None]

\* The key is new and the store has room.
Reservable(k) == (\A i \in Operations : ops[i].key # k) /\ Len(ops) < MaxOps

\* Mutant: a reservation does not wait for the activation under way.
ReserveUnlocked(a, k) ==
  /\ Served /\ Reservable(k)
  /\ ops' = Append(ops, Reserved(a, k))
  /\ desired' = [desired EXCEPT ![a] = @ + 1]
  /\ UNCHANGED <<store, marker, site, conn, admin, deploys>>

\* A new desired generation; if the reply is lost, its replay changes nothing.
Reserve(a, k) ==
  /\ Served /\ AdmissionFree /\ Reservable(k)
  /\ ops' = Append(ops, Reserved(a, k))
  /\ desired' = [desired EXCEPT ![a] = @ + 1]
  /\ UNCHANGED <<store, marker, site, conn, admin, deploys>>

Cancel(i) ==
  /\ Served /\ AdmissionFree
  /\ ops[i].state = "reserved"
  /\ ops' = [ops EXCEPT ![i].state = "cancelled"]
  /\ UNCHANGED <<desired, store, marker, site, conn, admin, deploys>>

-----------------------------------------------------------------------------
(* Staging an artifact for a reserved operation.                            *)

Records == {i \in OpIds : evidence[i] # {}}

\* _scan: one ambiguous operation makes the whole store unusable.
Readable ==
  \A i \in OpIds : "ready" \in evidence[i] =>
    "bundle" \in evidence[i] /\ evidence[i] \cap {"part", "verify"} = {}

Ready(i) == {"bundle", "ready"} \subseteq evidence[i] /\ "uncertain" \notin evidence[i]

\* What _admission accepts; a replay may find the operation completed.
Admitted(i, d, replay) ==
  Current(i) \/ (replay /\ ops[i].state = "completed" /\ ops[i].artifact = d)

StageOpen(c, i, d) ==
  /\ Served /\ AdmissionFree
  /\ conn[c] = Idle
  /\ Current(i)
  /\ conn' = [conn EXCEPT ![c] = Request("checked", i, d)]
  /\ UNCHANGED <<ledger, store, marker, site, admin, deploys>>

StageAdmit(c) ==
  /\ conn[c].at = "checked" /\ AdmissionFree
  /\ Admitted(conn[c].op, conn[c].artifact, TRUE)
  /\ Goto(c, IF Current(conn[c].op) THEN "admitted" ELSE "replaying")
  /\ UNCHANGED <<ledger, store, marker, site, admin, deploys>>

\* The intent binds the operation to this artifact; the store stays locked.  It is
\* written whole here: a crash in mid-write leaves a torn intent, which only makes
\* _scan refuse what the store is asked for.
StageIntent(c) ==
  LET i == conn[c].op IN
  /\ conn[c].at = "admitted" /\ StagingFree /\ Readable
  /\ evidence[i] = {} /\ Cardinality(Records) < MaxRecords
  /\ evidence' = [evidence EXCEPT ![i] = {"intent"}]
  /\ staged' = [staged EXCEPT ![i] = conn[c].artifact]
  /\ Goto(c, "intent")
  /\ UNCHANGED <<ledger, marker, site, admin, deploys>>

\* The body arrives and is sealed, unpacked and removed again as a test.
StageBody(c) ==
  LET i == conn[c].op IN
  /\ \/ /\ conn[c].at = "intent"    /\ Goto(c, "part")
        /\ evidence' = [evidence EXCEPT ![i] = @ \cup {"part"}]
     \/ /\ conn[c].at = "part"      /\ Goto(c, "verifying")
        /\ evidence' = [evidence EXCEPT ![i] = @ \cup {"verify"}]
     \/ /\ conn[c].at = "verifying" /\ Goto(c, "verified")
        /\ evidence' = [evidence EXCEPT ![i] = @ \ {"verify"}]
  /\ UNCHANGED <<ledger, staged, marker, site, admin, deploys>>

StageRecheck(c) ==
  /\ conn[c].at = "verified" /\ AdmissionFree
  /\ Admitted(conn[c].op, conn[c].artifact, FALSE)
  /\ Goto(c, "rechecked")
  /\ UNCHANGED <<ledger, store, marker, site, admin, deploys>>

StagePublish(c) ==
  LET i == conn[c].op IN
  /\ \/ /\ conn[c].at = "rechecked" /\ StagingFree /\ Readable
        /\ evidence[i] = {"intent", "part"} /\ staged[i] = conn[c].artifact
        /\ evidence' = [evidence EXCEPT ![i] = {"intent", "bundle"}]
        /\ Goto(c, "renamed")
     \/ /\ conn[c].at = "renamed"
        /\ evidence' = [evidence EXCEPT ![i] = @ \cup {"ready"}]
        /\ Goto(c, "staged")
  /\ UNCHANGED <<ledger, staged, marker, site, admin, deploys>>

\* Staged before: the retained bundle is verified once more.
StageReplay(c) ==
  LET i == conn[c].op IN
  /\ \/ /\ conn[c].at \in {"admitted", "replaying"} /\ StagingFree /\ Readable
        /\ Ready(i) /\ staged[i] = conn[c].artifact
        /\ evidence' = [evidence EXCEPT ![i] = @ \cup {"verify"}]
        /\ Goto(c, "reverifying")
     \/ /\ conn[c].at = "reverifying"
        /\ evidence' = [evidence EXCEPT ![i] = @ \ {"verify"}]
        /\ Goto(c, "replayed")
  /\ UNCHANGED <<ledger, staged, marker, site, admin, deploys>>

\* The last status; only then is staging acknowledged.
StageAck(c) ==
  /\ conn[c].at \in {"staged", "replayed"} /\ AdmissionFree
  /\ Admitted(conn[c].op, conn[c].artifact, conn[c].at = "replayed")
  /\ Hangup(c)
  /\ UNCHANGED <<ledger, store, marker, site, admin, deploys>>

-----------------------------------------------------------------------------
(* Activation, all of it under the admission lock.                          *)

\* Mutant: an uncertain activation may be tried again.
ActivatableAgain(i) ==
  /\ ops[i].state \in {"reserved", "uncertain"}
  /\ ops[i].generation = desired[ops[i].app]

Activatable(i) == Current(i)

Activate(c, i, d) ==
  /\ Served /\ AdmissionFree
  /\ conn[c] = Idle
  /\ Activatable(i)
  /\ ops' = [ops EXCEPT ![i].state = "activating", ![i].artifact = d]
  /\ conn' = [conn EXCEPT ![c] = Request("marked", i, d)]
  /\ UNCHANGED <<desired, store, marker, site, admin, deploys>>

App(c) == ops[conn[c].op].app
Gen(c) == ops[conn[c].op].generation

\* Mutant: an unfinished activation does not stop the next one.
BeginAnyway(c) ==
  /\ conn[c].at = "marked"
  /\ registry[App(c)].generation < Gen(c)
  /\ marker' = conn[c].op
  /\ Goto(c, "begun")
  /\ UNCHANGED <<ledger, store, site, admin, deploys>>

Begin(c) ==
  /\ conn[c].at = "marked"
  /\ marker = None /\ registry[App(c)].generation < Gen(c)
  /\ marker' = conn[c].op
  /\ Goto(c, "begun")
  /\ UNCHANGED <<ledger, store, site, admin, deploys>>

\* Mutant: a bundle is used before its ready marker is there.
OpenableEarly(c) == "intent" \in evidence[conn[c].op]

\* open_verified_bundle finds the artifact that the activation names.
Openable(c) == StagingFree /\ Readable /\ Ready(conn[c].op) /\ staged[conn[c].op] = conn[c].artifact

\* deploy_prebuilt begins to replace the release, with the bundle held open.
Open(c) ==
  /\ conn[c].at = "begun" /\ Openable(c)
  /\ release' = [release EXCEPT ![App(c)] = Torn]
  /\ deploys' = [deploys EXCEPT ![conn[c].op] = @ + 1]
  /\ conn' = [conn EXCEPT ![c].at = "opened", ![c].before = release[App(c)]]
  /\ UNCHANGED <<ledger, store, marker, registry, routed, admin>>

Deploy(c) ==
  /\ conn[c].at = "opened"
  /\ release' = [release EXCEPT ![App(c)] = Gen(c)]
  /\ Goto(c, "deployed")
  /\ UNCHANGED <<ledger, store, marker, registry, routed, admin, deploys>>

\* _publish rewrites the routes; they are torn while it runs.
Publish(c) ==
  /\ \/ /\ conn[c].at = "deployed"   /\ Goto(c, "publishing")
        /\ routed' = [routed EXCEPT ![App(c)] = Torn]
     \/ /\ conn[c].at = "publishing" /\ Goto(c, "published")
        /\ routed' = [routed EXCEPT ![App(c)] = Gen(c)]
  /\ UNCHANGED <<ledger, store, marker, registry, release, admin, deploys>>

Save(c) ==
  /\ conn[c].at = "published"
  /\ registry' = [registry EXCEPT ![App(c)] =
       [op |-> conn[c].op, generation |-> Gen(c), artifact |-> conn[c].artifact]]
  /\ Goto(c, "saved")
  /\ UNCHANGED <<ledger, store, marker, release, routed, admin, deploys>>

Complete(c) ==
  /\ conn[c].at = "saved"
  /\ marker' = None
  /\ Goto(c, "cleared")
  /\ UNCHANGED <<ledger, store, site, admin, deploys>>

Finish(c) ==
  /\ conn[c].at = "cleared"
  /\ ops' = [ops EXCEPT ![conn[c].op].state = "completed"]
  /\ Hangup(c)
  /\ UNCHANGED <<desired, store, marker, site, admin, deploys>>

-----------------------------------------------------------------------------
(* A connection that fails, at its deadline, by an error, or killed.        *)

\* Mutant: the activator's exception does not reach the admission.
OutcomesSwallowed(c) == {"activating", "uncertain", "completed"}

\* The outcome is saved as uncertain if it can be; when the last save fails
\* the file may have been replaced all the same.
Outcomes(c) ==
  {"activating", "uncertain"} \cup (IF conn[c].at = "cleared" THEN {"completed"} ELSE {})

AbortActivation(c) ==
  /\ Activating(c)
  /\ \E outcome \in Outcomes(c) : ops' = [ops EXCEPT ![conn[c].op].state = outcome]
  /\ \/ release' = release
     \/ /\ conn[c].at = "opened"
        /\ release' = [release EXCEPT ![App(c)] = conn[c].before]
  /\ Hangup(c)
  /\ UNCHANGED <<desired, store, marker, registry, routed, admin, deploys>>

\* Whatever was written stays; a failed ready marker is marked as uncertain.
AbortStaging(c) ==
  /\ conn[c] # Idle /\ ~Activating(c)
  /\ \/ evidence' = evidence
     \/ /\ conn[c].at = "renamed"
        /\ \E failed \in {{"uncertain"}, {"ready", "uncertain"}, {"ready"}} :
             evidence' = [evidence EXCEPT ![conn[c].op] = @ \cup failed]
  /\ Hangup(c)
  /\ UNCHANGED <<ledger, staged, marker, site, admin, deploys>>

-----------------------------------------------------------------------------
(* Replay of the installed releases by a local setup, and the operator.     *)

Installed == {a \in Apps : registry[a] # Absent}
Gens      == [a \in Apps |-> registry[a].generation]

\* Every retained bundle is checked before anything is changed.  The applications
\* are deployed one after the other; here all are torn until the last one is done.
ReplayBegin ==
  /\ Served /\ \A c \in Conns : conn[c] = Idle
  /\ marker = None
  /\ Installed # {} /\ Readable
  /\ \A a \in Installed : Ready(registry[a].op) /\ staged[registry[a].op] = registry[a].artifact
  /\ marker' = Refresh
  /\ release' = [a \in Apps |-> IF a \in Installed THEN Torn ELSE release[a]]
  /\ admin' = "deploying"
  /\ UNCHANGED <<ledger, store, registry, routed, conn, deploys>>

ReplayPublish ==
  /\ admin = "deploying"
  /\ release' = Gens
  /\ routed' = [a \in Apps |-> IF a \in Installed THEN Torn ELSE routed[a]]
  /\ admin' = "publishing"
  /\ UNCHANGED <<ledger, store, marker, registry, conn, deploys>>

ReplayComplete ==
  /\ admin = "publishing"
  /\ routed' = Gens
  /\ marker' = None
  /\ admin' = "idle"
  /\ UNCHANGED <<ledger, store, registry, release, conn, deploys>>

ReplayAborts ==
  /\ ~Served
  /\ admin' = "idle"
  /\ UNCHANGED <<ledger, store, marker, site, conn, deploys>>

\* The operator makes the host match the registry and resolves the marker.
OperatorResolves ==
  /\ Served /\ AdmissionFree /\ marker # None
  /\ marker' = None
  /\ release' = Gens /\ routed' = Gens
  /\ UNCHANGED <<ledger, store, registry, conn, admin, deploys>>

-----------------------------------------------------------------------------
Init ==
  /\ ops = <<>> /\ desired = [a \in Apps |-> 0]
  /\ evidence = [i \in OpIds |-> {}] /\ staged = [i \in OpIds |-> None]
  /\ marker = None
  /\ registry = [a \in Apps |-> Absent]
  /\ release = [a \in Apps |-> 0] /\ routed = [a \in Apps |-> 0]
  /\ conn = [c \in Conns |-> Idle]
  /\ admin = "idle"
  /\ deploys = [i \in OpIds |-> 0]

Serve(c) ==
  \E i \in Operations, d \in Digests : StageOpen(c, i, d) \/ Activate(c, i, d)

Stage(c) ==
  \/ StageAdmit(c)  \/ StageIntent(c) \/ StageBody(c) \/ StageRecheck(c)
  \/ StagePublish(c) \/ StageReplay(c) \/ StageAck(c)

Activation(c) ==
  \/ Begin(c) \/ Open(c) \/ Deploy(c) \/ Publish(c)
  \/ Save(c)  \/ Complete(c) \/ Finish(c)

Next ==
  \/ \E a \in Apps, k \in Keys : Reserve(a, k)
  \/ \E i \in Operations : Cancel(i)
  \/ \E c \in Conns : Serve(c) \/ Stage(c) \/ Activation(c)
                      \/ AbortActivation(c) \/ AbortStaging(c)
  \/ ReplayBegin \/ ReplayPublish \/ ReplayComplete \/ ReplayAborts
  \/ OperatorResolves

Spec == Init /\ [][Next]_vars

-----------------------------------------------------------------------------
(* Properties.                                                              *)

Operation == [app : Apps, generation : Nat \ {0}, key : Keys,
              state : {"reserved", "cancelled", "activating", "uncertain", "completed"},
              artifact : Digests \cup {None}]
Suffixes  == {"intent", "part", "verify", "bundle", "ready", "uncertain"}
Stages    == Uploads \cup {"checked", "admitted", "replaying", "verified", "rechecked",
                           "staged", "replayed"}

\* The variables have their types.
TypeOK ==
  /\ ops \in Seq(Operation) /\ desired \in [Apps -> Nat]
  /\ evidence \in [OpIds -> SUBSET Suffixes]
  /\ staged \in [OpIds -> Digests \cup {None}]
  /\ marker \in OpIds \cup {Refresh, None}
  /\ registry \in [Apps -> [op : 0 .. MaxOps, generation : Nat, artifact : Digests \cup {None}]]
  /\ release \in [Apps -> Nat \cup {Torn}] /\ routed \in [Apps -> Nat \cup {Torn}]
  /\ conn \in [Conns -> [at : {"idle"} \cup Stages \cup Activations, op : 0 .. MaxOps,
                         artifact : Digests \cup {None}, before : Nat \cup {Torn}]]
  /\ admin \in {"idle", "deploying", "publishing"}
  /\ deploys \in [OpIds -> Nat]

\* The ledger passes _validate_state, which refuses every later operation of a
\* store that does not: replay identities and generations are unique, the
\* generations of an application are complete, and an artifact is bound as soon
\* as an activation started and never before.
LedgerValid ==
  /\ Len(ops) <= MaxOps
  /\ \A i, j \in Operations : i # j =>
       /\ ops[i].key # ops[j].key
       /\ <<ops[i].app, ops[i].generation>> # <<ops[j].app, ops[j].generation>>
  /\ \A a \in Apps : \A g \in 1 .. desired[a] :
       \E i \in Operations : ops[i].app = a /\ ops[i].generation = g
  /\ \A i \in Operations :
       /\ ops[i].generation \in 1 .. desired[ops[i].app]
       /\ ops[i].artifact = None <=> ops[i].state \in {"reserved", "cancelled"}

\* No operation is deployed twice by the activator, whatever was retried,
\* interrupted or resolved by an operator in between.
DeployedOnce == \A i \in OpIds : deploys[i] <= 1

\* Without a marker no replacement is unfinished: files, services and routes of
\* every application belong to the release that the registry names.
Settled ==
  marker = None => \A a \in Apps : release[a] = registry[a].generation
                                   /\ routed[a] = registry[a].generation

\* An operation told to be completed is installed, with the artifact it is
\* bound to, or a later generation of its application is.
CompletedServes ==
  \A i \in Operations : ops[i].state = "completed" =>
    LET installed == registry[ops[i].app] IN
      \/ installed = [op |-> i, generation |-> ops[i].generation, artifact |-> ops[i].artifact]
      \/ installed.generation > ops[i].generation

\* What the registry names is retained: its bundle was published and is still
\* there, and intent, ledger and registry name the same artifact.  (A replay asks
\* for more: see Readable.)
InstalledIsRetained ==
  \A a \in Installed : LET i == registry[a].op IN
    /\ Ready(i)
    /\ staged[i] = registry[a].artifact /\ ops[i].artifact = registry[a].artifact

\* The registry only ever moves to the newest reserved generation, and a
\* superseded operation is never installed.
Rollout == INSTANCE TargetRollout WITH installed <- Gens
ImplementsRollout == Rollout!Spec

=============================================================================
