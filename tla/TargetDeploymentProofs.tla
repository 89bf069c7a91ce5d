------------------------ MODULE TargetDeploymentProofs ------------------------
(* Theorems about TargetDeployment for every value of its constants.         *)
EXTENDS TargetDeployment, SequenceTheorems, TLAPS

-----------------------------------------------------------------------------
(* The inductive invariant.                                                 *)

(* A lock has one holder, and a replay of installed releases has no company. *)
Holding ==
  /\ \A c, e \in Conns : Activating(c) /\ Activating(e) => c = e
  /\ \A c, e \in Conns : conn[c].at \in Uploads /\ conn[e].at \in Uploads => c = e
  /\ ~Served => \A c \in Conns : conn[c] = Idle

(* A connection works on an operation of the ledger.  One that activates it  *)
(* has a newest generation before it, because it holds the admission lock.   *)
Owning(c) ==
  /\ conn[c].at # "idle" => conn[c].op \in Operations
  /\ Activating(c) =>
       /\ ops[conn[c].op].state = "activating"
       /\ ops[conn[c].op].generation = desired[App(c)]
       /\ conn[c].artifact \in Digests
       /\ ops[conn[c].op].artifact = conn[c].artifact

(* What an activation finds and leaves behind at its steps.                 *)
SettledAt(a) == release[a] = registry[a].generation /\ routed[a] = registry[a].generation

Deploying == {"opened", "deployed", "publishing", "published"}

Progress(c) ==
  /\ conn[c].at = "renamed" => evidence[conn[c].op] = {"intent", "bundle"}
  /\ conn[c].at \in {"marked", "begun"} => deploys[conn[c].op] = 0
  /\ conn[c].at \in Deploying \cup {"begun"} => registry[App(c)].generation < Gen(c)
  /\ conn[c].at \in Deploying => Ready(conn[c].op) /\ staged[conn[c].op] = conn[c].artifact
  /\ conn[c].at \in {"saved", "cleared"} =>
       registry[App(c)] = [op |-> conn[c].op, generation |-> Gen(c), artifact |-> conn[c].artifact]
  /\ conn[c].at \in Deploying \cup {"begun", "saved"} =>
       marker = conn[c].op /\ \A a \in Apps \ {App(c)} : SettledAt(a)
  /\ conn[c].at \in {"deployed", "publishing", "published", "saved"} => release[App(c)] = Gen(c)
  /\ conn[c].at \in {"published", "saved"} => routed[App(c)] = Gen(c)

(* A replay keeps the marker until it has replaced everything.              *)
Replaying ==
  /\ ~Served => marker = Refresh
  /\ admin = "publishing" => release = Gens

(* No operation is deployed before its activation starts, or twice.          *)
Deployments ==
  \A i \in OpIds :
    /\ deploys[i] <= 1
    /\ i \notin Operations \/ ops[i].state = "reserved" => deploys[i] = 0

(* The registry names operations that are bound to an artifact.             *)
Registered ==
  \A a \in Installed : registry[a].op \in Operations /\ registry[a].artifact \in Digests

IInv ==
  /\ TypeOK /\ LedgerValid
  /\ Holding /\ Replaying /\ Deployments /\ Registered
  /\ \A c \in Conns : Owning(c) /\ Progress(c)
  /\ Settled /\ CompletedServes /\ InstalledIsRetained

-----------------------------------------------------------------------------
(* Lemmas about the ledger.                                                 *)

(* A position of the ledger is an operation and a legal identity.           *)
LEMMA OperationType ==
  ASSUME TypeOK, Len(ops) <= MaxOps, NEW i \in Operations
  PROVE  ops[i] \in Operation /\ i \in OpIds /\ i # None
<1>1. Len(ops) \in Nat
  BY DEF TypeOK
<1>2. i \in 1 .. MaxOps
  BY <1>1, TargetAssumption DEF Operations
<1>3. ops[i] \in Operation
  BY ElementOfSeq DEF TypeOK, Operations
<1>. QED  BY <1>2, <1>3, TargetAssumption DEF OpIds

(* Replacing one operation changes no other and keeps the ledger's length.  *)
LEMMA RewriteOne ==
  ASSUME TypeOK, NEW i \in Operations, NEW r \in Operation, ops' = [ops EXCEPT ![i] = r]
  PROVE  /\ ops' \in Seq(Operation) /\ Len(ops') = Len(ops) /\ Operations' = Operations
         /\ \A j \in Operations : ops'[j] = IF j = i THEN r ELSE ops[j]
<1>1. ops \in Seq(Operation) /\ i \in 1 .. Len(ops)
  BY DEF TypeOK, Operations
<1>2. /\ [ops EXCEPT ![i] = r] \in Seq(Operation)
      /\ Len([ops EXCEPT ![i] = r]) = Len(ops)
      /\ \A j \in 1 .. Len(ops) : [ops EXCEPT ![i] = r][j] = IF j = i THEN r ELSE ops[j]
  BY <1>1, ExceptSeq
<1>. QED  BY <1>2 DEF Operations

(* So does a change of one state; generation, key and application stay.     *)
LEMMA RewriteState ==
  ASSUME TypeOK, NEW i \in Operations,
         NEW s \in {"reserved", "cancelled", "activating", "uncertain", "completed"},
         ops' = [ops EXCEPT ![i].state = s]
  PROVE  /\ ops' \in Seq(Operation) /\ Len(ops') = Len(ops) /\ Operations' = Operations
         /\ \A j \in Operations :
              ops'[j] = IF j = i THEN [ops[j] EXCEPT !.state = s] ELSE ops[j]
<1>1. ops[i] \in Operation
  BY ElementOfSeq DEF TypeOK, Operations
<1>2. [ops[i] EXCEPT !.state = s] \in Operation
  BY <1>1 DEF Operation
<1>3. ops' = [ops EXCEPT ![i] = [ops[i] EXCEPT !.state = s]]
  OBVIOUS
<1>. QED  BY <1>2, <1>3, RewriteOne

-----------------------------------------------------------------------------
(* Staging.  All its steps have this in common; it is enough for IInv.       *)

StagingStep(c) ==
  /\ ~Activating(c) /\ ~Activating(c)' /\ Served
  /\ conn' \in [Conns -> [at : {"idle"} \cup Stages \cup Activations, op : 0 .. MaxOps,
                          artifact : Digests \cup {None}, before : Nat \cup {Torn}]]
  /\ \A e \in Conns \ {c} : conn'[e] = conn[e]
  /\ conn'[c].at # "idle" => conn'[c].op \in Operations
  /\ conn'[c].at \in Uploads => conn[c].at \in Uploads \/ StagingFree
  /\ conn'[c].at = "renamed" => evidence'[conn'[c].op] = {"intent", "bundle"}
  /\ evidence' \in [OpIds -> SUBSET Suffixes]
  /\ staged' \in [OpIds -> Digests \cup {None}]
  /\ \A i \in OpIds : Ready(i) => Ready(i)' /\ staged'[i] = staged[i]
  /\ evidence' # evidence => conn[c].at \in Uploads \/ StagingFree
  /\ UNCHANGED <<ledger, marker, site, admin, deploys>>

LEMMA StagingKeeps ==
  ASSUME IInv, NEW c \in Conns, StagingStep(c)
  PROVE  IInv'
<1>. USE DEF IInv
<1>1. TypeOK' /\ LedgerValid' /\ Deployments' /\ Registered'
  BY DEF StagingStep, TypeOK, LedgerValid, Deployments, Registered, Installed, Operations,
         ledger, site
<1>2. Holding'
  BY DEF StagingStep, Holding, Activating, Served, StagingFree
<1>3. Replaying' /\ Settled' /\ CompletedServes'
  BY DEF StagingStep, Replaying, Settled, CompletedServes, Served, Operations, Gens,
         ledger, site
<1>4. Operations' = Operations /\ Operations \subseteq OpIds
  BY TargetAssumption DEF StagingStep, Operations, OpIds, ledger, LedgerValid, TypeOK
<1>5. InstalledIsRetained'
  <2>1. SUFFICES ASSUME NEW a \in Installed
        PROVE  /\ Ready(registry[a].op)' /\ staged'[registry[a].op] = registry[a].artifact
               /\ ops[registry[a].op].artifact = registry[a].artifact
    BY DEF InstalledIsRetained, Installed, StagingStep, ledger, site, Ready
  <2>2. registry[a].op \in OpIds
    BY <1>4 DEF Registered
  <2>. QED  BY <2>2 DEF StagingStep, InstalledIsRetained, site, Ready
<1>6. ASSUME NEW e \in Conns PROVE Owning(e)'
  BY <1>4 DEF StagingStep, Owning, Activating, App, ledger
<1>7. ASSUME NEW e \in Conns PROVE Progress(e)'
  <2>1. CASE e = c
    BY <2>1 DEF Progress, StagingStep, Activating, Activations, Deploying
  <2>2. CASE e # c
    <3>1. conn'[e] = conn[e] /\ App(e)' = App(e) /\ Gen(e)' = Gen(e)
      BY <2>2 DEF StagingStep, App, Gen, ledger
    <3>2. conn[e].at = "renamed" => evidence' = evidence
      BY <2>2 DEF StagingStep, StagingFree, Holding, Uploads
    <3>3. conn[e].at \in Deploying => conn[e].op \in OpIds
      BY <1>4 DEF Owning, Deploying
    <3>4. \A a \in Apps : SettledAt(a) => SettledAt(a)'
      BY DEF StagingStep, SettledAt, site
    <3>5. Progress(e)
      OBVIOUS
    <3>. QED  BY <3>1, <3>2, <3>3, <3>4, <3>5 DEF Progress, StagingStep, site
  <2>. QED  BY <2>1, <2>2
<1>. QED  BY <1>1, <1>2, <1>3, <1>5, <1>6, <1>7

(* A stage request occupies no lock that a replay holds, and names one operation. *)
LEMMA Staged ==
  ASSUME IInv, NEW c \in Conns, conn[c].at \in Stages, conn[c].at # "opened"
  PROVE  /\ Served /\ ~Activating(c)
         /\ conn[c].op \in Operations /\ conn[c].op \in OpIds
         /\ conn[c] \in [at : {"idle"} \cup Stages \cup Activations, op : 0 .. MaxOps,
                         artifact : Digests \cup {None}, before : Nat \cup {Torn}]
<1>1. conn[c] # Idle /\ conn[c].at # "idle"
  BY DEF Stages, Uploads, Idle, Request
<1>2. Served
  BY <1>1 DEF IInv, Holding
<1>3. conn[c].op \in Operations
  BY <1>1 DEF IInv, Owning
<1>4. ~Activating(c)
  BY DEF Stages, Uploads, Activating, Activations
<1>. QED  BY <1>2, <1>3, <1>4, OperationType DEF IInv, TypeOK, LedgerValid

LEMMA StageStays ==
  ASSUME IInv, NEW c \in Conns, Stage(c)
  PROVE  StagingStep(c)
<1>. DEFINE i == conn[c].op
<1>0. conn[c].at \in Stages /\ conn[c].at # "opened"
  BY DEF Stage, StageAdmit, StageIntent, StageBody, StageRecheck, StagePublish, StageReplay,
         StageAck, Stages, Uploads
<1>. /\ Served /\ ~Activating(c) /\ i \in Operations /\ i \in OpIds
     /\ conn[c] \in [at : {"idle"} \cup Stages \cup Activations, op : 0 .. MaxOps,
                     artifact : Digests \cup {None}, before : Nat \cup {Torn}]
  BY <1>0, Staged
<1>. evidence \in [OpIds -> SUBSET Suffixes] /\ staged \in [OpIds -> Digests \cup {None}]
     /\ conn \in [Conns -> [at : {"idle"} \cup Stages \cup Activations, op : 0 .. MaxOps,
                            artifact : Digests \cup {None}, before : Nat \cup {Torn}]]
  BY DEF IInv, TypeOK
<1>1. CASE StageAdmit(c)
  BY <1>1 DEF StageAdmit, StagingStep, Goto, Activating, Stages, Uploads, Activations, store, Ready
<1>2. CASE StageIntent(c)
  <2>1. ~Ready(i) /\ "intent" \in Suffixes /\ conn[c].artifact \in Digests \cup {None}
    BY <1>2 DEF StageIntent, Ready, Suffixes
  <2>. QED  BY <1>2, <2>1 DEF StageIntent, StagingStep, Goto, Activating, Stages, Uploads,
         Activations, Ready
<1>3. CASE StageBody(c)
  BY <1>3 DEF StageBody, StagingStep, Goto, Activating, Stages, Uploads, Activations, Ready, Suffixes
<1>4. CASE StageRecheck(c)
  BY <1>4 DEF StageRecheck, StagingStep, Goto, Activating, Stages, Uploads, Activations, store, Ready
<1>5. CASE StagePublish(c)
  <2>1. CASE conn[c].at = "rechecked"
    BY <1>5, <2>1 DEF StagePublish, StagingStep, Goto, Activating, Stages, Uploads, Activations,
      Ready, Suffixes
  <2>2. CASE conn[c].at = "renamed"
    BY <1>5, <2>2 DEF StagePublish, StagingStep, Goto, Activating, Stages, Uploads, Activations,
      Ready, Suffixes
  <2>. QED  BY <1>5, <2>1, <2>2 DEF StagePublish
<1>6. CASE StageReplay(c)
  BY <1>6 DEF StageReplay, StagingStep, Goto, Activating, Stages, Uploads, Activations, Ready, Suffixes
<1>7. CASE StageAck(c)
  BY <1>7, TargetAssumption DEF StageAck, StagingStep, Hangup, Idle, Request, Activating, Stages, Uploads,
    Activations, store, Ready
<1>. QED  BY <1>1, <1>2, <1>3, <1>4, <1>5, <1>6, <1>7 DEF Stage

LEMMA AbortStagingStays ==
  ASSUME IInv, NEW c \in Conns, AbortStaging(c)
  PROVE  StagingStep(c)
<1>1. Served /\ ~Activating(c)
  BY DEF IInv, Holding, AbortStaging
<1>2. evidence' \in [OpIds -> SUBSET Suffixes] /\ \A i \in OpIds : Ready(i) => Ready(i)'
  <2>1. CASE evidence' = evidence
    BY <2>1 DEF IInv, TypeOK, Ready
  <2>2. CASE evidence' # evidence
    <3>1. conn[c].at = "renamed"
      BY <2>2 DEF AbortStaging
    <3>2. conn[c].op \in OpIds
      BY <3>1, Staged DEF Stages, Uploads
    <3>3. ~Ready(conn[c].op)
      <4>1. evidence[conn[c].op] = {"intent", "bundle"}
        BY <3>1 DEF IInv, Progress
      <4>. QED  BY <4>1 DEF Ready
    <3>4. PICK failed \in {{"uncertain"}, {"ready", "uncertain"}, {"ready"}} :
            evidence' = [evidence EXCEPT ![conn[c].op] = @ \cup failed]
      BY <2>2 DEF AbortStaging
    <3>5. failed \subseteq Suffixes /\ evidence \in [OpIds -> SUBSET Suffixes]
      BY DEF Suffixes, IInv, TypeOK
    <3>6. evidence' \in [OpIds -> SUBSET Suffixes]
      BY <3>2, <3>4, <3>5
    <3>7. ASSUME NEW i \in OpIds, Ready(i) PROVE Ready(i)'
      BY <3>2, <3>3, <3>4, <3>5, <3>7 DEF Ready
    <3>. QED  BY <3>6, <3>7
  <2>. QED  BY <2>1, <2>2
<1>3. conn' = [conn EXCEPT ![c] = Idle] /\ Idle \in [at : {"idle"} \cup Stages \cup Activations,
        op : 0 .. MaxOps, artifact : Digests \cup {None}, before : Nat \cup {Torn}]
  BY TargetAssumption DEF AbortStaging, Hangup, Idle, Request
<1>4. ~Activating(c)' /\ conn'[c].at = "idle"
  BY <1>3 DEF IInv, TypeOK, Activating, Activations, Idle, Request
<1>5. evidence' # evidence => conn[c].at \in Uploads
  BY DEF AbortStaging, Uploads
<1>. QED  BY <1>1, <1>2, <1>3, <1>4, <1>5 DEF StagingStep, IInv, TypeOK, AbortStaging, Uploads

LEMMA StageOpenStays ==
  ASSUME IInv, NEW c \in Conns, NEW i \in Operations, NEW d \in Digests, StageOpen(c, i, d)
  PROVE  StagingStep(c)
<1>1. i \in 0 .. MaxOps
  BY OperationType, TargetAssumption DEF IInv, LedgerValid, OpIds
<1>2. Request("checked", i, d)
        \in [at : {"idle"} \cup Stages \cup Activations, op : 0 .. MaxOps,
             artifact : Digests \cup {None}, before : Nat \cup {Torn}]
  BY <1>1 DEF Idle, Request, Stages
<1>. QED  BY <1>2 DEF StageOpen, StagingStep, Idle, Request, Activating, Activations, Stages, Uploads, IInv,
       TypeOK, store, Ready

-----------------------------------------------------------------------------
(* Activation.                                                              *)

(* An activation is alone with the ledger, and its operation is the newest.  *)
LEMMA Alone ==
  ASSUME IInv, NEW c \in Conns, Activating(c)
  PROVE  /\ Served /\ \A e \in Conns \ {c} : ~Activating(e)
         /\ conn[c].op \in Operations /\ conn[c].op \in OpIds /\ conn[c].op # None
         /\ ops[conn[c].op] \in Operation /\ App(c) \in Apps
         /\ Gen(c) = desired[App(c)] /\ Gen(c) \in Nat \ {0} /\ conn[c].artifact \in Digests
         /\ ops[conn[c].op].state = "activating" /\ ops[conn[c].op].artifact = conn[c].artifact
         /\ conn[c] \in [at : Activations, op : 0 .. MaxOps,
                         artifact : Digests \cup {None}, before : Nat \cup {Torn}]
<1>1. conn[c] # Idle /\ conn[c].at # "idle"
  BY DEF Activating, Activations, Idle, Request
<1>2. Served
  BY <1>1 DEF IInv, Holding
<1>3. conn[c].op \in Operations
  BY <1>1 DEF IInv, Owning
<1>4. ops[conn[c].op] \in Operation /\ conn[c].op \in OpIds /\ conn[c].op # None
  BY <1>3, OperationType DEF IInv, LedgerValid
<1>5. App(c) \in Apps /\ Gen(c) \in Nat \ {0}
  BY <1>4 DEF App, Gen, Operation
<1>6. /\ Gen(c) = desired[App(c)] /\ conn[c].artifact \in Digests
      /\ ops[conn[c].op].state = "activating" /\ ops[conn[c].op].artifact = conn[c].artifact
  BY DEF IInv, Owning, Gen, App
<1>7. \A e \in Conns \ {c} : ~Activating(e)
  BY DEF IInv, Holding
<1>8. conn[c] \in [at : Activations, op : 0 .. MaxOps,
                   artifact : Digests \cup {None}, before : Nat \cup {Torn}]
  BY DEF IInv, TypeOK, Activating
<1>. QED  BY <1>2, <1>3, <1>4, <1>5, <1>6, <1>7, <1>8

(* From its marker to the end, an activation keeps the ledger and the store. *)
ActivationStep(c) ==
  /\ Activating(c) /\ Activating(c)'
  /\ conn' \in [Conns -> [at : {"idle"} \cup Stages \cup Activations, op : 0 .. MaxOps,
                          artifact : Digests \cup {None}, before : Nat \cup {Torn}]]
  /\ conn'[c].op = conn[c].op /\ conn'[c].artifact = conn[c].artifact
  /\ \A e \in Conns \ {c} : conn'[e] = conn[e]
  /\ conn'[c].at \in Uploads => conn[c].at \in Uploads \/ StagingFree
  /\ UNCHANGED <<ledger, store, admin>>

LEMMA ActivationKeeps ==
  ASSUME IInv, NEW c \in Conns, ActivationStep(c)
  PROVE  /\ LedgerValid' /\ Holding' /\ Replaying'
         /\ \A e \in Conns : Owning(e)'
         /\ \A e \in Conns \ {c} : Progress(e)'
         /\ registry' = registry => Registered' /\ CompletedServes' /\ InstalledIsRetained'
<1>1. Served /\ \A e \in Conns \ {c} : ~Activating(e)
  BY Alone DEF ActivationStep
<1>2. LedgerValid'
  BY DEF ActivationStep, IInv, LedgerValid, Operations, ledger
<1>3. Holding'
  BY <1>1 DEF ActivationStep, IInv, Holding, Activating, Served, StagingFree
<1>4. Replaying'
  BY <1>1 DEF ActivationStep, Replaying, Served
<1>5. ASSUME NEW e \in Conns PROVE Owning(e)'
  <2>1. Owning(e)
    BY DEF IInv
  <2>2. conn[c].at # "idle"
    BY DEF ActivationStep, Activating, Activations
  <2>3. Owning(c)
    BY DEF IInv
  <2>. QED  BY <2>1, <2>2, <2>3 DEF ActivationStep, Owning, Activating, App, ledger, Operations
<1>6. ASSUME NEW e \in Conns \ {c} PROVE Progress(e)'
  <2>1. conn'[e] = conn[e] /\ evidence' = evidence /\ conn[e].at \notin Activations
    BY <1>1 DEF ActivationStep, store, Activating
  <2>2. Progress(e)
    BY DEF IInv
  <2>. QED  BY <2>1, <2>2 DEF Progress, Activations, Deploying
<1>7. ASSUME registry' = registry PROVE Registered' /\ CompletedServes' /\ InstalledIsRetained'
  BY <1>7 DEF ActivationStep, IInv, Registered, CompletedServes, InstalledIsRetained, Installed,
    Operations, Ready, ledger, store
<1>. QED  BY <1>2, <1>3, <1>4, <1>5, <1>6, <1>7

(* The next step of an activation is such a step.                           *)
LEMMA GotoActivation ==
  ASSUME IInv, NEW c \in Conns, Activating(c), NEW at \in Activations, Goto(c, at),
         at = "opened" => StagingFree, UNCHANGED <<ledger, store, admin>>
  PROVE  ActivationStep(c) /\ conn' = [conn EXCEPT ![c].at = at] /\ conn'[c].at = at
         /\ App(c)' = App(c) /\ Gen(c)' = Gen(c) /\ conn'[c].op = conn[c].op
         /\ conn'[c].artifact = conn[c].artifact
<1>1. conn \in [Conns -> [at : {"idle"} \cup Stages \cup Activations, op : 0 .. MaxOps,
                          artifact : Digests \cup {None}, before : Nat \cup {Torn}]]
  BY DEF IInv, TypeOK
<1>2. conn' = [conn EXCEPT ![c].at = at]
  BY DEF Goto
<1>3. /\ conn'[c].at = at /\ conn'[c].op = conn[c].op /\ conn'[c].artifact = conn[c].artifact
      /\ \A e \in Conns \ {c} : conn'[e] = conn[e]
      /\ conn' \in [Conns -> [at : {"idle"} \cup Stages \cup Activations, op : 0 .. MaxOps,
                              artifact : Digests \cup {None}, before : Nat \cup {Torn}]]
  BY <1>1, <1>2
<1>4. at \in Uploads => at = "opened"
  BY DEF Activations, Uploads
<1>. QED  BY <1>2, <1>3, <1>4 DEF ActivationStep, Activating, App, Gen, ledger

LEMMA BeginStep ==
  ASSUME IInv, NEW c \in Conns, Begin(c)
  PROVE  IInv'
<1>1. Activating(c) /\ "begun" \in Activations /\ conn[c].at = "marked"
  BY DEF Begin, Activating, Activations
<1>2. ActivationStep(c) /\ conn'[c].at = "begun" /\ conn'[c].op = conn[c].op
      /\ App(c)' = App(c) /\ Gen(c)' = Gen(c) /\ registry' = registry
  BY <1>1, GotoActivation DEF Begin, site
<1>3. conn[c].op \in OpIds /\ conn[c].op # None /\ Served
  BY <1>1, Alone
<1>4. TypeOK'
  BY <1>2, <1>3 DEF IInv, TypeOK, ActivationStep, Begin, site, ledger, store
<1>5. Deployments'
  BY <1>2 DEF IInv, Deployments, Begin, ActivationStep, ledger, Operations
<1>6. Progress(c)'
  <2>1. \A a \in Apps : SettledAt(a)'
    BY DEF IInv, Settled, SettledAt, Begin, site
  <2>2. deploys'[conn'[c].op] = 0
    BY <1>1, <1>2 DEF IInv, Progress, Begin
  <2>. QED  BY <1>2, <2>1, <2>2 DEF Progress, Begin, Deploying
<1>7. Settled'
  BY <1>3 DEF Settled, Begin
<1>. QED  BY <1>2, <1>4, <1>5, <1>6, <1>7, ActivationKeeps DEF IInv

(* The steps that replace files, services and routes keep the registry.     *)
LEMMA DeployStep ==
  ASSUME IInv, NEW c \in Conns, Deploy(c) \/ Publish(c)
  PROVE  IInv'
<1>. DEFINE at == conn'[c].at
<1>1. Activating(c) /\ conn[c].at \in {"deployed", "publishing", "opened"}
  BY DEF Deploy, Publish, Activating, Activations
<1>2. /\ ActivationStep(c) /\ registry' = registry /\ marker' = marker /\ deploys' = deploys
      /\ at \in {"deployed", "publishing", "published"}
      /\ conn'[c].op = conn[c].op /\ conn'[c].artifact = conn[c].artifact
      /\ App(c)' = App(c) /\ Gen(c)' = Gen(c)
  <2>1. CASE Deploy(c)
    BY <1>1, <2>1, GotoActivation DEF Deploy, Activations
  <2>2. CASE Publish(c)
    BY <1>1, <2>2, GotoActivation DEF Publish, Activations
  <2>. QED  BY <2>1, <2>2
<1>3. conn[c].op # None /\ App(c) \in Apps /\ Gen(c) \in Nat
  BY <1>1, Alone
<1>4. TypeOK'
  BY <1>2, <1>3 DEF IInv, TypeOK, ActivationStep, Deploy, Publish, ledger, store
<1>5. Deployments'
  BY <1>2 DEF IInv, Deployments, ActivationStep, ledger, Operations
<1>6. Progress(c) /\ marker = conn[c].op
  BY <1>1 DEF IInv, Progress, Deploying
<1>7. Progress(c)'
  <2>1. \A a \in Apps \ {App(c)} : SettledAt(a)'
    BY <1>1, <1>2, <1>6 DEF Progress, SettledAt, Deploy, Publish, Deploying, IInv, TypeOK
  <2>2. release'[App(c)] = Gen(c)
    BY <1>1, <1>3, <1>6 DEF Progress, Deploy, Publish, IInv, TypeOK
  <2>3. at = "published" => routed'[App(c)] = Gen(c)
    BY <1>2, <1>3 DEF Deploy, Publish, Goto, IInv, TypeOK
  <2>4. Ready(conn[c].op)' /\ staged'[conn'[c].op] = conn'[c].artifact
    BY <1>1, <1>2, <1>6 DEF Progress, ActivationStep, store, Ready, Deploying
  <2>5. registry'[App(c)'].generation < Gen(c)'
    BY <1>1, <1>2, <1>6 DEF Progress, Deploying
  <2>. QED  BY <1>2, <1>6, <2>1, <2>2, <2>3, <2>4, <2>5 DEF Progress, Deploying, Ready
<1>8. Settled'
  BY <1>2, <1>3, <1>6 DEF Settled
<1>. QED  BY <1>2, <1>4, <1>5, <1>7, <1>8, ActivationKeeps DEF IInv

LEMMA OpenStep ==
  ASSUME IInv, NEW c \in Conns, Open(c)
  PROVE  IInv'
<1>1. Activating(c) /\ conn[c].at = "begun"
  BY DEF Open, Activating, Activations
<1>2. /\ Served /\ conn[c].op # None /\ App(c) \in Apps /\ conn[c].op \in OpIds
      /\ conn[c].op \in Operations
      /\ conn[c] \in [at : Activations, op : 0 .. MaxOps,
                      artifact : Digests \cup {None}, before : Nat \cup {Torn}]
      /\ ops[conn[c].op].state = "activating"
  BY <1>1, Alone
<1>3. conn'[c] = [conn[c] EXCEPT !.at = "opened", !.before = release[App(c)]]
      /\ \A e \in Conns \ {c} : conn'[e] = conn[e]
  BY DEF Open, IInv, TypeOK
<1>4. release[App(c)] \in Nat \cup {Torn}
  BY <1>2 DEF IInv, TypeOK
<1>5. conn' \in [Conns -> [at : {"idle"} \cup Stages \cup Activations, op : 0 .. MaxOps,
                           artifact : Digests \cup {None}, before : Nat \cup {Torn}]]
  <2>1. conn'[c] \in [at : {"idle"} \cup Stages \cup Activations, op : 0 .. MaxOps,
                      artifact : Digests \cup {None}, before : Nat \cup {Torn}]
    BY <1>2, <1>3, <1>4 DEF Activations
  <2>2. DOMAIN conn' = Conns /\ conn' = [e \in Conns |-> conn'[e]]
    BY DEF Open, IInv, TypeOK
  <2>. QED  BY <1>3, <2>1, <2>2 DEF IInv, TypeOK
<1>6. conn'[c].at = "opened" /\ conn'[c].op = conn[c].op /\ conn'[c].artifact = conn[c].artifact
  BY <1>2, <1>3
<1>7. ActivationStep(c) /\ App(c)' = App(c) /\ Gen(c)' = Gen(c)
  BY <1>1, <1>3, <1>5, <1>6 DEF ActivationStep, Activating, Activations, Open, Openable, App, Gen, ledger
<1>8. deploys[conn[c].op] = 0 /\ deploys' = [deploys EXCEPT ![conn[c].op] = 1]
  <2>1. deploys[conn[c].op] = 0
    BY <1>1 DEF IInv, Progress
  <2>. QED  BY <2>1 DEF Open
<1>9. TypeOK'
  BY <1>2, <1>5, <1>8 DEF IInv, TypeOK, ActivationStep, Open, Torn, ledger, store
<1>10. Deployments'
  BY <1>2, <1>8 DEF IInv, Deployments, Open, ledger, Operations, TypeOK
<1>11. Progress(c) /\ marker = conn[c].op
  BY <1>1 DEF IInv, Progress
<1>12. Progress(c)'
  <2>1. \A a \in Apps \ {App(c)} : SettledAt(a)'
    BY <1>1, <1>2, <1>11 DEF Progress, SettledAt, Open, IInv, TypeOK
  <2>2. Ready(conn[c].op)' /\ staged'[conn'[c].op] = conn'[c].artifact
    BY <1>6 DEF Open, Openable, store, Ready
  <2>3. registry'[App(c)'].generation < Gen(c)'
    BY <1>1, <1>7, <1>11 DEF Progress, Open
  <2>. QED  BY <1>6, <1>7, <1>11, <2>1, <2>2, <2>3 DEF Progress, Deploying, Open, Ready
<1>13. Settled'
  BY <1>2, <1>11 DEF Settled, Open
<1>. QED  BY <1>7, <1>9, <1>10, <1>12, <1>13, ActivationKeeps DEF IInv, Open

(* The registry moves to a later generation, whose bundle is retained.       *)
LEMMA SaveStep ==
  ASSUME IInv, NEW c \in Conns, Save(c)
  PROVE  IInv'
<1>. DEFINE new == [op |-> conn[c].op, generation |-> Gen(c), artifact |-> conn[c].artifact]
<1>1. Activating(c) /\ conn[c].at = "published" /\ "saved" \in Activations
  BY DEF Save, Activating, Activations
<1>2. /\ conn[c].op # None /\ App(c) \in Apps /\ Gen(c) \in Nat \ {0}
      /\ conn[c].op \in Operations /\ conn[c].op \in OpIds /\ conn[c].artifact \in Digests
      /\ ops[conn[c].op].artifact = conn[c].artifact
  BY <1>1, Alone
<1>3. /\ ActivationStep(c) /\ conn'[c].at = "saved"
      /\ conn'[c].op = conn[c].op /\ conn'[c].artifact = conn[c].artifact
      /\ App(c)' = App(c) /\ Gen(c)' = Gen(c)
  BY <1>1, GotoActivation DEF Save
<1>4. /\ registry[App(c)].generation < Gen(c)
      /\ Ready(conn[c].op) /\ staged[conn[c].op] = conn[c].artifact
      /\ marker = conn[c].op /\ release[App(c)] = Gen(c) /\ routed[App(c)] = Gen(c)
      /\ \A a \in Apps \ {App(c)} : SettledAt(a)
  BY <1>1 DEF IInv, Progress, Deploying
<1>5. /\ registry' = [registry EXCEPT ![App(c)] = new]
      /\ registry'[App(c)] = new /\ \A a \in Apps \ {App(c)} : registry'[a] = registry[a]
  BY <1>2 DEF Save, IInv, TypeOK
<1>6. new \in [op : 0 .. MaxOps, generation : Nat, artifact : Digests \cup {None}]
  BY <1>2, TargetAssumption DEF OpIds
<1>7. TypeOK'
  BY <1>2, <1>3, <1>5, <1>6 DEF IInv, TypeOK, ActivationStep, Save, ledger, store
<1>8. Deployments'
  BY <1>3 DEF IInv, Deployments, Save, ledger, Operations
<1>9. Registered'
  BY <1>2, <1>3, <1>5 DEF IInv, Registered, Installed, ActivationStep, ledger, Operations
<1>10. Settled'
  BY <1>2, <1>4 DEF Settled, Save
<1>11. Progress(c)'
  BY <1>3, <1>4, <1>5 DEF Progress, Deploying, Save, SettledAt
<1>12. CompletedServes'
  <2>1. SUFFICES ASSUME NEW i \in Operations, ops[i].state = "completed"
        PROVE  \/ registry'[ops[i].app] = [op |-> i, generation |-> ops[i].generation, artifact |-> ops[i].artifact]
               \/ registry'[ops[i].app].generation > ops[i].generation
    BY <1>3 DEF CompletedServes, ActivationStep, ledger, Operations
  <2>2. ops[i].generation \in Nat /\ ops[i].app \in Apps
    BY OperationType DEF IInv, LedgerValid, Operation
  <2>3. CASE ops[i].app # App(c)
    BY <1>5, <2>1, <2>2, <2>3 DEF IInv, CompletedServes
  <2>4. CASE ops[i].app = App(c)
    <3>1. ops[i].generation <= registry[App(c)].generation
      <4>1. \/ registry[App(c)] = [op |-> i, generation |-> ops[i].generation, artifact |-> ops[i].artifact]
            \/ registry[App(c)].generation > ops[i].generation
        BY <2>1, <2>4 DEF IInv, CompletedServes
      <4>2. registry[App(c)].generation \in Nat
        BY <1>2 DEF IInv, TypeOK
      <4>. QED  BY <2>2, <4>1, <4>2
    <3>2. registry[App(c)].generation \in Nat
      BY <1>2 DEF IInv, TypeOK
    <3>. QED  BY <1>2, <1>4, <1>5, <2>2, <2>4, <3>1, <3>2
  <2>. QED  BY <2>3, <2>4
<1>13. InstalledIsRetained'
  <2>1. SUFFICES ASSUME NEW a \in Apps, registry'[a] # Absent
        PROVE  /\ Ready(registry'[a].op)
               /\ staged[registry'[a].op] = registry'[a].artifact
               /\ ops[registry'[a].op].artifact = registry'[a].artifact
    BY <1>3 DEF InstalledIsRetained, Installed, ActivationStep, ledger, store, Ready
  <2>2. CASE a = App(c)
    BY <1>2, <1>4, <1>5, <2>2
  <2>3. CASE a # App(c)
    BY <1>5, <2>1, <2>3 DEF IInv, InstalledIsRetained, Installed
  <2>. QED  BY <2>2, <2>3
<1>. QED  BY <1>3, <1>7, <1>8, <1>9, <1>10, <1>11, <1>12, <1>13, ActivationKeeps DEF IInv

LEMMA CompleteStep ==
  ASSUME IInv, NEW c \in Conns, Complete(c)
  PROVE  IInv'
<1>1. Activating(c) /\ conn[c].at = "saved" /\ "cleared" \in Activations
  BY DEF Complete, Activating, Activations
<1>2. /\ ActivationStep(c) /\ conn'[c].at = "cleared" /\ registry' = registry
      /\ conn'[c].op = conn[c].op /\ conn'[c].artifact = conn[c].artifact
      /\ App(c)' = App(c) /\ Gen(c)' = Gen(c)
  BY <1>1, GotoActivation DEF Complete, site
<1>3. Progress(c)
  BY DEF IInv
<1>4. TypeOK'
  BY <1>2 DEF IInv, TypeOK, ActivationStep, Complete, site, ledger, store
<1>5. Deployments'
  BY <1>2 DEF IInv, Deployments, Complete, ActivationStep, ledger, Operations
<1>6. Settled'
  <2>1. registry[App(c)].generation = Gen(c)
    BY <1>1, <1>3 DEF Progress
  <2>2. SettledAt(App(c)) /\ \A a \in Apps \ {App(c)} : SettledAt(a)
    BY <1>1, <1>3, <2>1 DEF Progress, SettledAt
  <2>. QED  BY <2>2 DEF Settled, SettledAt, Complete, site
<1>7. Progress(c)'
  BY <1>1, <1>2, <1>3 DEF Progress, Deploying
<1>. QED  BY <1>2, <1>4, <1>5, <1>6, <1>7, ActivationKeeps DEF IInv

(* An activation that ends, in any way, leaves an operation that cannot start *)
(* again; only after its marker is cleared is the operation completed.        *)
LEMMA EndKeeps ==
  ASSUME IInv, NEW c \in Conns, Activating(c), Hangup(c),
         NEW s \in {"activating", "uncertain", "completed"},
         ops' = [ops EXCEPT ![conn[c].op].state = s],
         s = "completed" => conn[c].at = "cleared",
         release' = release \/ conn[c].at = "opened",
         release' \in [Apps -> Nat \cup {Torn}],
         UNCHANGED <<desired, store, marker, registry, routed, admin, deploys>>
  PROVE  IInv'
<1>1. /\ Served /\ \A e \in Conns \ {c} : ~Activating(e)
      /\ conn[c].op \in Operations /\ conn[c].op # None
      /\ ops[conn[c].op].state = "activating" /\ ops[conn[c].op].artifact = conn[c].artifact
      /\ conn[c].artifact \in Digests
  BY Alone
<1>2. /\ ops' \in Seq(Operation) /\ Len(ops') = Len(ops) /\ Operations' = Operations
      /\ \A j \in Operations :
           ops'[j] = IF j = conn[c].op THEN [ops[j] EXCEPT !.state = s] ELSE ops[j]
  <2>1. TypeOK /\ s \in {"reserved", "cancelled", "activating", "uncertain", "completed"}
    BY DEF IInv
  <2>2. conn[c].op \in Operations
    BY <1>1
  <2>. QED  BY <2>1, <2>2, RewriteState
<1>3. \A j \in Operations : ops[j] \in Operation /\ j \in OpIds
  BY OperationType DEF IInv, LedgerValid
<1>4. \A j \in Operations : /\ ops'[j].app = ops[j].app /\ ops'[j].generation = ops[j].generation
                            /\ ops'[j].key = ops[j].key /\ ops'[j].artifact = ops[j].artifact
                            /\ (j # conn[c].op => ops'[j].state = ops[j].state)
                            /\ (j = conn[c].op => ops'[j].state = s)
  BY <1>2, <1>3 DEF Operation
<1>5. conn' = [conn EXCEPT ![c] = Idle] /\ Idle \in [at : {"idle"} \cup Stages \cup Activations,
        op : 0 .. MaxOps, artifact : Digests \cup {None}, before : Nat \cup {Torn}]
      /\ \A e \in Conns : conn'[e] = IF e = c THEN Idle ELSE conn[e]
  BY TargetAssumption DEF Hangup, Idle, Request, IInv, TypeOK
<1>6. Idle.at = "idle"
  BY DEF Idle, Request
<1>7. TypeOK'
  BY <1>2, <1>5 DEF IInv, TypeOK, store
<1>8. LedgerValid'
  <2>1. LedgerValid
    BY DEF IInv
  <2>2. desired' = desired
    OBVIOUS
  <2>3. \A j \in Operations : ops'[j].artifact = None <=> ops'[j].state \in {"reserved", "cancelled"}
    <3>1. conn[c].artifact # None
      BY <1>1, TargetAssumption
    <3>. QED  BY <1>1, <1>4, <2>1, <3>1 DEF LedgerValid
  <2>4. \A j, k \in Operations : j # k =>
           /\ ops'[j].key # ops'[k].key
           /\ <<ops'[j].app, ops'[j].generation>> # <<ops'[k].app, ops'[k].generation>>
    BY <1>4, <2>1 DEF LedgerValid
  <2>5. \A a \in Apps : \A g \in 1 .. desired[a] :
          \E j \in Operations : ops'[j].app = a /\ ops'[j].generation = g
    BY <1>4, <2>1 DEF LedgerValid
  <2>6. \A j \in Operations : ops'[j].generation \in 1 .. desired[ops'[j].app]
    BY <1>4, <2>1 DEF LedgerValid
  <2>7. Len(ops') <= MaxOps
    BY <1>2, <2>1 DEF LedgerValid
  <2>8. Operations' = Operations
    BY <1>2
  <2>9. \A j \in Operations' : /\ ops'[j].generation \in 1 .. desired'[ops'[j].app]
                               /\ ops'[j].artifact = None <=> ops'[j].state \in {"reserved", "cancelled"}
    BY <2>2, <2>3, <2>6, <2>8
  <2>10. \A a \in Apps : \A g \in 1 .. desired'[a] :
          \E j \in Operations' : ops'[j].app = a /\ ops'[j].generation = g
    BY <2>2, <2>5, <2>8
  <2>. QED  BY <2>4, <2>7, <2>8, <2>9, <2>10 DEF LedgerValid
<1>9. Holding'
  <2>1. \A e \in Conns : ~Activating(e)'
    BY <1>1, <1>5, <1>6 DEF Activating, Activations
  <2>2. \A e \in Conns : conn'[e].at \in Uploads => e # c /\ conn'[e] = conn[e]
    BY <1>5, <1>6 DEF Uploads
  <2>3. \A e, f \in Conns : conn[e].at \in Uploads /\ conn[f].at \in Uploads => e = f
    BY DEF IInv, Holding
  <2>4. Served'
    BY <1>1 DEF Served
  <2>. QED  BY <2>1, <2>2, <2>3, <2>4 DEF Holding
<1>10. Replaying'
  BY <1>1 DEF Replaying, Served
<1>11. Deployments'
  BY <1>2, <1>4, <1>1 DEF IInv, Deployments
<1>12. Registered'
  BY <1>2 DEF IInv, Registered, Installed
<1>13. ASSUME NEW e \in Conns PROVE Owning(e)' /\ Progress(e)'
  <2>1. CASE e = c
    BY <1>5, <1>6, <2>1 DEF Owning, Progress, Activating, Activations, Deploying
  <2>2. CASE e # c
    <3>1. conn'[e] = conn[e] /\ conn[e].at \notin Activations /\ evidence' = evidence
      BY <1>1, <1>5, <2>2 DEF Activating, store
    <3>2. Owning(e) /\ Progress(e)
      BY DEF IInv
    <3>. QED  BY <1>2, <3>1, <3>2 DEF Owning, Progress, Activating, Activations, Deploying
  <2>. QED  BY <2>1, <2>2
<1>14. Settled'
  <2>1. CASE release' = release
    BY <2>1 DEF IInv, Settled
  <2>2. CASE conn[c].at = "opened"
    BY <1>1, <2>2 DEF IInv, Progress, Deploying, Settled
  <2>. QED  BY <2>1, <2>2
<1>15. CompletedServes'
  <2>1. s = "completed" => registry[App(c)] = [op |-> conn[c].op, generation |-> Gen(c),
                                               artifact |-> conn[c].artifact]
    BY DEF IInv, Progress
  <2>a. /\ Operations' = Operations /\ registry' = registry
        /\ \A i \in Operations : /\ ops'[i].app = ops[i].app
                                 /\ ops'[i].generation = ops[i].generation
                                 /\ ops'[i].artifact = ops[i].artifact
    BY <1>2, <1>4
  <2>2. SUFFICES ASSUME NEW i \in Operations, ops'[i].state = "completed"
        PROVE  \/ registry[ops[i].app] = [op |-> i, generation |-> ops[i].generation, artifact |-> ops[i].artifact]
               \/ registry[ops[i].app].generation > ops[i].generation
    BY <2>a DEF CompletedServes
  <2>3. CASE i = conn[c].op
    BY <1>1, <1>4, <2>1, <2>2, <2>3 DEF App, Gen
  <2>4. CASE i # conn[c].op
    BY <1>4, <2>2, <2>4 DEF IInv, CompletedServes
  <2>. QED  BY <2>3, <2>4
<1>16. InstalledIsRetained'
  BY <1>4 DEF IInv, Registered, InstalledIsRetained, Installed, Ready, store
<1>. QED  BY <1>7, <1>8, <1>9, <1>10, <1>11, <1>12, <1>13, <1>14, <1>15, <1>16 DEF IInv

LEMMA FinishStep ==
  ASSUME IInv, NEW c \in Conns, Finish(c)
  PROVE  IInv'
<1>1. Activating(c)
  BY DEF Finish, Activating, Activations
<1>2. release \in [Apps -> Nat \cup {Torn}]
  BY DEF IInv, TypeOK
<1>. QED  BY <1>1, <1>2, EndKeeps DEF Finish, site

LEMMA AbortActivationStep ==
  ASSUME IInv, NEW c \in Conns, AbortActivation(c)
  PROVE  IInv'
<1>1. PICK s \in Outcomes(c) : ops' = [ops EXCEPT ![conn[c].op].state = s]
  BY DEF AbortActivation
<1>2. s \in {"activating", "uncertain", "completed"} /\ (s = "completed" => conn[c].at = "cleared")
  BY DEF Outcomes
<1>3. App(c) \in Apps /\ conn[c].before \in Nat \cup {Torn}
  BY Alone DEF AbortActivation
<1>4. release' \in [Apps -> Nat \cup {Torn}]
  BY <1>3 DEF AbortActivation, IInv, TypeOK
<1>. QED  BY <1>1, <1>2, <1>4, EndKeeps DEF AbortActivation

LEMMA ActivateStep ==
  ASSUME IInv, NEW c \in Conns, NEW i \in Operations, NEW d \in Digests, Activate(c, i, d)
  PROVE  IInv'
<1>. DEFINE started == [ops[i] EXCEPT !.state = "activating", !.artifact = d]
            request == Request("marked", i, d)
<1>1. /\ Served /\ AdmissionFree /\ conn[c] = Idle
      /\ ops[i].state = "reserved" /\ ops[i].generation = desired[ops[i].app]
  BY DEF Activate, Activatable, Current
<1>2. \A j \in Operations : ops[j] \in Operation /\ j \in OpIds
  BY OperationType DEF IInv, LedgerValid
<1>3. /\ started \in Operation /\ started.app = ops[i].app
      /\ started.generation = ops[i].generation /\ started.key = ops[i].key
      /\ started.state = "activating" /\ started.artifact = d
  BY <1>2 DEF Operation
<1>4. /\ ops' \in Seq(Operation) /\ Len(ops') = Len(ops) /\ Operations' = Operations
      /\ \A j \in Operations : ops'[j] = IF j = i THEN started ELSE ops[j]
  <2>1. TypeOK /\ ops' = [ops EXCEPT ![i] = started]
    BY DEF IInv, Activate
  <2>. QED  BY <1>3, <2>1, RewriteOne
<1>5. \A j \in Operations : /\ ops'[j].app = ops[j].app /\ ops'[j].generation = ops[j].generation
                            /\ ops'[j].key = ops[j].key
                            /\ (j # i => ops'[j] = ops[j])
                            /\ (j = i => ops'[j].state = "activating" /\ ops'[j].artifact = d)
  <2>. HIDE DEF started
  <2>. QED  BY <1>3, <1>4
<1>6. conn' = [conn EXCEPT ![c] = request]
      /\ request \in [at : {"idle"} \cup Stages \cup Activations,
                      op : 0 .. MaxOps, artifact : Digests \cup {None}, before : Nat \cup {Torn}]
      /\ request.at = "marked" /\ request.op = i /\ request.artifact = d
      /\ \A e \in Conns : conn'[e] = IF e = c THEN request ELSE conn[e]
  <2>1. request = [at |-> "marked", op |-> i, artifact |-> d, before |-> 0]
    BY DEF Request
  <2>2. i \in 0 .. MaxOps
    BY <1>2, TargetAssumption DEF OpIds
  <2>3. conn' = [conn EXCEPT ![c] = request]
    BY DEF Activate
  <2>4. request \in [at : {"idle"} \cup Stages \cup Activations,
                      op : 0 .. MaxOps, artifact : Digests \cup {None}, before : Nat \cup {Torn}]
        /\ request.at = "marked" /\ request.op = i /\ request.artifact = d
    BY <2>1, <2>2 DEF Activations
  <2>5. \A e \in Conns : conn'[e] = IF e = c THEN request ELSE conn[e]
    BY <2>3 DEF IInv, TypeOK
  <2>. QED  BY <2>3, <2>4, <2>5
<1>7. TypeOK'
  BY <1>4, <1>6 DEF IInv, TypeOK, Activate, store, site
<1>8. LedgerValid'
  <2>1. ops[i].artifact = None /\ d # None
    BY <1>1, TargetAssumption DEF IInv, LedgerValid
  <2>2. desired' = desired /\ Len(ops') = Len(ops)
    BY <1>4 DEF Activate
  <2>3. ASSUME NEW j \in Operations PROVE ops'[j].artifact = None <=> ops'[j].state \in {"reserved", "cancelled"}
    BY <1>5, <2>1, <2>3 DEF IInv, LedgerValid
  <2>4. LedgerValid
    BY DEF IInv
  <2>5. \A j, k \in Operations : j # k =>
           /\ ops'[j].key # ops'[k].key
           /\ <<ops'[j].app, ops'[j].generation>> # <<ops'[k].app, ops'[k].generation>>
    <3>1. \A j, k \in Operations : j # k =>
             ops[j].key # ops[k].key /\ <<ops[j].app, ops[j].generation>> # <<ops[k].app, ops[k].generation>>
      BY <2>4 DEF LedgerValid
    <3>2. \A j \in Operations : /\ ops'[j].app = ops[j].app /\ ops'[j].generation = ops[j].generation
                                /\ ops'[j].key = ops[j].key
      BY <1>5
    <3>. HIDE DEF started, request
    <3>. QED  BY <3>1, <3>2
  <2>6. \A a \in Apps : \A g \in 1 .. desired[a] :
          \E j \in Operations : ops'[j].app = a /\ ops'[j].generation = g
    <3>1. \A a \in Apps : \A g \in 1 .. desired[a] :
            \E j \in Operations : ops[j].app = a /\ ops[j].generation = g
      BY <2>4 DEF LedgerValid
    <3>. QED  BY <1>5, <3>1
  <2>7. \A j \in Operations : ops'[j].generation \in 1 .. desired[ops'[j].app]
    BY <1>5, <2>4 DEF LedgerValid
  <2>. HIDE DEF started
  <2>8. Len(ops') <= MaxOps
    BY <2>2, <2>4 DEF LedgerValid
  <2>. QED  BY <1>4, <2>2, <2>3, <2>5, <2>6, <2>7, <2>8 DEF LedgerValid
<1>9. Holding'
  <2>1. \A e \in Conns : Activating(e)' => e = c
    BY <1>1, <1>6 DEF AdmissionFree, Activating
  <2>2. \A e \in Conns : conn'[e].at \in Uploads => e # c /\ conn'[e] = conn[e]
    BY <1>6 DEF Uploads
  <2>3. \A e, f \in Conns : conn[e].at \in Uploads /\ conn[f].at \in Uploads => e = f
    BY DEF IInv, Holding
  <2>4. Served'
    BY <1>1 DEF Served, Activate
  <2>. QED  BY <2>1, <2>2, <2>3, <2>4 DEF Holding
<1>10. Replaying'
  BY <1>1 DEF Replaying, Served, Activate
<1>11. Deployments'
  <2>1. deploys' = deploys /\ Deployments
    BY DEF IInv, Activate
  <2>2. \A j \in Operations : ops'[j].state = "reserved" => ops[j].state = "reserved"
    BY <1>1, <1>5
  <2>. QED  BY <1>4, <2>1, <2>2 DEF Deployments
<1>12. Registered'
  BY <1>4 DEF IInv, Registered, Installed, Activate, site
<1>13. ASSUME NEW e \in Conns PROVE Owning(e)' /\ Progress(e)'
  <2>1. CASE e = c
    <3>1. conn'[e].at = "marked" /\ conn'[e].op = i /\ conn'[e].artifact = d
      BY <1>6, <2>1
    <3>2. App(e)' = ops[i].app /\ desired' = desired
      BY <1>5, <3>1 DEF App, Activate
    <3>3. Owning(e)'
      BY <1>1, <1>4, <1>5, <3>1, <3>2 DEF Owning
    <3>4. deploys'[i] = 0
      BY <1>1, <1>2 DEF IInv, Deployments, Activate
    <3>. QED  BY <3>1, <3>3, <3>4 DEF Progress, Deploying
  <2>2. CASE e # c
    <3>1. conn'[e] = conn[e] /\ conn[e].at \notin Activations /\ evidence' = evidence
      BY <1>1, <1>6, <2>2 DEF AdmissionFree, Activating, Activate, store
    <3>2. Owning(e) /\ Progress(e)
      BY DEF IInv
    <3>3. Owning(e)'
      <4>1. conn[e].at # "idle" => conn[e].op \in Operations
        BY <3>2 DEF Owning
      <4>. QED  BY <1>4, <3>1, <4>1 DEF Owning, Activating
    <3>4. Progress(e)'
      <4>1. conn[e].at = "renamed" => evidence[conn[e].op] = {"intent", "bundle"}
        BY <3>2 DEF Progress
      <4>2. conn'[e].at \notin Activations
        BY <3>1
      <4>. QED  BY <3>1, <4>1, <4>2 DEF Progress, Activations, Deploying
    <3>. QED  BY <3>3, <3>4
  <2>. QED  BY <2>1, <2>2
<1>14. Settled'
  BY DEF IInv, Settled, Activate, site
<1>15. CompletedServes'
  <2>1. SUFFICES ASSUME NEW j \in Operations, ops'[j].state = "completed"
        PROVE  \/ registry[ops[j].app] = [op |-> j, generation |-> ops[j].generation, artifact |-> ops'[j].artifact]
               \/ registry[ops[j].app].generation > ops[j].generation
    <3>1. registry' = registry
      BY DEF Activate, site
    <3>. QED  BY <1>4, <1>5, <3>1 DEF CompletedServes
  <2>2. j # i
    BY <1>5, <2>1
  <2>. QED  BY <1>5, <2>1, <2>2 DEF IInv, CompletedServes
<1>16. InstalledIsRetained'
  <2>1. SUFFICES ASSUME NEW a \in Installed
        PROVE  Ready(registry[a].op) /\ staged[registry[a].op] = registry[a].artifact
               /\ ops'[registry[a].op].artifact = registry[a].artifact
    BY DEF InstalledIsRetained, Installed, Activate, site, store, Ready
  <2>2. registry[a].op \in Operations /\ ops[registry[a].op].artifact = registry[a].artifact
        /\ registry[a].artifact # None
    BY TargetAssumption DEF IInv, Registered, InstalledIsRetained
  <2>3. registry[a].op # i
    BY <1>1, <2>2 DEF IInv, LedgerValid
  <2>. QED  BY <1>5, <2>2, <2>3 DEF IInv, InstalledIsRetained
<1>. QED  BY <1>7, <1>8, <1>9, <1>10, <1>11, <1>12, <1>13, <1>14, <1>15, <1>16 DEF IInv

-----------------------------------------------------------------------------
(* Admission.                                                               *)

(* A reservation takes a generation that no operation of the ledger has.    *)
LEMMA ReserveStep ==
  ASSUME IInv, NEW a \in Apps, NEW k \in Keys, Reserve(a, k)
  PROVE  IInv'
<1>. DEFINE new == Reserved(a, k)
            n == Len(ops)
<1>1. Served /\ AdmissionFree /\ Reservable(k) /\ n \in Nat /\ n < MaxOps
      /\ desired[a] \in Nat /\ desired \in [Apps -> Nat]
  BY DEF Reserve, Reservable, IInv, TypeOK
<1>2. new \in Operation /\ new.app = a /\ new.generation = desired[a] + 1 /\ new.key = k
      /\ new.state = "reserved" /\ new.artifact = None
  BY <1>1 DEF Reserved, Operation
<1>3. /\ ops' \in Seq(Operation) /\ Len(ops') = n + 1
      /\ \A j \in Operations : ops'[j] = ops[j]
      /\ ops'[n + 1] = new
  BY <1>2, AppendProperties DEF Reserve, IInv, TypeOK, Operations
<1>4. Operations' = Operations \cup {n + 1} /\ n + 1 \notin Operations /\ n + 1 \in OpIds
  BY <1>1, <1>3, TargetAssumption DEF Operations, OpIds
<1>5. /\ desired' \in [Apps -> Nat] /\ desired'[a] = desired[a] + 1
      /\ \A b \in Apps \ {a} : desired'[b] = desired[b]
  BY <1>1 DEF Reserve
<1>6. UNCHANGED <<store, marker, site, conn, admin, deploys>>
  BY DEF Reserve
<1>7. \A j \in Operations : ops[j] \in Operation /\ j \in OpIds
  BY OperationType DEF IInv, LedgerValid
<1>8. TypeOK'
  BY <1>3, <1>5, <1>6 DEF IInv, TypeOK, store, site
<1>9. LedgerValid'
  <2>1. Len(ops') <= MaxOps
    BY <1>1, <1>3, TargetAssumption
  <2>2. ASSUME NEW i \in Operations', NEW j \in Operations', i # j
        PROVE  /\ ops'[i].key # ops'[j].key
               /\ <<ops'[i].app, ops'[i].generation>> # <<ops'[j].app, ops'[j].generation>>
    <3>1. ASSUME NEW l \in Operations
          PROVE  /\ ops[l].key # k
                 /\ ops[l].app = a => ops[l].generation < desired[a] + 1
      BY <1>1, <1>7 DEF Reservable, IInv, LedgerValid, Operation
    <3>2. CASE i \in Operations /\ j \in Operations
      BY <1>3, <2>2, <3>2 DEF IInv, LedgerValid
    <3>3. CASE i = n + 1
      BY <1>2, <1>3, <1>4, <1>7, <2>2, <3>1, <3>3 DEF Operation
    <3>4. CASE j = n + 1
      BY <1>2, <1>3, <1>4, <1>7, <2>2, <3>1, <3>4 DEF Operation
    <3>. QED  BY <1>4, <3>2, <3>3, <3>4
  <2>3. ASSUME NEW b \in Apps, NEW g \in 1 .. desired'[b]
        PROVE  \E i \in Operations' : ops'[i].app = b /\ ops'[i].generation = g
    <3>1. CASE b = a /\ g = desired[a] + 1
      BY <1>2, <1>3, <1>4, <3>1
    <3>2. CASE ~(b = a /\ g = desired[a] + 1)
      <4>1. g \in 1 .. desired[b]
        BY <1>1, <1>5, <2>3, <3>2
      <4>2. PICK i \in Operations : ops[i].app = b /\ ops[i].generation = g
        BY <4>1 DEF IInv, LedgerValid
      <4>. QED  BY <1>3, <1>4, <4>2
    <3>. QED  BY <3>1, <3>2
  <2>4. ASSUME NEW i \in Operations'
        PROVE  /\ ops'[i].generation \in 1 .. desired'[ops'[i].app]
               /\ ops'[i].artifact = None <=> ops'[i].state \in {"reserved", "cancelled"}
    <3>1. CASE i = n + 1
      BY <1>1, <1>2, <1>3, <1>5, <3>1
    <3>2. CASE i \in Operations
      <4>1. ops[i].generation \in 1 .. desired[ops[i].app] /\ ops[i].app \in Apps
        BY <1>7, <3>2 DEF IInv, LedgerValid, Operation
      <4>2. ops'[i].generation \in 1 .. desired'[ops'[i].app]
        <5>1. ops'[i] = ops[i]
          BY <1>3, <3>2
        <5>2. CASE ops[i].app = a
          BY <1>1, <1>5, <4>1, <5>1, <5>2
        <5>3. CASE ops[i].app # a
          BY <1>5, <4>1, <5>1, <5>3
        <5>. QED  BY <5>2, <5>3
      <4>. QED  BY <1>3, <3>2, <4>2 DEF IInv, LedgerValid
    <3>. QED  BY <1>4, <3>1, <3>2
  <2>. QED  BY <2>1, <2>2, <2>3, <2>4 DEF LedgerValid
<1>10. Holding' /\ Replaying'
  BY <1>1, <1>6 DEF IInv, Holding, Replaying, Served, Activating
<1>11. Deployments'
  BY <1>2, <1>3, <1>4, <1>6 DEF IInv, Deployments
<1>12. Registered' /\ Settled'
  BY <1>4, <1>6 DEF IInv, Registered, Installed, Settled, site
<1>13. ASSUME NEW e \in Conns PROVE Owning(e)' /\ Progress(e)'
  BY <1>1, <1>4, <1>6 DEF IInv, AdmissionFree, Owning, Progress, Activating, Activations, Deploying, store
<1>14. CompletedServes'
  BY <1>2, <1>3, <1>4, <1>6 DEF IInv, CompletedServes, site
<1>15. InstalledIsRetained'
  BY <1>3, <1>6 DEF IInv, Registered, InstalledIsRetained, Installed, Ready, store, site
<1>. QED  BY <1>8, <1>9, <1>10, <1>11, <1>12, <1>13, <1>14, <1>15 DEF IInv

LEMMA CancelStep ==
  ASSUME IInv, NEW i \in Operations, Cancel(i)
  PROVE  IInv'
<1>1. Served /\ AdmissionFree /\ ops[i].state = "reserved" /\ ops' = [ops EXCEPT ![i].state = "cancelled"]
      /\ UNCHANGED <<desired, store, marker, site, conn, admin, deploys>>
  BY DEF Cancel
<1>2. /\ ops' \in Seq(Operation) /\ Len(ops') = Len(ops) /\ Operations' = Operations
      /\ \A j \in Operations : ops'[j] = IF j = i THEN [ops[j] EXCEPT !.state = "cancelled"] ELSE ops[j]
  BY <1>1, RewriteState DEF IInv
<1>3. \A j \in Operations : ops[j] \in Operation /\ j \in OpIds
  BY OperationType DEF IInv, LedgerValid
<1>4. \A j \in Operations : /\ ops'[j].app = ops[j].app /\ ops'[j].generation = ops[j].generation
                            /\ ops'[j].key = ops[j].key /\ ops'[j].artifact = ops[j].artifact
                            /\ (j # i => ops'[j].state = ops[j].state)
                            /\ (j = i => ops'[j].state = "cancelled")
  BY <1>2, <1>3 DEF Operation
<1>5. TypeOK'
  BY <1>1, <1>2 DEF IInv, TypeOK, store, site
<1>6. LedgerValid'
  BY <1>1, <1>2, <1>4 DEF IInv, LedgerValid
<1>7. Holding' /\ Replaying'
  BY <1>1 DEF IInv, Holding, Replaying, Served, Activating
<1>8. Deployments'
  BY <1>1, <1>2, <1>4 DEF IInv, Deployments
<1>9. Registered' /\ Settled'
  BY <1>1, <1>2 DEF IInv, Registered, Installed, Settled, site
<1>10. ASSUME NEW e \in Conns PROVE Owning(e)' /\ Progress(e)'
  BY <1>1, <1>2 DEF IInv, AdmissionFree, Owning, Progress, Activating, Activations, Deploying, store
<1>11. CompletedServes'
  BY <1>1, <1>2, <1>4 DEF IInv, CompletedServes, site
<1>12. InstalledIsRetained'
  BY <1>1, <1>4 DEF IInv, Registered, InstalledIsRetained, Installed, Ready, store, site
<1>. QED  BY <1>5, <1>6, <1>7, <1>8, <1>9, <1>10, <1>11, <1>12 DEF IInv

-----------------------------------------------------------------------------
(* Replay and recovery change neither ledger, store nor registry.           *)

(* What such a step has to show is only about the site and the marker.      *)
LEMMA SiteKeeps ==
  ASSUME IInv, AdmissionFree, UNCHANGED <<ledger, store, registry, conn, deploys>>,
         release' \in [Apps -> Nat \cup {Torn}], routed' \in [Apps -> Nat \cup {Torn}],
         marker' \in {marker, Refresh, None}, admin' \in {"idle", "deploying", "publishing"},
         Settled', Replaying', ~Served' => \A c \in Conns : conn[c] = Idle
  PROVE  IInv'
<1>1. TypeOK'
  BY DEF IInv, TypeOK, ledger, store
<1>2. LedgerValid' /\ Deployments' /\ Registered'
  BY DEF IInv, LedgerValid, Deployments, Registered, Installed, Operations, ledger
<1>3. Holding'
  BY DEF IInv, Holding, Activating
<1>4. ASSUME NEW e \in Conns PROVE Owning(e)' /\ Progress(e)'
  BY DEF IInv, AdmissionFree, Owning, Progress, Activating, Activations, Deploying, store, ledger, Operations
<1>5. CompletedServes' /\ InstalledIsRetained'
  BY DEF IInv, CompletedServes, InstalledIsRetained, Installed, Ready, Operations, ledger, store
<1>. QED  BY <1>1, <1>2, <1>3, <1>4, <1>5 DEF IInv

LEMMA GensType == ASSUME TypeOK PROVE Gens \in [Apps -> Nat]
BY DEF TypeOK, Gens

LEMMA ReplayStep ==
  ASSUME IInv, ReplayBegin \/ ReplayPublish \/ ReplayComplete \/ ReplayAborts
  PROVE  IInv'
<1>1. \A c \in Conns : conn[c] = Idle
  BY DEF ReplayBegin, ReplayPublish, ReplayComplete, ReplayAborts, IInv, Holding, Served
<1>2. AdmissionFree
  BY <1>1 DEF AdmissionFree, Activating, Activations, Idle, Request
<1>3. Gens \in [Apps -> Nat] /\ TypeOK
  BY GensType DEF IInv
<1>4. CASE ReplayBegin
  <2>1. marker' = Refresh /\ Refresh # None
    BY <1>4, TargetAssumption DEF ReplayBegin, Refresh
  <2>2. release' \in [Apps -> Nat \cup {Torn}] /\ routed' = routed /\ admin' = "deploying"
    BY <1>3, <1>4 DEF ReplayBegin, TypeOK
  <2>. QED  BY <1>1, <1>2, <1>3, <1>4, <2>1, <2>2, SiteKeeps DEF ReplayBegin, TypeOK, Settled, Replaying
<1>5. CASE ReplayPublish
  <2>1. marker' = Refresh /\ Refresh # None
    BY <1>5, TargetAssumption DEF ReplayPublish, Refresh, IInv, Replaying, Served
  <2>2. /\ release' = Gens /\ Gens' = Gens /\ admin' = "publishing"
        /\ release' \in [Apps -> Nat \cup {Torn}] /\ routed' \in [Apps -> Nat \cup {Torn}]
    BY <1>3, <1>5 DEF ReplayPublish, TypeOK, Gens
  <2>. QED  BY <1>1, <1>2, <1>5, <2>1, <2>2, SiteKeeps DEF ReplayPublish, Settled, Replaying
<1>6. CASE ReplayComplete
  <2>1. release = Gens /\ routed' = Gens /\ admin' = "idle" /\ marker' = None
    BY <1>6 DEF ReplayComplete, IInv, Replaying
  <2>2. Settled' /\ Replaying'
    BY <1>6, <2>1 DEF ReplayComplete, Settled, Replaying, Gens, Served
  <2>. QED  BY <1>1, <1>2, <1>3, <1>6, <2>1, <2>2, SiteKeeps DEF ReplayComplete, TypeOK
<1>7. CASE ReplayAborts
  <2>1. Settled' /\ Replaying' /\ admin' = "idle"
    BY <1>7 DEF ReplayAborts, IInv, Settled, Replaying, Served, site
  <2>. QED  BY <1>1, <1>2, <1>3, <1>7, <2>1, SiteKeeps DEF ReplayAborts, TypeOK, site
<1>. QED  BY <1>4, <1>5, <1>6, <1>7

LEMMA ResolveStep ==
  ASSUME IInv, OperatorResolves
  PROVE  IInv'
<1>1. Gens \in [Apps -> Nat] /\ TypeOK
  BY GensType DEF IInv
<1>2. Settled' /\ Replaying'
  BY DEF OperatorResolves, Settled, Replaying, Gens, Served
<1>. QED  BY <1>1, <1>2, SiteKeeps DEF OperatorResolves, TypeOK, Served

-----------------------------------------------------------------------------
(* The theorems.                                                            *)

LEMMA Initially == Init => IInv
<1>. SUFFICES ASSUME Init PROVE IInv
  OBVIOUS
<1>1. Operations = {} /\ Len(ops) = 0
  BY DEF Init, Operations
<1>2. \A c \in Conns : conn[c] = Idle /\ conn[c].at = "idle"
  BY DEF Init, Idle, Request
<1>3. TypeOK
  <2>1. Idle \in [at : {"idle"} \cup Stages \cup Activations, op : 0 .. MaxOps,
                  artifact : Digests \cup {None}, before : Nat \cup {Torn}]
    BY TargetAssumption DEF Idle, Request
  <2>2. Absent \in [op : 0 .. MaxOps, generation : Nat, artifact : Digests \cup {None}]
    BY TargetAssumption DEF Absent
  <2>. QED  BY <2>1, <2>2 DEF Init, TypeOK
<1>4. LedgerValid
  BY <1>1, TargetAssumption DEF Init, LedgerValid
<1>5. Holding /\ Replaying /\ Deployments /\ Registered
  BY <1>1, <1>2 DEF Init, Holding, Replaying, Deployments, Registered, Installed, Served, Activating,
    Activations, Uploads
<1>6. ASSUME NEW c \in Conns PROVE Owning(c) /\ Progress(c)
  BY <1>2 DEF Owning, Progress, Activating, Activations, Deploying
<1>7. Settled /\ CompletedServes /\ InstalledIsRetained
  BY <1>1 DEF Init, Settled, CompletedServes, InstalledIsRetained, Installed, Absent
<1>. QED  BY <1>3, <1>4, <1>5, <1>6, <1>7 DEF IInv

LEMMA Inductive == ASSUME IInv, [Next]_vars PROVE IInv'
<1>1. ASSUME NEW a \in Apps, NEW k \in Keys, Reserve(a, k) PROVE IInv'
  BY <1>1, ReserveStep
<1>2. ASSUME NEW i \in Operations, Cancel(i) PROVE IInv'
  BY <1>2, CancelStep
<1>3. ASSUME NEW c \in Conns, Serve(c) PROVE IInv'
  <2>1. PICK i \in Operations, d \in Digests : StageOpen(c, i, d) \/ Activate(c, i, d)
    BY <1>3 DEF Serve
  <2>. QED  BY <2>1, StageOpenStays, StagingKeeps, ActivateStep
<1>4. ASSUME NEW c \in Conns, Stage(c) PROVE IInv'
  BY <1>4, StageStays, StagingKeeps
<1>5. ASSUME NEW c \in Conns, Activation(c) PROVE IInv'
  BY <1>5, BeginStep, OpenStep, DeployStep, SaveStep, CompleteStep, FinishStep DEF Activation
<1>6. ASSUME NEW c \in Conns, AbortActivation(c) PROVE IInv'
  BY <1>6, AbortActivationStep
<1>7. ASSUME NEW c \in Conns, AbortStaging(c) PROVE IInv'
  BY <1>7, AbortStagingStays, StagingKeeps
<1>8. CASE ReplayBegin \/ ReplayPublish \/ ReplayComplete \/ ReplayAborts
  BY <1>8, ReplayStep
<1>9. CASE OperatorResolves
  BY <1>9, ResolveStep
<1>10. CASE UNCHANGED vars
  <2>1. /\ ops' = ops /\ desired' = desired /\ evidence' = evidence /\ staged' = staged
        /\ marker' = marker /\ registry' = registry /\ release' = release /\ routed' = routed
        /\ conn' = conn /\ admin' = admin /\ deploys' = deploys
    BY <1>10 DEF vars, ledger, store, site
  <2>2. TypeOK' /\ LedgerValid' /\ Holding' /\ Replaying' /\ Deployments' /\ Registered'
    BY <2>1 DEF IInv, TypeOK, LedgerValid, Holding, Replaying, Deployments, Registered, Operations,
      Installed, Activating, Served, Gens
  <2>3. Settled' /\ CompletedServes' /\ InstalledIsRetained'
    BY <2>1 DEF IInv, Settled, CompletedServes, InstalledIsRetained, Operations, Installed, Ready
  <2>4. ASSUME NEW c \in Conns PROVE Owning(c)' /\ Progress(c)'
    <3>1. Owning(c) /\ Progress(c)
      BY DEF IInv
    <3>2. App(c)' = App(c) /\ Gen(c)' = Gen(c) /\ \A a \in Apps : SettledAt(a)' = SettledAt(a)
      BY <2>1 DEF App, Gen, SettledAt
    <3>3. Owning(c)'
      BY <2>1, <3>1, <3>2 DEF Owning, Activating, Operations
    <3>4. Progress(c)'
      BY <2>1, <3>1, <3>2 DEF Progress, Ready
    <3>. QED  BY <3>3, <3>4
  <2>. QED  BY <2>2, <2>3, <2>4 DEF IInv
<1>. QED  BY <1>1, <1>2, <1>3, <1>4, <1>5, <1>6, <1>7, <1>8, <1>9, <1>10 DEF Next

THEOREM Invariance == Spec => []IInv
BY Initially, Inductive, PTL DEF Spec

(* No sequence of admissions, activations, failures and restarts leaves a    *)
(* ledger that _validate_state refuses (lib/build_admission.py).             *)
THEOREM LedgerStaysValid == Spec => []LedgerValid
<1>1. IInv => LedgerValid
  BY DEF IInv
<1>. QED  BY <1>1, Invariance, PTL

(* The activator deploys an operation at most once (lib/build_target_activation.py). *)
THEOREM NeverDeployedTwice == Spec => []DeployedOnce
<1>1. IInv => DeployedOnce
  BY DEF IInv, Deployments, DeployedOnce
<1>. QED  BY <1>1, Invariance, PTL

(* Without activation.json, files, services and routes are those of the      *)
(* registry, whatever was interrupted before (lib/build_target_activation.py). *)
THEOREM MarkerCoversReplacement == Spec => []Settled
<1>1. IInv => Settled
  BY DEF IInv
<1>. QED  BY <1>1, Invariance, PTL

(* A completed operation is installed, or superseded by an installed one.    *)
THEOREM CompletionIsInstallation == Spec => []CompletedServes
<1>1. IInv => CompletedServes
  BY DEF IInv
<1>. QED  BY <1>1, Invariance, PTL

(* What the registry names keeps its published bundle in the staging store.   *)
THEOREM InstalledStaysRetained == Spec => []InstalledIsRetained
<1>1. IInv => InstalledIsRetained
  BY DEF IInv
<1>. QED  BY <1>1, Invariance, PTL

-----------------------------------------------------------------------------
(* The refinement of TargetRollout.                                         *)

LEMMA RolloutInitially == Init => Rollout!Init
BY DEF Init, Rollout!Init, Gens, Absent

(* Only a reservation and the save of the registry are visible: the latter   *)
(* installs the desired generation, for it holds the admission lock.         *)
LEMMA RolloutStep == ASSUME IInv, [Next]_vars PROVE [Rollout!Next]_(Rollout!vars)
<1>1. ASSUME NEW a \in Apps, NEW k \in Keys, Reserve(a, k) PROVE Rollout!Next
  <2>1. desired' = [desired EXCEPT ![a] = @ + 1] /\ Gens' = Gens
    BY <1>1 DEF Reserve, site, Gens
  <2>. QED  BY <2>1 DEF Rollout!Next, Rollout!Reserve
<1>2. ASSUME NEW c \in Conns, Save(c) PROVE Rollout!Next
  <2>1. Activating(c) /\ conn[c].at = "published"
    BY <1>2 DEF Save, Activating, Activations
  <2>2. App(c) \in Apps /\ Gen(c) = desired[App(c)] /\ desired' = desired
    BY <1>2, <2>1, Alone DEF Save, ledger
  <2>3. registry[App(c)].generation < Gen(c)
    BY <2>1 DEF IInv, Progress, Deploying
  <2>4. Gens' = [Gens EXCEPT ![App(c)] = desired[App(c)]]
    BY <1>2, <2>2 DEF Save, Gens, IInv, TypeOK
  <2>5. Gens[App(c)] < desired[App(c)]
    BY <2>2, <2>3 DEF Gens
  <2>6. Rollout!Install(App(c))
    BY <2>2, <2>4, <2>5 DEF Rollout!Install
  <2>. QED  BY <2>2, <2>6 DEF Rollout!Next
<1>3. ASSUME UNCHANGED <<desired, registry>> PROVE UNCHANGED Rollout!vars
  BY <1>3 DEF Rollout!vars, Gens
<1>4. ASSUME NEW c \in Conns, Serve(c) \/ Stage(c) \/ AbortStaging(c) \/ AbortActivation(c)
      PROVE  UNCHANGED <<desired, registry>>
  BY <1>4 DEF Serve, StageOpen, Activate, Stage, StageAdmit, StageIntent, StageBody, StageRecheck,
    StagePublish, StageReplay, StageAck, AbortStaging, AbortActivation, ledger, site
<1>5. ASSUME NEW c \in Conns, Begin(c) \/ Open(c) \/ Deploy(c) \/ Publish(c) \/ Complete(c) \/ Finish(c)
      PROVE  UNCHANGED <<desired, registry>>
  BY <1>5 DEF Begin, Open, Deploy, Publish, Complete, Finish, ledger, site
<1>6. ASSUME (\E i \in Operations : Cancel(i)) \/ ReplayBegin \/ ReplayPublish \/ ReplayComplete
             \/ ReplayAborts \/ OperatorResolves \/ UNCHANGED vars
      PROVE  UNCHANGED <<desired, registry>>
  BY <1>6 DEF Cancel, ReplayBegin, ReplayPublish, ReplayComplete, ReplayAborts, OperatorResolves,
    vars, ledger, site
<1>. QED  BY <1>1, <1>2, <1>3, <1>4, <1>5, <1>6 DEF Next, Activation

(* Installed generations only grow, and only to the newest desired one: a    *)
(* superseded operation is never installed (lib/build_admission.py).         *)
THEOREM RolloutImplemented == Spec => ImplementsRollout
BY Invariance, RolloutInitially, RolloutStep, PTL DEF Spec, ImplementsRollout, Rollout!Spec

=============================================================================
