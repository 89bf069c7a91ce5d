------------------------ MODULE UnitTransactionProofs ------------------------
(* Theorems about UnitTransaction for every value of its constants.          *)
EXTENDS UnitTransaction, SequenceTheorems, TLAPS

-----------------------------------------------------------------------------
(* The inductive invariant.                                                 *)

(* The first elements of a sequence that a loop has passed.                  *)
Passed(s, n) == {s[k] : k \in {m \in DOMAIN s : m < n}}

Modified == {"stopping", "changing", "starting", "activating",
             "quiescing", "restoring", "rearming", "verifying"}

(* An operation in progress has its marker, and from the moment it may have  *)
(* changed anything also the originals.                                      *)
Marked ==
  /\ pc # "idle" => marker # None
  /\ marker = None => backup = None
  /\ pc = "staging" => backup = None
  /\ pc \in Modified \cup {"validating"} => backup # None

(* What is stopped for good, and what the files are after the changes.       *)
Withdrawn == {u \in Members(Stops) : u \in Members(group.remove) => Known(u)}

New(u) == IF u \in Members(group.write) THEN gen ELSE None

(* The operation, as long as nothing has failed.                             *)
Forward ==
  /\ pc \in {"validating", "unmodified", "stopping"} /\ backup # None => files = backup.files
  /\ pc \in {"validating", "unmodified"} /\ backup # None => enabled = backup.enabled
  /\ pc = "stopping" => enabled = backup.enabled \ (Withdrawn \cap Passed(Stops, step))
  /\ pc = "changing" =>
       /\ \A u \in Units : files[u] = IF u \in Passed(Changes, step) THEN New(u) ELSE backup.files[u]
       /\ enabled = backup.enabled \ Withdrawn
  /\ pc \in {"starting", "activating"} => files = Target(backup.files)
  /\ pc = "starting" => enabled = backup.enabled \ Withdrawn
  /\ pc = "activating" =>
       enabled = (backup.enabled \ Withdrawn) \cup Passed(group.activate, step)

(* The rollback knows every unit whose enablement was changed and every file *)
(* that was, ...                                                             *)
Bounded ==
  pc \in Modified =>
    /\ \A u \in Units \ (Members(touched) \cup Members(group.activate)) :
         u \in enabled <=> u \in backup.enabled
    /\ \A u \in Units \ Members(Changes) : files[u] = backup.files[u]

(* ... and restores them unless it reports a fault.                          *)
Restored ==
  /\ ~sound => faults
  /\ pc = "restoring" /\ sound => \A u \in Passed(Changes, step) : files[u] = backup.files[u]
  /\ pc = "rearming" => files = backup.files
  /\ pc = "verifying" /\ ~faults =>
       /\ files = backup.files
       /\ \A u \in Passed(RollbackUnits, step) : u \in enabled <=> u \in backup.enabled

Backward == Bounded /\ Restored

IInv == TypeOK /\ Marked /\ Forward /\ Backward

(* Jobs that the operation started did not run before, and run under its     *)
(* definition until the originals are loaded.                                *)
Started == Members(group.once) \cap Members(touched)

Jobs ==
  /\ pc \notin Modified => touched = << >>
  /\ pc \in {"changing", "starting"} => Members(group.once) \cap backup.active \subseteq preserved
  /\ pc \in {"starting", "activating"} => \A j \in Members(group.once) : loaded[j] = gen
  /\ pc \in {"stopping", "changing"} => Started = {}
  /\ pc \in Modified => Started \cap backup.active = {}
  /\ pc \in {"starting", "activating", "quiescing", "restoring"} =>
       \A j \in Started : loaded[j] = gen /\ running[j] \in {None, gen}

-----------------------------------------------------------------------------
(* Sequences.                                                               *)

LEMMA MembersAppend ==
  ASSUME NEW S, NEW s \in Seq(S), NEW u \in S
  PROVE  Append(s, u) \in Seq(S) /\ Members(Append(s, u)) = Members(s) \cup {u}
<1>1. Append(s, u) \in Seq(S) /\ Len(Append(s, u)) = Len(s) + 1
  OBVIOUS
<1>2. \A k \in 1 .. Len(s) : Append(s, u)[k] = s[k]
  OBVIOUS
<1>3. Append(s, u)[Len(s) + 1] = u
  OBVIOUS
<1>4. DOMAIN s = 1 .. Len(s) /\ DOMAIN Append(s, u) = 1 .. (Len(s) + 1) /\ Len(s) \in Nat
  BY <1>1
<1>5. ASSUME NEW x \in Members(Append(s, u)) PROVE x \in Members(s) \cup {u}
  <2>1. PICK k \in 1 .. (Len(s) + 1) : x = Append(s, u)[k]
    BY <1>4, <1>5 DEF Members
  <2>2. CASE k = Len(s) + 1
    BY <2>1, <2>2, <1>3
  <2>3. CASE k \in 1 .. Len(s)
    BY <2>1, <2>3, <1>2, <1>4 DEF Members
  <2> QED
    BY <2>2, <2>3, <1>4
<1>6. ASSUME NEW x \in Members(s) PROVE x \in Members(Append(s, u))
  BY <1>2, <1>4, <1>6 DEF Members
<1>7. u \in Members(Append(s, u))
  BY <1>3, <1>4 DEF Members
<1> QED
  BY <1>1, <1>5, <1>6, <1>7

LEMMA MembersConcat ==
  ASSUME NEW S, NEW s \in Seq(S), NEW t \in Seq(S)
  PROVE  /\ s \o t \in Seq(S) /\ Members(s \o t) = Members(s) \cup Members(t)
         /\ Members(s) \subseteq S /\ Members(t) \subseteq S
<1>1. s \o t \in Seq(S) /\ Len(s \o t) = Len(s) + Len(t)
  OBVIOUS
<1>2. \A k \in 1 .. Len(s) : (s \o t)[k] = s[k]
  OBVIOUS
<1>3. \A k \in 1 .. Len(t) : (s \o t)[Len(s) + k] = t[k]
  OBVIOUS
<1>4. /\ DOMAIN s = 1 .. Len(s) /\ DOMAIN t = 1 .. Len(t) /\ Len(s) \in Nat /\ Len(t) \in Nat
      /\ DOMAIN (s \o t) = 1 .. (Len(s) + Len(t))
  BY <1>1
<1>5. ASSUME NEW x \in Members(s \o t) PROVE x \in Members(s) \cup Members(t)
  <2>1. PICK k \in 1 .. (Len(s) + Len(t)) : x = (s \o t)[k]
    BY <1>4, <1>5 DEF Members
  <2>2. CASE k \in 1 .. Len(s)
    BY <2>1, <2>2, <1>2, <1>4 DEF Members
  <2>3. CASE k > Len(s)
    <3>1. k - Len(s) \in 1 .. Len(t) /\ k = Len(s) + (k - Len(s))
      BY <2>3, <1>4
    <3>2. x = t[k - Len(s)]
      BY <3>1, <2>1, <1>3
    <3> QED
      BY <3>1, <3>2, <1>4 DEF Members
  <2> QED
    BY <2>2, <2>3, <1>4
<1>6. ASSUME NEW x \in Members(s) PROVE x \in Members(s \o t)
  <2>1. PICK k \in 1 .. Len(s) : x = s[k]
    BY <1>4, <1>6 DEF Members
  <2> QED
    BY <2>1, <1>2, <1>4 DEF Members
<1>7. ASSUME NEW x \in Members(t) PROVE x \in Members(s \o t)
  <2>1. PICK k \in 1 .. Len(t) : x = t[k]
    BY <1>4, <1>7 DEF Members
  <2>2. Len(s) + k \in DOMAIN (s \o t)
    BY <1>4
  <2> QED
    BY <2>1, <2>2, <1>3 DEF Members
<1>8. Members(s) \subseteq S /\ Members(t) \subseteq S
  BY <1>4 DEF Members
<1> QED
  BY <1>1, <1>5, <1>6, <1>7, <1>8

(* A loop begins with nothing passed, passes one element a turn, and all.    *)
LEMMA PassedFacts ==
  ASSUME NEW S, NEW s \in Seq(S)
  PROVE  /\ Passed(s, 1) = {}
         /\ \A n \in 1 .. Len(s) :
              s[n] \in S /\ s[n] \in Members(s) /\ Passed(s, n + 1) = Passed(s, n) \cup {s[n]}
         /\ \A n \in Nat : n > Len(s) => Passed(s, n) = Members(s)
         /\ \A n \in Nat : Passed(s, n) \subseteq Members(s)
<1>1. DOMAIN s = 1 .. Len(s) /\ Len(s) \in Nat
  OBVIOUS
<1>2. Passed(s, 1) = {}
  BY <1>1 DEF Passed
<1>3. ASSUME NEW n \in 1 .. Len(s)
      PROVE  s[n] \in S /\ s[n] \in Members(s) /\ Passed(s, n + 1) = Passed(s, n) \cup {s[n]}
  <2>1. s[n] \in S /\ s[n] \in Members(s)
    BY <1>1 DEF Members
  <2>2. \A m \in DOMAIN s : m < n + 1 <=> m < n \/ m = n
    BY <1>1
  <2> QED
    BY <2>1, <2>2, <1>1 DEF Passed
<1>4. \A n \in Nat : n > Len(s) => Passed(s, n) = Members(s)
  BY <1>1 DEF Passed, Members
<1>5. \A n \in Nat : Passed(s, n) \subseteq Members(s)
  BY <1>1 DEF Passed, Members
<1> QED
  BY <1>2, <1>3, <1>4, <1>5

-----------------------------------------------------------------------------
(* The types.                                                               *)

(* The types, with what the provers need not look into left closed.         *)
FileMaps == [Units -> Definitions \cup {None}]

Steps == {"idle", "staging", "validating", "stopping", "changing", "starting", "activating",
          "unmodified", "quiescing", "restoring", "rearming", "verifying"}

Typed ==
  /\ files \in FileMaps /\ loaded \in FileMaps /\ running \in FileMaps
  /\ enabled \in SUBSET Units
  /\ marker \in {None, "in_progress", "recovery_required"}
  /\ backup \in Snapshots \cup {None}
  /\ pc \in Steps
  /\ group \in Groups /\ gen \in 0 .. MaxOps /\ step \in Nat \ {0}
  /\ touched \in Seq(Units) /\ preserved \in SUBSET Units
  /\ faults \in BOOLEAN /\ sound \in BOOLEAN

LEMMA TypedIsTypeOK == (Typed <=> TypeOK) /\ (Typed' <=> TypeOK')
  BY DEF Typed, TypeOK, FileMaps, Steps

(* What the checks before an operation say of the current one.              *)
LEMMA GroupFacts ==
  ASSUME Typed
  PROVE  /\ group.write \in Seq(Units) /\ group.remove \in Seq(Units)
         /\ group.deactivate \in Seq(Units) /\ group.once \in Seq(Units)
         /\ group.activate \in Seq(Units)
         /\ Stops \in Seq(Units) /\ Changes \in Seq(Units) /\ RollbackUnits \in Seq(Units)
         /\ Members(Stops) = Members(group.deactivate) \cup Members(group.remove)
         /\ Members(Changes) = Members(group.remove) \cup Members(group.write)
         /\ Members(RollbackUnits) = Members(touched) \cup Members(group.activate)
         /\ Members(group.deactivate) \cup Members(group.once) \cup Members(group.activate)
              \subseteq Members(group.write)
         /\ Members(group.write) \subseteq Units /\ Members(group.remove) \subseteq Units
         /\ Members(group.write) \cap Members(group.remove) = {}
         /\ Members(group.once) \cap (Members(group.activate) \cup Members(Stops)) = {}
<1>1. group \in Groups /\ touched \in Seq(Units)
  BY DEF Typed
<1>2. \A f \in {"write", "remove", "deactivate", "once", "activate"} : group[f] \in Seq(Units)
  BY <1>1, GroupsAssumption
<1>3. /\ group.write \in Seq(Units) /\ group.remove \in Seq(Units)
      /\ group.deactivate \in Seq(Units) /\ group.once \in Seq(Units)
      /\ group.activate \in Seq(Units)
  BY <1>2
<1>4. /\ group.write = << >> \/ group.remove = << >>
      /\ Members(group.deactivate) \cup Members(group.once) \cup Members(group.activate)
           \subseteq Members(group.write)
      /\ Members(group.once) \cap (Members(group.activate) \cup Members(group.deactivate)) = {}
  BY <1>1, GroupsAssumption
<1>5. Stops \in Seq(Units) /\ Members(Stops) = Members(group.deactivate) \cup Members(group.remove)
  BY <1>3, MembersConcat DEF Stops
<1>6. /\ Changes \in Seq(Units) /\ Members(Changes) = Members(group.remove) \cup Members(group.write)
      /\ Members(group.write) \subseteq Units /\ Members(group.remove) \subseteq Units
  BY <1>3, MembersConcat DEF Changes
<1>7. /\ RollbackUnits \in Seq(Units)
      /\ Members(RollbackUnits) = Members(touched) \cup Members(group.activate)
  BY <1>1, <1>3, MembersConcat DEF RollbackUnits
<1>8. Members(<< >>) = {}
  BY DEF Members
<1>9. Members(group.write) \cap Members(group.remove) = {}
  BY <1>4, <1>8
<1>10. Members(group.once) \cap (Members(group.activate) \cup Members(Stops)) = {}
  BY <1>4, <1>5, <1>9
<1> QED
  BY <1>3, <1>4, <1>5, <1>6, <1>7, <1>9, <1>10

(* What the steps write over a map of files is one again.                   *)
LEMMA FileMapFacts ==
  ASSUME NEW f \in FileMaps
  PROVE  /\ \A u \in Units : f[u] \in Definitions \cup {None}
         /\ \A u \in Units, d \in Definitions \cup {None} :
              /\ [f EXCEPT ![u] = d] \in FileMaps
              /\ [f EXCEPT ![u] = d][u] = d
              /\ \A v \in Units \ {u} : [f EXCEPT ![u] = d][v] = f[v]
         /\ \A e : Booted(f, e) \in FileMaps
  BY DEF FileMaps, Booted

LEMMA TargetTyped ==
  ASSUME Typed, NEW f \in FileMaps PROVE Target(f) \in FileMaps
  BY DEF Typed, FileMaps, Target, Definitions

(* The originals are a snapshot wherever the code reads them.               *)
LEMMA BackupFacts ==
  ASSUME Typed, backup # None
  PROVE  /\ backup.files \in FileMaps
         /\ backup.enabled \in SUBSET Units /\ backup.active \in SUBSET Units
  BY DEF Typed, Snapshots, FileMaps

LEMMA Positions ==
  ASSUME NEW s \in Seq(Units), NEW n \in Nat \ {0}, n <= Len(s)
  PROVE  s[n] \in Units /\ s[n] \in Members(s)
<1>1. DOMAIN s = 1 .. Len(s) /\ Len(s) \in Nat
  OBVIOUS
<1>2. n \in 1 .. Len(s)
  BY <1>1
<1> QED
  BY <1>1, <1>2 DEF Members

LEMMA InitTyped == Init => TypeOK
<1> SUFFICES ASSUME Init PROVE Typed
  BY TypedIsTypeOK
<1>1. 0 \in Definitions /\ 0 \in 0 .. MaxOps
  BY GroupsAssumption DEF Definitions
<1>2. files \in FileMaps
  BY <1>1 DEF Init, FileMaps
<1>3. running \in FileMaps
  BY <1>2, FileMapFacts DEF Init
<1>5. group \in Groups
  <2>1. group = CHOOSE g \in Groups : TRUE
    BY DEF Init
  <2>2. \E g \in Groups : TRUE
    BY GroupsAssumption
  <2> QED
    BY <2>1, <2>2
<1>6. enabled \in SUBSET Units
  BY DEF Init
<1>7. /\ loaded = files /\ marker = None /\ backup = None /\ pc = "idle" /\ step = 1
      /\ touched = << >> /\ preserved = {} /\ faults = FALSE /\ sound = TRUE /\ gen = 0
  BY DEF Init
<1>8. touched \in Seq(Units)
  BY <1>7
<1>9. faults \in BOOLEAN /\ sound \in BOOLEAN
  BY <1>7
<1>10. marker \in {None, "in_progress", "recovery_required"} /\ backup \in Snapshots \cup {None}
  BY <1>7
<1>11. pc \in Steps
  BY <1>7 DEF Steps
<1>12. gen \in 0 .. MaxOps /\ step \in Nat \ {0} /\ preserved \in SUBSET Units
  BY <1>7, <1>1
<1> QED
  BY <1>2, <1>3, <1>5, <1>6, <1>7, <1>8, <1>9, <1>10, <1>11, <1>12 DEF Typed

LEMMA StepTyped == TypeOK /\ Marked /\ [Next]_vars => TypeOK'
<1> SUFFICES ASSUME Typed, Marked, [Next]_vars PROVE Typed'
  BY TypedIsTypeOK
<1> USE DEF disk, systemd, request, memory, Goto, Again, Return
<1>a. << >> \in Seq(Units) /\ 1 \in Nat \ {0} /\ step + 1 \in Nat \ {0} /\ None \in Definitions \cup {None}
  BY DEF Typed
<1>b. \A g \in Modified \cup {"validating"} : pc = g => backup # None
  BY DEF Marked
<1>1. ASSUME NEW g \in Groups, Begin(g) PROVE Typed'
  <2>1. gen + 1 \in 0 .. MaxOps
    BY <1>1, GroupsAssumption DEF Begin, Typed
  <2> QED
    BY <1>1, <1>a, <2>1 DEF Begin, Typed, Steps
<1>2. CASE Snapshot
  <2>1. backup' \in Snapshots
    BY <1>2 DEF Snapshot, Typed, Snapshots, FileMaps
  <2> QED
    BY <1>2, <1>a, <2>1 DEF Snapshot, Typed, Steps
<1>3. CASE NothingToDo
  BY <1>3, <1>a DEF NothingToDo, Typed, Steps
<1>4. CASE Validate
  BY <1>4, <1>a DEF Validate, Typed, Steps
<1>5. CASE StopUnit
  <2> DEFINE u == Stops[step]
  <2>1. step \in Nat \ {0} /\ step <= Len(Stops)
    BY <1>5 DEF StopUnit, Typed
  <2>2. u \in Units
    BY <2>1, GroupFacts, Positions
  <2>3. [running EXCEPT ![u] = None] \in FileMaps
    BY <2>2, <1>a, FileMapFacts DEF Typed
  <2>4. Append(touched, u) \in Seq(Units)
    BY <2>2, MembersAppend DEF Typed
  <2>5. touched' \in {touched, Append(touched, u)}
    BY <1>5 DEF StopUnit
  <2>6. running' \in {running, [running EXCEPT ![u] = None]} /\ enabled' \in {enabled, enabled \ {u}}
    BY <1>5 DEF StopUnit
  <2>7. running' \in FileMaps /\ enabled' \in SUBSET Units
    BY <2>3, <2>6 DEF Typed
  <2>8. touched' \in Seq(Units)
    BY <2>4, <2>5 DEF Typed
  <2>9. /\ UNCHANGED <<files, marker, backup, loaded, group, gen, preserved, faults, sound>>
        /\ step' \in {1, step + 1} /\ pc' \in {pc, "quiescing"}
    BY <1>5 DEF StopUnit
  <2> QED
    BY <1>a, <2>7, <2>8, <2>9 DEF Typed, Steps
<1>6. CASE ObserveJobs
  <2>1. preserved' \in SUBSET Units
    BY <1>6, GroupFacts DEF ObserveJobs
  <2> QED
    BY <1>6, <1>a, <2>1 DEF ObserveJobs, Typed, Steps
<1>7. CASE ChangeFile
  <2> DEFINE u == Changes[step]
             new == IF u \in Members(group.write) THEN gen ELSE None
  <2>1. step \in Nat \ {0} /\ step <= Len(Changes)
    BY <1>7 DEF ChangeFile, Typed
  <2>2. u \in Units
    BY <2>1, GroupFacts, Positions
  <2>3. new \in Definitions \cup {None}
    BY DEF Typed, Definitions
  <2>4. [files EXCEPT ![u] = new] \in FileMaps
    BY <2>2, <2>3, FileMapFacts DEF Typed
  <2>5. files' \in FileMaps
    BY <1>7, <2>4 DEF ChangeFile
  <2>6. /\ UNCHANGED <<marker, backup, loaded, running, enabled, group, gen, touched, preserved, faults, sound>>
        /\ step' \in {1, step + 1} /\ pc' \in {pc, "quiescing"}
    BY <1>7 DEF ChangeFile
  <2> QED
    BY <1>a, <2>5, <2>6 DEF Typed, Steps
<1>8. CASE Reload
  BY <1>8, <1>a DEF Reload, Typed, Steps
<1>9. CASE PreserveJob
  <2>1. step \in Nat \ {0} /\ step <= Len(group.once)
    BY <1>9 DEF PreserveJob, Typed
  <2>2. group.once[step] \in Units
    BY <2>1, GroupFacts, Positions
  <2>3. preserved' \in SUBSET Units
    BY <1>9, <2>2 DEF PreserveJob, Typed
  <2> QED
    BY <1>9, <1>a, <2>3 DEF PreserveJob, Typed
<1>10. CASE StartJob
  <2> DEFINE u == group.once[step]
  <2>1. step \in Nat \ {0} /\ step <= Len(group.once)
    BY <1>10 DEF StartJob, Typed
  <2>2. u \in Units
    BY <2>1, GroupFacts, Positions
  <2>3. loaded[u] \in Definitions \cup {None}
    BY <2>2, FileMapFacts DEF Typed
  <2>4. [running EXCEPT ![u] = loaded[u]] \in FileMaps
    BY <2>2, <2>3, FileMapFacts DEF Typed
  <2>5. running' \in FileMaps
    BY <1>10, <2>4 DEF StartJob, Typed
  <2>6. touched' \in Seq(Units)
    BY <1>10, <2>2, MembersAppend DEF StartJob, Typed
  <2>7. /\ UNCHANGED <<files, marker, backup, loaded, enabled, group, gen, preserved, faults, sound>>
        /\ step' \in {1, step + 1} /\ pc' \in {pc, "quiescing"}
    BY <1>10 DEF StartJob
  <2> QED
    BY <1>a, <2>5, <2>6, <2>7 DEF Typed, Steps
<1>11. CASE JobsStarted
  BY <1>11, <1>a DEF JobsStarted, Typed, Steps
<1>12. CASE ActivateUnit
  <2> DEFINE u == group.activate[step]
  <2>1. step \in Nat \ {0} /\ step <= Len(group.activate)
    BY <1>12 DEF ActivateUnit, Typed
  <2>2. u \in Units
    BY <2>1, GroupFacts, Positions
  <2>3. loaded[u] \in Definitions \cup {None}
    BY <2>2, FileMapFacts DEF Typed
  <2>4. [running EXCEPT ![u] = loaded[u]] \in FileMaps /\ [running EXCEPT ![u] = None] \in FileMaps
    BY <2>2, <2>3, <1>a, FileMapFacts DEF Typed
  <2>5. running' \in {running, [running EXCEPT ![u] = None], [running EXCEPT ![u] = loaded[u]]}
    BY <1>12 DEF ActivateUnit
  <2>6. enabled' \in {enabled, enabled \cup {u}} /\ touched' \in {touched, Append(touched, u)}
    BY <1>12 DEF ActivateUnit
  <2>7. running' \in FileMaps /\ enabled' \in SUBSET Units
    BY <2>2, <2>4, <2>5, <2>6 DEF Typed
  <2>8. touched' \in Seq(Units)
    BY <2>2, <2>6, MembersAppend DEF Typed
  <2>9. /\ UNCHANGED <<files, marker, backup, loaded, group, gen, preserved, faults, sound>>
        /\ step' \in {1, step + 1} /\ pc' \in {pc, "quiescing"}
    BY <1>12 DEF ActivateUnit
  <2> QED
    BY <1>a, <2>7, <2>8, <2>9 DEF Typed, Steps
<1>13. CASE Succeed
  BY <1>13, <1>a DEF Succeed, Typed, Steps
<1>14. CASE Fail
  BY <1>14, <1>a DEF Fail, Typed, Steps
<1>15. CASE PhaseLost
  BY <1>15, <1>a DEF PhaseLost, Typed, Steps
<1>16. CASE Quiesce
  <2> DEFINE u    == RollbackUnits[step]
             left == IF u \in Members(group.activate) \cup backup.enabled THEN enabled \ {u} ELSE enabled
  <2>1. step \in Nat \ {0} /\ step <= Len(RollbackUnits)
    BY <1>16 DEF Quiesce, Typed
  <2>2. u \in Units
    BY <2>1, GroupFacts, Positions
  <2>3. [running EXCEPT ![u] = None] \in FileMaps
    BY <2>2, <1>a, FileMapFacts DEF Typed
  <2>4. running' \in {running, [running EXCEPT ![u] = None]} /\ enabled' \in {enabled, left}
    BY <1>16 DEF Quiesce
  <2>5. running' \in FileMaps /\ enabled' \in SUBSET Units
    BY <2>3, <2>4 DEF Typed
  <2>6. faults' \in {faults, TRUE} /\ sound' \in {sound, FALSE}
    BY <1>16 DEF Quiesce
  <2>7. faults' \in BOOLEAN /\ sound' \in BOOLEAN
    BY <2>6 DEF Typed
  <2>8. /\ UNCHANGED <<files, marker, backup, loaded, group, gen, touched, preserved>>
        /\ step' = step + 1 /\ pc' = pc
    BY <1>16 DEF Quiesce
  <2> QED
    BY <1>a, <2>5, <2>7, <2>8 DEF Typed
<1>17. CASE Quiesced
  BY <1>17, <1>a DEF Quiesced, Typed, Steps
<1>18. CASE RestoreFile
  <2> DEFINE u == Changes[step]
  <2>1. step \in Nat \ {0} /\ step <= Len(Changes) /\ backup # None
    BY <1>18, <1>b DEF RestoreFile, Typed, Modified
  <2>2. u \in Units
    BY <2>1, GroupFacts, Positions
  <2>3. backup.files[u] \in Definitions \cup {None}
    BY <2>1, <2>2, BackupFacts, FileMapFacts
  <2>4. [files EXCEPT ![u] = backup.files[u]] \in FileMaps
    BY <2>2, <2>3, FileMapFacts DEF Typed
  <2>5. files' \in FileMaps
    BY <1>18, <2>4 DEF RestoreFile, Typed
  <2>6. faults' \in {faults, TRUE} /\ sound' \in {sound, FALSE}
    BY <1>18 DEF RestoreFile
  <2>7. faults' \in BOOLEAN /\ sound' \in BOOLEAN
    BY <2>6 DEF Typed
  <2>8. /\ UNCHANGED <<marker, backup, loaded, running, enabled, group, gen, touched, preserved>>
        /\ step' = step + 1 /\ pc' = pc
    BY <1>18 DEF RestoreFile
  <2> QED
    BY <1>a, <2>5, <2>7, <2>8 DEF Typed
<1>19. CASE ReloadRestored
  BY <1>19, <1>a DEF ReloadRestored, Typed, Steps
<1>20. CASE Rearm
  <2> DEFINE n  == RestoredLast(step)
             u  == RollbackUnits[n]
             on == IF u \in backup.enabled THEN enabled \cup {u} ELSE enabled
             up == IF u \in backup.active THEN [running EXCEPT ![u] = loaded[u]] ELSE running
  <2>1. step \in Nat \ {0} /\ step <= Len(RollbackUnits)
    BY <1>20 DEF Rearm, Typed
  <2>2. n \in Nat \ {0} /\ n <= Len(RollbackUnits)
    BY <2>1, GroupFacts DEF RestoredLast
  <2>3. u \in Units
    BY <2>2, GroupFacts, Positions
  <2>4. loaded[u] \in Definitions \cup {None}
    BY <2>3, FileMapFacts DEF Typed
  <2>5. [running EXCEPT ![u] = loaded[u]] \in FileMaps /\ [running EXCEPT ![u] = None] \in FileMaps
    BY <2>3, <2>4, <1>a, FileMapFacts DEF Typed
  <2>6. running' \in {running, up, [running EXCEPT ![u] = None]} /\ enabled' \in {enabled, on}
    BY <1>20 DEF Rearm
  <2>7. running' \in FileMaps /\ enabled' \in SUBSET Units
    BY <2>3, <2>5, <2>6 DEF Typed
  <2>8. faults' \in {faults, TRUE}
    BY <1>20 DEF Rearm
  <2>9. faults' \in BOOLEAN
    BY <2>8 DEF Typed
  <2>10. /\ UNCHANGED <<files, marker, backup, loaded, group, gen, touched, preserved, sound>>
         /\ step' = step + 1 /\ pc' = pc
    BY <1>20 DEF Rearm
  <2> QED
    BY <1>a, <2>7, <2>9, <2>10 DEF Typed
<1>21. CASE Rearmed
  BY <1>21, <1>a DEF Rearmed, Typed, Steps
<1>22. CASE VerifyRestored
  BY <1>22, <1>a DEF VerifyRestored, Typed, Steps
<1>23. CASE Undone
  BY <1>23, <1>a DEF Undone, Typed, Steps
<1>24. CASE Retain
  BY <1>24, <1>a DEF Retain, Typed, Steps
<1>25. ASSUME NEW a \in Units, NEW u \in Units, Fire(a, u) PROVE Typed'
  <2>1. loaded[u] \in Definitions \cup {None}
    BY FileMapFacts DEF Typed
  <2>2. running' \in FileMaps
    BY <1>25, <2>1, FileMapFacts DEF Fire, Typed
  <2> QED
    BY <1>25, <2>2 DEF Fire, Typed
<1>26. ASSUME NEW u \in Units, End(u) PROVE Typed'
  <2>1. running' \in FileMaps
    BY <1>26, <1>a, FileMapFacts DEF End, Typed
  <2> QED
    BY <1>26, <2>1 DEF End, Typed
<1>27. CASE Die
  BY <1>27, <1>a DEF Die, Typed, Steps
<1>28. CASE Reboot
  <2>1. running' \in FileMaps
    BY <1>28, FileMapFacts DEF Reboot, Typed
  <2> QED
    BY <1>28, <1>a, <2>1 DEF Reboot, Typed, Steps
<1>29. CASE OperatorResolves
  <2> DEFINE f == IF backup = None THEN files ELSE backup.files
             e == IF backup = None THEN enabled ELSE backup.enabled
  <2>1. f \in FileMaps /\ e \in SUBSET Units
    BY BackupFacts DEF Typed
  <2>2. Target(f) \in FileMaps /\ Armed(f, e) \in SUBSET Units
    BY <2>1, TargetTyped, GroupFacts DEF Armed
  <2>3. files' \in FileMaps /\ enabled' \in SUBSET Units
    BY <1>29, <2>1, <2>2 DEF OperatorResolves
  <2>4. loaded' = files' /\ running' = Booted(files', enabled')
    BY <1>29 DEF OperatorResolves
  <2>5. loaded' \in FileMaps /\ running' \in FileMaps
    BY <2>3, <2>4, FileMapFacts
  <2> QED
    BY <1>29, <2>3, <2>5 DEF OperatorResolves, Typed
<1>30. CASE UNCHANGED vars
  BY <1>30 DEF vars, Typed
<1> QED
  BY <1>1, <1>2, <1>3, <1>4, <1>5, <1>6, <1>7, <1>8, <1>9, <1>10, <1>11, <1>12, <1>13, <1>14, <1>15, <1>16, <1>17, <1>18, <1>19, <1>20, <1>21, <1>22, <1>23, <1>24, <1>25, <1>26, <1>27, <1>28, <1>29, <1>30
     DEF Next, Operate, RollBack, Surroundings

LEMMA StepMarked == TypeOK /\ Marked /\ [Next]_vars => Marked'
<1> SUFFICES ASSUME Typed, Marked, [Next]_vars PROVE Marked'
  BY TypedIsTypeOK
<1> USE DEF disk, systemd, request, memory, Goto, Again, Return
<1>a. /\ {"in_progress", "recovery_required"} \cap {None} = {}
      /\ \A b \in Snapshots : b # None
  BY GroupsAssumption
<1>1. ASSUME NEW g \in Groups, Begin(g) PROVE Marked'
  BY <1>1, <1>a DEF Begin, Marked, Modified
<1>2. CASE Snapshot
  <2>1. backup' \in Snapshots
    BY <1>2 DEF Snapshot, Typed, Snapshots, FileMaps
  <2> QED
    BY <1>2, <1>a, <2>1 DEF Snapshot, Marked, Modified
<1>3. CASE NothingToDo
  BY <1>3, <1>a DEF NothingToDo, Marked, Modified
<1>4. CASE Validate
  BY <1>4, <1>a DEF Validate, Marked, Modified
<1>5. CASE StopUnit
  BY <1>5, <1>a DEF StopUnit, Marked, Modified
<1>6. CASE ObserveJobs
  BY <1>6, <1>a DEF ObserveJobs, Marked, Modified
<1>7. CASE ChangeFile
  BY <1>7, <1>a DEF ChangeFile, Marked, Modified
<1>8. CASE Reload
  BY <1>8, <1>a DEF Reload, Marked, Modified
<1>9. CASE PreserveJob
  BY <1>9, <1>a DEF PreserveJob, Marked, Modified
<1>10. CASE StartJob
  BY <1>10, <1>a DEF StartJob, Marked, Modified
<1>11. CASE JobsStarted
  BY <1>11, <1>a DEF JobsStarted, Marked, Modified
<1>12. CASE ActivateUnit
  BY <1>12, <1>a DEF ActivateUnit, Marked, Modified
<1>13. CASE Succeed
  BY <1>13, <1>a DEF Succeed, Marked, Modified
<1>14. CASE Fail
  BY <1>14, <1>a DEF Fail, Marked, Modified
<1>15. CASE PhaseLost
  BY <1>15, <1>a DEF PhaseLost, Marked, Modified
<1>16. CASE Quiesce
  BY <1>16, <1>a DEF Quiesce, Marked, Modified
<1>17. CASE Quiesced
  BY <1>17, <1>a DEF Quiesced, Marked, Modified
<1>18. CASE RestoreFile
  BY <1>18, <1>a DEF RestoreFile, Marked, Modified
<1>19. CASE ReloadRestored
  BY <1>19, <1>a DEF ReloadRestored, Marked, Modified
<1>20. CASE Rearm
  BY <1>20, <1>a DEF Rearm, Marked, Modified
<1>21. CASE Rearmed
  BY <1>21, <1>a DEF Rearmed, Marked, Modified
<1>22. CASE VerifyRestored
  BY <1>22, <1>a DEF VerifyRestored, Marked, Modified
<1>23. CASE Undone
  BY <1>23, <1>a DEF Undone, Marked, Modified
<1>24. CASE Retain
  <2>1. pc # "idle"
    BY <1>24 DEF Retain, Ended
  <2> QED
    BY <1>24, <2>1, <1>a DEF Retain, Marked, Modified
<1>25. ASSUME NEW a \in Units, NEW u \in Units, Fire(a, u) PROVE Marked'
  BY <1>25, <1>a DEF Fire, Marked, Modified
<1>26. ASSUME NEW u \in Units, End(u) PROVE Marked'
  BY <1>26, <1>a DEF End, Marked, Modified
<1>27. CASE Die
  BY <1>27, <1>a DEF Die, Marked, Modified
<1>28. CASE Reboot
  BY <1>28, <1>a DEF Reboot, Marked, Modified
<1>29. CASE OperatorResolves
  BY <1>29, <1>a DEF OperatorResolves, Marked, Modified
<1>30. CASE UNCHANGED vars
  BY <1>30 DEF vars, Marked, Modified
<1> QED
  BY <1>1, <1>2, <1>3, <1>4, <1>5, <1>6, <1>7, <1>8, <1>9, <1>10, <1>11, <1>12, <1>13, <1>14, <1>15, <1>16, <1>17, <1>18, <1>19, <1>20, <1>21, <1>22, <1>23, <1>24, <1>25, <1>26, <1>27, <1>28, <1>29, <1>30
     DEF Next, Operate, RollBack, Surroundings

-----------------------------------------------------------------------------
(* The operation and its rollback.                                          *)

(* What an operation is does not change while it is in progress.            *)
LEMMA SameGroup ==
  ASSUME group' = group, gen' = gen, backup' = backup
  PROVE  /\ Stops' = Stops /\ Changes' = Changes /\ Withdrawn' = Withdrawn
         /\ \A u : New(u)' = New(u) /\ Known(u)' = Known(u)
         /\ Target(backup.files)' = Target(backup.files)
  BY DEF Stops, Changes, Withdrawn, New, Known, Target

LEMMA SameProgress ==
  ASSUME Forward, UNCHANGED <<files, enabled, backup, pc, step, group, gen>>
  PROVE  Forward'
<1>1. /\ Stops' = Stops /\ Changes' = Changes /\ Withdrawn' = Withdrawn
      /\ \A u : New(u)' = New(u)
      /\ Target(backup.files)' = Target(backup.files)
  BY SameGroup
<1>2. /\ Passed(Stops, step)' = Passed(Stops, step) /\ Passed(Changes, step)' = Passed(Changes, step)
      /\ Passed(group.activate, step)' = Passed(group.activate, step)
  BY <1>1
<1> QED
  BY <1>1, <1>2 DEF Forward

LEMMA StepForward == TypeOK /\ Marked /\ Forward /\ [Next]_vars => Forward'
<1> SUFFICES ASSUME Typed, Marked, Forward, [Next]_vars PROVE Forward'
  BY TypedIsTypeOK
<1> USE DEF disk, systemd, request, memory, Goto, Again, Return
<1>a. \A g \in Modified \cup {"validating"} : pc = g => backup # None
  BY DEF Marked
<1>b. /\ Stops \in Seq(Units) /\ Changes \in Seq(Units) /\ group.activate \in Seq(Units)
      /\ step \in Nat \ {0}
      /\ Len(Stops) \in Nat /\ Len(Changes) \in Nat /\ Len(group.activate) \in Nat
      /\ backup # None => backup.enabled \in SUBSET Units /\ backup.files \in FileMaps
  BY GroupFacts, BackupFacts DEF Typed
<1>1. ASSUME NEW g \in Groups, Begin(g) PROVE Forward'
  BY <1>1 DEF Begin, Forward
<1>2. CASE Snapshot
  BY <1>2 DEF Snapshot, Forward
<1>3. CASE NothingToDo
  BY <1>3 DEF NothingToDo, Forward
<1>4. CASE Validate
  <2>1. backup # None
    BY <1>4, <1>a DEF Validate
  <2>2. files = backup.files /\ enabled = backup.enabled
    BY <1>4, <2>1 DEF Validate, Forward
  <2>3. Passed(Stops, 1) = {}
    BY <1>b, PassedFacts
  <2>4. group' = group /\ gen' = gen /\ backup' = backup /\ files' = files /\ enabled' = enabled
        /\ pc' = "stopping" /\ step' = 1
    BY <1>4 DEF Validate
  <2>5. Passed(Stops, step)' = {}
    BY <2>3, <2>4, SameGroup
  <2> QED
    BY <2>2, <2>4, <2>5 DEF Forward
<1>5. CASE StopUnit
  <2> DEFINE u == Stops[step]
  <2>1. /\ pc = "stopping" /\ group' = group /\ gen' = gen /\ backup' = backup /\ files' = files
        /\ step \in 1 .. Len(Stops) /\ backup # None
    BY <1>5, <1>a, <1>b DEF StopUnit, Modified
  <2>2. files = backup.files /\ enabled = backup.enabled \ (Withdrawn \cap Passed(Stops, step))
    BY <2>1 DEF Forward
  <2>3. CASE pc' = "quiescing"
    BY <2>3 DEF Forward
  <2>4. CASE pc' # "quiescing"
    <3>1. pc' = "stopping" /\ step' = step + 1
      BY <1>5, <2>1, <2>4 DEF StopUnit
    <3>2. u \in Members(Stops) /\ Passed(Stops, step + 1) = Passed(Stops, step) \cup {u}
      BY <2>1, <1>b, PassedFacts
    <3>3. Passed(Stops, step)' = Passed(Stops, step) \cup {u} /\ Withdrawn' = Withdrawn
      BY <3>1, <3>2, <2>1, SameGroup
    <3>4. CASE Skipped(u)
      <4>1. enabled' = enabled
        BY <1>5, <3>4 DEF StopUnit
      <4>2. u \notin Withdrawn \/ u \notin backup.enabled
        BY <3>4 DEF Skipped, Withdrawn
      <4> QED
        BY <4>1, <4>2, <3>1, <3>3, <2>1, <2>2 DEF Forward
    <3>5. CASE ~Skipped(u)
      <4>1. enabled' = enabled \ {u}
        BY <1>5, <3>5, <2>4 DEF StopUnit
      <4>2. u \in Withdrawn
        BY <3>2, <3>5 DEF Skipped, Withdrawn
      <4> QED
        BY <4>1, <4>2, <3>1, <3>3, <2>1, <2>2 DEF Forward
    <3> QED
      BY <3>4, <3>5
  <2> QED
    BY <2>3, <2>4
<1>6. CASE ObserveJobs
  <2>1. /\ pc = "stopping" /\ group' = group /\ gen' = gen /\ backup' = backup /\ files' = files
        /\ enabled' = enabled /\ pc' = "changing" /\ step' = 1 /\ backup # None
    BY <1>6, <1>a DEF ObserveJobs, Modified
  <2>2. step \in Nat /\ step > Len(Stops)
    BY <1>6, <1>b DEF ObserveJobs
  <2>3. Passed(Stops, step) = Members(Stops)
    BY <2>2, <1>b, PassedFacts
  <2>4. enabled = backup.enabled \ Withdrawn /\ files = backup.files
    BY <2>1, <2>3 DEF Forward, Withdrawn
  <2>5. Passed(Changes, step)' = {} /\ Withdrawn' = Withdrawn
    BY <2>1, <1>b, PassedFacts, SameGroup
  <2> QED
    BY <2>1, <2>4, <2>5 DEF Forward
<1>7. CASE ChangeFile
  <2> DEFINE u == Changes[step]
  <2>1. /\ pc = "changing" /\ group' = group /\ gen' = gen /\ backup' = backup /\ enabled' = enabled
        /\ step \in 1 .. Len(Changes) /\ backup # None
    BY <1>7, <1>a, <1>b DEF ChangeFile, Modified
  <2>2. CASE pc' = "quiescing"
    BY <2>2 DEF Forward
  <2>3. CASE pc' # "quiescing"
    <3>1. pc' = "changing" /\ step' = step + 1
      BY <1>7, <2>1, <2>3 DEF ChangeFile
    <3>2. u \in Units /\ Passed(Changes, step + 1) = Passed(Changes, step) \cup {u}
      BY <2>1, <1>b, PassedFacts
    <3>3. Passed(Changes, step)' = Passed(Changes, step) \cup {u} /\ Withdrawn' = Withdrawn
      BY <3>1, <3>2, <2>1, SameGroup
    <3>4. New(u) \in Definitions \cup {None} /\ files \in FileMaps
      BY DEF New, Typed, Definitions
    <3>5. files' = [files EXCEPT ![u] = New(u)]
      BY <1>7 DEF ChangeFile, New
    <3>6. files'[u] = New(u) /\ \A v \in Units \ {u} : files'[v] = files[v]
      BY <3>2, <3>4, <3>5, FileMapFacts
    <3>7. /\ \A v \in Units : files[v] = IF v \in Passed(Changes, step) THEN New(v) ELSE backup.files[v]
          /\ enabled = backup.enabled \ Withdrawn
      BY <2>1 DEF Forward
    <3>8. \A v \in Units : New(v)' = New(v)
      BY <2>1, SameGroup
    <3>9. \A v \in Units :
            files'[v] = IF v \in Passed(Changes, step)' THEN New(v)' ELSE backup'.files[v]
      BY <3>3, <3>6, <3>7, <3>8, <2>1
    <3> QED
      BY <3>1, <3>3, <3>7, <3>9, <2>1 DEF Forward
  <2> QED
    BY <2>2, <2>3
<1>8. CASE Reload
  <2>1. /\ pc = "changing" /\ group' = group /\ gen' = gen /\ backup' = backup /\ files' = files
        /\ enabled' = enabled /\ pc' \in {"quiescing", "starting"} /\ backup # None
        /\ step \in Nat /\ step > Len(Changes)
    BY <1>8, <1>a, <1>b DEF Reload, Modified
  <2>2. Passed(Changes, step) = Members(Changes)
    BY <2>1, <1>b, PassedFacts
  <2>3. enabled = backup.enabled \ Withdrawn
        /\ \A v \in Units : files[v] = IF v \in Members(Changes) THEN New(v) ELSE backup.files[v]
    BY <2>1, <2>2 DEF Forward
  <2>4. \A v \in Units : files[v] = Target(backup.files)[v]
    BY <2>3, GroupFacts DEF Target, New
  <2>5. files = Target(backup.files)
    BY <2>4, <2>1, <1>b, TargetTyped DEF FileMaps, Typed
  <2>6. Withdrawn' = Withdrawn /\ Target(backup.files)' = Target(backup.files)
    BY <2>1, SameGroup
  <2> QED
    BY <2>1, <2>3, <2>5, <2>6 DEF Forward
<1>9. CASE PreserveJob
  <2>1. /\ pc = "starting" /\ group' = group /\ gen' = gen /\ backup' = backup /\ files' = files
        /\ enabled' = enabled /\ pc' = pc
    BY <1>9 DEF PreserveJob
  <2>2. Withdrawn' = Withdrawn /\ Target(backup.files)' = Target(backup.files)
    BY <2>1, SameGroup
  <2> QED
    BY <2>1, <2>2 DEF Forward
<1>10. CASE StartJob
  <2>1. /\ pc = "starting" /\ group' = group /\ gen' = gen /\ backup' = backup /\ files' = files
        /\ enabled' = enabled /\ pc' \in {"starting", "quiescing"}
    BY <1>10 DEF StartJob
  <2>2. Withdrawn' = Withdrawn /\ Target(backup.files)' = Target(backup.files)
    BY <2>1, SameGroup
  <2> QED
    BY <2>1, <2>2 DEF Forward
<1>11. CASE JobsStarted
  <2>1. /\ pc = "starting" /\ group' = group /\ gen' = gen /\ backup' = backup /\ files' = files
        /\ enabled' = enabled /\ pc' = "activating" /\ step' = 1
    BY <1>11 DEF JobsStarted
  <2>2. Withdrawn' = Withdrawn /\ Target(backup.files)' = Target(backup.files)
    BY <2>1, SameGroup
  <2>3. Passed(group.activate, step)' = {}
    BY <2>1, <1>b, PassedFacts
  <2> QED
    BY <2>1, <2>2, <2>3 DEF Forward
<1>12. CASE ActivateUnit
  <2> DEFINE u == group.activate[step]
  <2>1. /\ pc = "activating" /\ group' = group /\ gen' = gen /\ backup' = backup /\ files' = files
        /\ step \in 1 .. Len(group.activate)
    BY <1>12, <1>b DEF ActivateUnit
  <2>2. CASE pc' = "quiescing"
    BY <2>2 DEF Forward
  <2>3. CASE pc' # "quiescing"
    <3>1. pc' = "activating" /\ step' = step + 1 /\ enabled' = enabled \cup {u}
      BY <1>12, <2>1, <2>3 DEF ActivateUnit
    <3>2. Passed(group.activate, step + 1) = Passed(group.activate, step) \cup {u}
      BY <2>1, <1>b, PassedFacts
    <3>4. Passed(group.activate, step)' = Passed(group.activate, step) \cup {u}
      BY <3>1, <3>2, <2>1
    <3>3. Withdrawn' = Withdrawn /\ Target(backup.files)' = Target(backup.files)
      BY <2>1, SameGroup
    <3> QED
      BY <3>1, <3>3, <3>4, <2>1 DEF Forward
  <2> QED
    BY <2>2, <2>3
<1>13. CASE Succeed
  BY <1>13 DEF Succeed, Forward
<1>14. CASE Fail
  <2>1. pc = "staging" => backup = None
    BY DEF Marked
  <2> QED
    BY <1>14, <2>1 DEF Fail, Forward
<1>15. CASE PhaseLost
  <2> QED
    BY <1>15 DEF PhaseLost, Forward
<1>16. CASE Quiesce
  BY <1>16 DEF Quiesce, Forward
<1>17. CASE Quiesced
  BY <1>17 DEF Quiesced, Forward
<1>18. CASE RestoreFile
  BY <1>18 DEF RestoreFile, Forward
<1>19. CASE ReloadRestored
  BY <1>19 DEF ReloadRestored, Forward
<1>20. CASE Rearm
  BY <1>20 DEF Rearm, Forward
<1>21. CASE Rearmed
  BY <1>21 DEF Rearmed, Forward
<1>22. CASE VerifyRestored
  BY <1>22 DEF VerifyRestored, Forward
<1>23. CASE Undone
  BY <1>23 DEF Undone, Forward
<1>24. CASE Retain
  BY <1>24 DEF Retain, Forward
<1>25. ASSUME NEW a \in Units, NEW u \in Units, Fire(a, u) PROVE Forward'
  <2> QED
    BY <1>25, SameProgress DEF Fire
<1>26. ASSUME NEW u \in Units, End(u) PROVE Forward'
  <2> QED
    BY <1>26, SameProgress DEF End
<1>27. CASE Die
  BY <1>27 DEF Die, Forward
<1>28. CASE Reboot
  BY <1>28 DEF Reboot, Forward
<1>29. CASE OperatorResolves
  BY <1>29 DEF OperatorResolves, Forward
<1>30. CASE UNCHANGED vars
  BY <1>30, SameProgress DEF vars
<1> QED
  BY <1>1, <1>2, <1>3, <1>4, <1>5, <1>6, <1>7, <1>8, <1>9, <1>10, <1>11, <1>12, <1>13, <1>14, <1>15, <1>16, <1>17, <1>18, <1>19, <1>20, <1>21, <1>22, <1>23, <1>24, <1>25, <1>26, <1>27, <1>28, <1>29, <1>30
     DEF Next, Operate, RollBack, Surroundings

LEMMA SameScope ==
  ASSUME UNCHANGED <<touched, group>>
  PROVE  /\ Members(touched)' = Members(touched) /\ Members(group.activate)' = Members(group.activate)
         /\ Members(Changes)' = Members(Changes) /\ RollbackUnits' = RollbackUnits
  BY DEF Changes, RollbackUnits

LEMMA StepBounded == TypeOK /\ Marked /\ Forward /\ Bounded /\ [Next]_vars => Bounded'
<1> SUFFICES ASSUME Typed, Marked, Forward, Bounded, [Next]_vars PROVE Bounded'
  BY TypedIsTypeOK
<1> USE DEF disk, systemd, request, memory, Goto, Again, Return
<1>a. pc \in Modified \cup {"validating"} => backup # None
  BY DEF Marked
<1>b. /\ Stops \in Seq(Units) /\ Changes \in Seq(Units) /\ RollbackUnits \in Seq(Units)
      /\ group.activate \in Seq(Units) /\ group.once \in Seq(Units)
      /\ touched \in Seq(Units) /\ step \in Nat \ {0}
      /\ Members(RollbackUnits) = Members(touched) \cup Members(group.activate)
      /\ files \in FileMaps /\ enabled \in SUBSET Units
  BY GroupFacts DEF Typed
<1>c. /\ backup # None => backup.enabled \in SUBSET Units
      /\ backup # None => backup.files \in FileMaps
  BY BackupFacts DEF Typed
<1>1. ASSUME NEW g \in Groups, Begin(g) PROVE Bounded'
  BY <1>1 DEF Begin, Bounded, Modified
<1>2. CASE Snapshot
  BY <1>2 DEF Snapshot, Bounded, Modified
<1>3. CASE NothingToDo
  BY <1>3 DEF NothingToDo, Bounded, Modified
<1>4. CASE Validate
  <2>1. backup # None /\ files = backup.files /\ enabled = backup.enabled
    BY <1>4, <1>a DEF Validate, Forward
  <2>2. UNCHANGED <<files, enabled, backup>>
    BY <1>4 DEF Validate
  <2> QED
    BY <2>1, <2>2 DEF Bounded
<1>5. CASE StopUnit
  <2> DEFINE u == Stops[step]
  <2>1. /\ pc \in Modified /\ step \in 1 .. Len(Stops)
        /\ UNCHANGED <<files, backup, group>>
    BY <1>5, <1>b DEF StopUnit, Modified
  <2>2. u \in Units
    BY <2>1, <1>b, PassedFacts
  <2>3. Members(Append(touched, u)) = Members(touched) \cup {u}
    BY <2>2, <1>b, MembersAppend
  <2>4. \/ touched' = touched /\ enabled' = enabled
        \/ touched' = Append(touched, u) /\ enabled' \in {enabled, enabled \ {u}}
    BY <1>5 DEF StopUnit
  <2>5. \/ Members(touched)' = Members(touched) /\ enabled' = enabled
        \/ Members(touched)' = Members(touched) \cup {u} /\ enabled' \in {enabled, enabled \ {u}}
    BY <2>3, <2>4
  <2>6. Members(Changes)' = Members(Changes) /\ Members(group.activate)' = Members(group.activate)
    BY <2>1 DEF Changes
  <2> QED
    BY <2>1, <2>5, <2>6 DEF Bounded
<1>6. CASE ObserveJobs
  <2>1. UNCHANGED <<files, enabled, backup, touched, group>> /\ pc \in Modified
    BY <1>6 DEF ObserveJobs, Modified
  <2> QED
    BY <2>1, SameScope DEF Bounded
<1>7. CASE ChangeFile
  <2> DEFINE u == Changes[step]
             new == IF u \in Members(group.write) THEN gen ELSE None
  <2>1. /\ pc \in Modified /\ step \in 1 .. Len(Changes)
        /\ UNCHANGED <<enabled, backup, touched, group>>
    BY <1>7, <1>b DEF ChangeFile, Modified
  <2>2. u \in Units /\ u \in Members(Changes)
    BY <2>1, <1>b, PassedFacts
  <2>3. new \in Definitions \cup {None}
    BY DEF Typed, Definitions
  <2>4. files' = [files EXCEPT ![u] = new]
    BY <1>7 DEF ChangeFile
  <2>5. \A v \in Units \ {u} : files'[v] = files[v]
    BY <2>2, <2>3, <2>4, <1>b, FileMapFacts
  <2> QED
    BY <2>1, <2>2, <2>5, SameScope DEF Bounded
<1>8. CASE Reload
  <2>1. UNCHANGED <<files, enabled, backup, touched, group>> /\ pc \in Modified
    BY <1>8 DEF Reload, Modified
  <2> QED
    BY <2>1, SameScope DEF Bounded
<1>9. CASE PreserveJob
  <2>1. UNCHANGED <<files, enabled, backup, touched, group>> /\ pc \in Modified
    BY <1>9 DEF PreserveJob, Modified
  <2> QED
    BY <2>1, SameScope DEF Bounded
<1>10. CASE StartJob
  <2> DEFINE u == group.once[step]
  <2>1. /\ pc \in Modified /\ step \in 1 .. Len(group.once)
        /\ UNCHANGED <<files, enabled, backup, group>> /\ touched' = Append(touched, u)
    BY <1>10, <1>b DEF StartJob, Modified
  <2>2. u \in Units
    BY <2>1, <1>b, PassedFacts
  <2>3. Members(touched)' = Members(touched) \cup {u}
    BY <2>1, <2>2, <1>b, MembersAppend
  <2>4. Members(Changes)' = Members(Changes) /\ Members(group.activate)' = Members(group.activate)
    BY <2>1 DEF Changes
  <2> QED
    BY <2>1, <2>3, <2>4 DEF Bounded
<1>11. CASE JobsStarted
  <2>1. UNCHANGED <<files, enabled, backup, touched, group>> /\ pc \in Modified
    BY <1>11 DEF JobsStarted, Modified
  <2> QED
    BY <2>1, SameScope DEF Bounded
<1>12. CASE ActivateUnit
  <2> DEFINE u == group.activate[step]
  <2>1. /\ pc \in Modified /\ step \in 1 .. Len(group.activate)
        /\ UNCHANGED <<files, backup, group>>
    BY <1>12, <1>b DEF ActivateUnit, Modified
  <2>2. u \in Units /\ u \in Members(group.activate)
    BY <2>1, <1>b, PassedFacts
  <2>3. Members(Append(touched, u)) = Members(touched) \cup {u}
    BY <2>2, <1>b, MembersAppend
  <2>4. touched' \in {touched, Append(touched, u)} /\ enabled' \in {enabled, enabled \cup {u}}
    BY <1>12 DEF ActivateUnit
  <2>5. Members(touched)' \in {Members(touched), Members(touched) \cup {u}}
    BY <2>3, <2>4
  <2>6. Members(Changes)' = Members(Changes) /\ Members(group.activate)' = Members(group.activate)
    BY <2>1 DEF Changes
  <2> QED
    BY <2>1, <2>2, <2>4, <2>5, <2>6 DEF Bounded
<1>13. CASE Succeed
  BY <1>13 DEF Succeed, Bounded, Modified
<1>14. CASE Fail
  <2>1. CASE pc \in {"staging", "validating"}
    BY <1>14, <2>1 DEF Fail, Bounded, Modified
  <2>2. CASE pc \notin {"staging", "validating"}
    <3>1. UNCHANGED <<files, enabled, backup, touched, group>> /\ pc \in Modified
      BY <1>14, <2>2 DEF Fail, Modified
    <3> QED
      BY <3>1, SameScope DEF Bounded
  <2> QED
    BY <2>1, <2>2
<1>15. CASE PhaseLost
  <2>1. UNCHANGED <<files, enabled, backup, touched, group, pc>>
    BY <1>15 DEF PhaseLost
  <2> QED
    BY <2>1, SameScope DEF Bounded
<1>16. CASE Quiesce
  <2> DEFINE u == RollbackUnits[step]
  <2>1. /\ pc \in Modified /\ step \in 1 .. Len(RollbackUnits)
        /\ UNCHANGED <<files, backup, touched, group>> /\ enabled' \in {enabled, enabled \ {u}}
    BY <1>16, <1>b DEF Quiesce, Modified
  <2>2. u \in Members(touched) \cup Members(group.activate)
    BY <2>1, <1>b, PassedFacts
  <2> QED
    BY <2>1, <2>2, SameScope DEF Bounded
<1>17. CASE Quiesced
  <2>1. UNCHANGED <<files, enabled, backup, touched, group>> /\ pc \in Modified
    BY <1>17 DEF Quiesced, Modified
  <2> QED
    BY <2>1, SameScope DEF Bounded
<1>18. CASE RestoreFile
  <2> DEFINE u == Changes[step]
  <2>1. /\ pc \in Modified /\ step \in 1 .. Len(Changes) /\ backup # None
        /\ UNCHANGED <<enabled, backup, touched, group>>
    BY <1>18, <1>a, <1>b DEF RestoreFile, Modified
  <2>2. u \in Units /\ u \in Members(Changes)
    BY <2>1, <1>b, PassedFacts
  <2>3. backup.files[u] \in Definitions \cup {None}
    BY <2>1, <2>2, <1>c, FileMapFacts
  <2>4. files' \in {files, [files EXCEPT ![u] = backup.files[u]]}
    BY <1>18 DEF RestoreFile
  <2>5. \A v \in Units \ {u} : [files EXCEPT ![u] = backup.files[u]][v] = files[v]
    BY <2>2, <2>3, <1>b, FileMapFacts
  <2>6. \A v \in Units \ {u} : files'[v] = files[v]
    BY <2>4, <2>5
  <2> QED
    BY <2>1, <2>2, <2>6, SameScope DEF Bounded
<1>19. CASE ReloadRestored
  <2>1. UNCHANGED <<files, enabled, backup, touched, group>> /\ pc \in Modified
    BY <1>19 DEF ReloadRestored, Modified
  <2> QED
    BY <2>1, SameScope DEF Bounded
<1>20. CASE Rearm
  <2> DEFINE u == RollbackUnits[RestoredLast(step)]
  <2>1. /\ pc \in Modified /\ step \in 1 .. Len(RollbackUnits)
        /\ UNCHANGED <<files, backup, touched, group>> /\ enabled' \in {enabled, enabled \cup {u}}
    BY <1>20, <1>b DEF Rearm, Modified
  <2>2. RestoredLast(step) \in 1 .. Len(RollbackUnits)
    BY <2>1 DEF RestoredLast
  <2>3. u \in Members(touched) \cup Members(group.activate)
    BY <2>2, <1>b, PassedFacts
  <2> QED
    BY <2>1, <2>3, SameScope DEF Bounded
<1>21. CASE Rearmed
  <2>1. UNCHANGED <<files, enabled, backup, touched, group>> /\ pc \in Modified
    BY <1>21 DEF Rearmed, Modified
  <2> QED
    BY <2>1, SameScope DEF Bounded
<1>22. CASE VerifyRestored
  <2>1. UNCHANGED <<files, enabled, backup, touched, group>> /\ pc \in Modified
    BY <1>22 DEF VerifyRestored, Modified
  <2> QED
    BY <2>1, SameScope DEF Bounded
<1>23. CASE Undone
  BY <1>23 DEF Undone, Bounded, Modified
<1>24. CASE Retain
  BY <1>24 DEF Retain, Bounded, Modified
<1>25. ASSUME NEW a \in Units, NEW u \in Units, Fire(a, u) PROVE Bounded'
  <2>1. UNCHANGED <<files, enabled, backup, touched, group, pc>>
    BY <1>25 DEF Fire
  <2> QED
    BY <2>1, SameScope DEF Bounded
<1>26. ASSUME NEW u \in Units, End(u) PROVE Bounded'
  <2>1. UNCHANGED <<files, enabled, backup, touched, group, pc>>
    BY <1>26 DEF End
  <2> QED
    BY <2>1, SameScope DEF Bounded
<1>27. CASE Die
  BY <1>27 DEF Die, Bounded, Modified
<1>28. CASE Reboot
  BY <1>28 DEF Reboot, Bounded, Modified
<1>29. CASE OperatorResolves
  BY <1>29 DEF OperatorResolves, Bounded, Modified
<1>30. CASE UNCHANGED vars
  <2>1. UNCHANGED <<files, enabled, backup, touched, group, pc>>
    BY <1>30 DEF vars
  <2> QED
    BY <2>1, SameScope DEF Bounded
<1> QED
  BY <1>1, <1>2, <1>3, <1>4, <1>5, <1>6, <1>7, <1>8, <1>9, <1>10, <1>11, <1>12, <1>13, <1>14, <1>15, <1>16, <1>17, <1>18, <1>19, <1>20, <1>21, <1>22, <1>23, <1>24, <1>25, <1>26, <1>27, <1>28, <1>29, <1>30
     DEF Next, Operate, RollBack, Surroundings

(* A unit that comes again in the rollback's list was passed before.         *)
LEMMA RepeatedPassed ==
  ASSUME Typed, step \in 1 .. Len(RollbackUnits), Repeated(step)
  PROVE  RollbackUnits[step] \in Passed(RollbackUnits, step)
<1>1. touched \in Seq(Units) /\ group.activate \in Seq(Units)
  BY GroupFacts DEF Typed
<1>2. PICK k \in DOMAIN touched : touched[k] = RollbackUnits[step]
  BY DEF Repeated, Members
<1>3. /\ Len(touched) \in Nat /\ DOMAIN touched = 1 .. Len(touched) /\ step > Len(touched)
      /\ RollbackUnits \in Seq(Units) /\ DOMAIN RollbackUnits = 1 .. Len(RollbackUnits)
      /\ Len(RollbackUnits) \in Nat
  BY <1>1, GroupFacts DEF Repeated
<1>4. RollbackUnits[k] = touched[k]
  BY <1>1, <1>2, <1>3 DEF RollbackUnits
<1>5. k < step /\ k \in DOMAIN RollbackUnits
  BY <1>2, <1>3
<1> QED
  BY <1>2, <1>4, <1>5 DEF Passed

LEMMA SameRestored ==
  ASSUME Restored, UNCHANGED <<files, enabled, backup, touched, group, pc, step, sound>>,
         faults => faults'
  PROVE  Restored'
<1>1. Changes' = Changes /\ RollbackUnits' = RollbackUnits
  BY DEF Changes, RollbackUnits
<1>2. /\ Passed(Changes, step)' = Passed(Changes, step)
      /\ Passed(RollbackUnits, step)' = Passed(RollbackUnits, step)
  BY <1>1
<1> QED
  BY <1>2 DEF Restored

LEMMA StepRestored == TypeOK /\ Marked /\ Bounded /\ Restored /\ [Next]_vars => Restored'
<1> SUFFICES ASSUME Typed, Marked, Bounded, Restored, [Next]_vars PROVE Restored'
  BY TypedIsTypeOK
<1> USE DEF disk, systemd, request, memory, Goto, Again, Return
<1>a. pc \in Modified \cup {"validating"} => backup # None
  BY DEF Marked
<1>b. /\ Changes \in Seq(Units) /\ RollbackUnits \in Seq(Units)
      /\ Len(Changes) \in Nat /\ Len(RollbackUnits) \in Nat /\ step \in Nat \ {0}
      /\ files \in FileMaps
  BY GroupFacts DEF Typed
<1>c. backup # None => backup.files \in FileMaps
  BY BackupFacts
<1>1. ASSUME NEW g \in Groups, Begin(g) PROVE Restored'
  <2>1. pc' \notin {"restoring", "rearming", "verifying"}
    BY <1>1 DEF Begin
  <2>2. ~sound' => faults'
    BY <1>1 DEF Begin, Restored
  <2> QED
    BY <2>1, <2>2 DEF Restored
<1>2. CASE Snapshot
  <2>1. pc' \notin {"restoring", "rearming", "verifying"}
    BY <1>2 DEF Snapshot
  <2>2. ~sound' => faults'
    BY <1>2 DEF Snapshot, Restored
  <2> QED
    BY <2>1, <2>2 DEF Restored
<1>3. CASE NothingToDo
  <2>1. pc' \notin {"restoring", "rearming", "verifying"}
    BY <1>3 DEF NothingToDo
  <2>2. ~sound' => faults'
    BY <1>3 DEF NothingToDo, Restored
  <2> QED
    BY <2>1, <2>2 DEF Restored
<1>4. CASE Validate
  <2>1. pc' \notin {"restoring", "rearming", "verifying"}
    BY <1>4 DEF Validate
  <2>2. ~sound' => faults'
    BY <1>4 DEF Validate, Restored
  <2> QED
    BY <2>1, <2>2 DEF Restored
<1>5. CASE StopUnit
  <2>1. pc' \notin {"restoring", "rearming", "verifying"}
    BY <1>5 DEF StopUnit
  <2>2. ~sound' => faults'
    BY <1>5 DEF StopUnit, Restored
  <2> QED
    BY <2>1, <2>2 DEF Restored
<1>6. CASE ObserveJobs
  <2>1. pc' \notin {"restoring", "rearming", "verifying"}
    BY <1>6 DEF ObserveJobs
  <2>2. ~sound' => faults'
    BY <1>6 DEF ObserveJobs, Restored
  <2> QED
    BY <2>1, <2>2 DEF Restored
<1>7. CASE ChangeFile
  <2>1. pc' \notin {"restoring", "rearming", "verifying"}
    BY <1>7 DEF ChangeFile
  <2>2. ~sound' => faults'
    BY <1>7 DEF ChangeFile, Restored
  <2> QED
    BY <2>1, <2>2 DEF Restored
<1>8. CASE Reload
  <2>1. pc' \notin {"restoring", "rearming", "verifying"}
    BY <1>8 DEF Reload
  <2>2. ~sound' => faults'
    BY <1>8 DEF Reload, Restored
  <2> QED
    BY <2>1, <2>2 DEF Restored
<1>9. CASE PreserveJob
  <2>1. pc' \notin {"restoring", "rearming", "verifying"}
    BY <1>9 DEF PreserveJob
  <2>2. ~sound' => faults'
    BY <1>9 DEF PreserveJob, Restored
  <2> QED
    BY <2>1, <2>2 DEF Restored
<1>10. CASE StartJob
  <2>1. pc' \notin {"restoring", "rearming", "verifying"}
    BY <1>10 DEF StartJob
  <2>2. ~sound' => faults'
    BY <1>10 DEF StartJob, Restored
  <2> QED
    BY <2>1, <2>2 DEF Restored
<1>11. CASE JobsStarted
  <2>1. pc' \notin {"restoring", "rearming", "verifying"}
    BY <1>11 DEF JobsStarted
  <2>2. ~sound' => faults'
    BY <1>11 DEF JobsStarted, Restored
  <2> QED
    BY <2>1, <2>2 DEF Restored
<1>12. CASE ActivateUnit
  <2>1. pc' \notin {"restoring", "rearming", "verifying"}
    BY <1>12 DEF ActivateUnit
  <2>2. ~sound' => faults'
    BY <1>12 DEF ActivateUnit, Restored
  <2> QED
    BY <2>1, <2>2 DEF Restored
<1>13. CASE Succeed
  <2>1. pc' \notin {"restoring", "rearming", "verifying"}
    BY <1>13 DEF Succeed
  <2>2. ~sound' => faults'
    BY <1>13 DEF Succeed, Restored
  <2> QED
    BY <2>1, <2>2 DEF Restored
<1>14. CASE Fail
  <2>1. pc' \notin {"restoring", "rearming", "verifying"}
    BY <1>14 DEF Fail
  <2>2. ~sound' => faults'
    BY <1>14 DEF Fail, Restored
  <2> QED
    BY <2>1, <2>2 DEF Restored
<1>15. CASE PhaseLost
  <2>1. UNCHANGED <<files, enabled, backup, touched, group, pc, step, sound>> /\ (faults => faults')
    BY <1>15 DEF PhaseLost
  <2> QED
    BY <2>1, SameRestored
<1>16. CASE Quiesce
  <2>1. pc' = "quiescing" /\ (~sound' => faults')
    BY <1>16 DEF Quiesce, Restored
  <2> QED
    BY <2>1 DEF Restored
<1>17. CASE Quiesced
  <2>1. /\ pc' = (IF sound THEN "restoring" ELSE "verifying") /\ step' = 1
        /\ UNCHANGED <<sound, faults, group>>
    BY <1>17 DEF Quiesced
  <2>2. Changes' = Changes
    BY <2>1 DEF Changes
  <2>3. Passed(Changes, 1) = {}
    BY <1>b, PassedFacts
  <2>4. Passed(Changes, step)' = {}
    BY <2>1, <2>2, <2>3
  <2>5. ~sound => faults
    BY DEF Restored
  <2> QED
    BY <2>1, <2>4, <2>5 DEF Restored
<1>18. CASE RestoreFile
  <2> DEFINE u == Changes[step]
  <2>1. /\ pc = "restoring" /\ pc' = pc /\ step' = step + 1 /\ step \in 1 .. Len(Changes)
        /\ UNCHANGED <<backup, group>> /\ backup # None
    BY <1>18, <1>a, <1>b DEF RestoreFile, Modified
  <2>2. u \in Units /\ Passed(Changes, step + 1) = Passed(Changes, step) \cup {u}
        /\ Passed(Changes, step) \subseteq Members(Changes) /\ Members(Changes) \subseteq Units
    BY <2>1, <1>b, PassedFacts, GroupFacts
  <2>3. Changes' = Changes
    BY <2>1 DEF Changes
  <2>4. Passed(Changes, step)' = Passed(Changes, step) \cup {u}
    BY <2>1, <2>2, <2>3
  <2>5. ~sound' => faults'
    BY <1>18 DEF RestoreFile, Restored
  <2>6. CASE ~sound'
    BY <2>1, <2>5, <2>6 DEF Restored
  <2>7. CASE sound'
    <3>1. sound /\ files' = [files EXCEPT ![u] = backup.files[u]]
      BY <1>18, <2>7 DEF RestoreFile
    <3>2. \A v \in Passed(Changes, step) : files[v] = backup.files[v]
      BY <3>1, <2>1 DEF Restored
    <3>3. backup.files[u] \in Definitions \cup {None}
      BY <2>1, <2>2, <1>c, FileMapFacts
    <3>4. /\ [files EXCEPT ![u] = backup.files[u]][u] = backup.files[u]
          /\ \A v \in Units \ {u} : [files EXCEPT ![u] = backup.files[u]][v] = files[v]
      BY <2>2, <1>b DEF FileMaps
    <3>6. files'[u] = backup.files[u] /\ \A v \in Units \ {u} : files'[v] = files[v]
      BY <3>1, <3>4
    <3>5. \A v \in Passed(Changes, step)' : files'[v] = backup'.files[v]
      BY <3>2, <3>6, <2>1, <2>2, <2>4
    <3> QED
      BY <3>5, <2>1, <2>7 DEF Restored
  <2> QED
    BY <2>6, <2>7
<1>19. CASE ReloadRestored
  <2>1. /\ pc = "restoring" /\ step' = 1 /\ step \in Nat /\ step > Len(Changes)
        /\ UNCHANGED <<files, enabled, backup, touched, group, sound>> /\ backup # None
    BY <1>19, <1>a, <1>b DEF ReloadRestored, Modified
  <2>2. ~sound => faults
    BY DEF Restored
  <2>3. CASE pc' = "rearming"
    <3>1. sound /\ faults' = faults
      BY <1>19, <2>3 DEF ReloadRestored
    <3>2. Passed(Changes, step) = Members(Changes)
      BY <2>1, <1>b, PassedFacts
    <3>3. \A v \in Members(Changes) : files[v] = backup.files[v]
      BY <3>1, <3>2, <2>1 DEF Restored
    <3>4. \A v \in Units \ Members(Changes) : files[v] = backup.files[v]
      BY <2>1 DEF Bounded, Modified
    <3>5. \A v \in Units : files[v] = backup.files[v]
      BY <3>3, <3>4
    <3>6. files = backup.files
      BY <3>5, <2>1, <1>b, <1>c DEF FileMaps
    <3> QED
      BY <3>1, <3>6, <2>1, <2>3 DEF Restored
  <2>4. CASE pc' # "rearming"
    <3>1. pc' = "verifying" /\ faults'
      BY <1>19, <2>2, <2>4 DEF ReloadRestored
    <3> QED
      BY <3>1 DEF Restored
  <2> QED
    BY <2>3, <2>4
<1>20. CASE Rearm
  <2>1. /\ pc = "rearming" /\ pc' = pc /\ UNCHANGED <<files, backup, sound>>
        /\ (faults => faults')
    BY <1>20 DEF Rearm
  <2> QED
    BY <2>1 DEF Restored
<1>21. CASE Rearmed
  <2>1. /\ pc = "rearming" /\ pc' = "verifying" /\ step' = 1
        /\ UNCHANGED <<files, enabled, backup, touched, group, faults, sound>>
    BY <1>21 DEF Rearmed
  <2>2. Passed(RollbackUnits, 1) = {}
    BY <1>b, PassedFacts
  <2>3. Passed(RollbackUnits, step)' = {}
    BY <2>1, <2>2, SameScope
  <2> QED
    BY <2>1, <2>3 DEF Restored
<1>22. CASE VerifyRestored
  <2> DEFINE u == RollbackUnits[step]
  <2>1. /\ pc = "verifying" /\ pc' = pc /\ step' = step + 1 /\ step \in 1 .. Len(RollbackUnits)
        /\ UNCHANGED <<files, enabled, backup, touched, group, sound>>
    BY <1>22, <1>b DEF VerifyRestored
  <2>2. faults => faults'
    BY <1>22 DEF VerifyRestored
  <2>3. CASE faults'
    BY <2>1, <2>3 DEF Restored
  <2>4. CASE ~faults'
    <3>1. ~faults /\ (Repeated(step) \/ AsBefore(u))
      BY <1>22, <2>2, <2>4 DEF VerifyRestored
    <3>2. files = backup.files /\ \A v \in Passed(RollbackUnits, step) : v \in enabled <=> v \in backup.enabled
      BY <3>1, <2>1 DEF Restored
    <3>3. u \in enabled <=> u \in backup.enabled
      <4>1. CASE Repeated(step)
        BY <4>1, <3>2, <2>1, RepeatedPassed
      <4>2. CASE AsBefore(u)
        BY <4>2 DEF AsBefore
      <4> QED
        BY <3>1, <4>1, <4>2
    <3>4. Passed(RollbackUnits, step + 1) = Passed(RollbackUnits, step) \cup {u}
      BY <2>1, <1>b, PassedFacts
    <3>5. Passed(RollbackUnits, step)' = Passed(RollbackUnits, step) \cup {u}
      BY <3>4, <2>1, SameScope
    <3>6. sound \/ faults
      BY DEF Restored
    <3> QED
      BY <3>1, <3>2, <3>3, <3>5, <3>6, <2>1 DEF Restored
  <2> QED
    BY <2>3, <2>4
<1>23. CASE Undone
  <2>1. pc' \notin {"restoring", "rearming", "verifying"}
    BY <1>23 DEF Undone
  <2>2. ~sound' => faults'
    BY <1>23 DEF Undone, Restored
  <2> QED
    BY <2>1, <2>2 DEF Restored
<1>24. CASE Retain
  <2>1. pc' \notin {"restoring", "rearming", "verifying"}
    BY <1>24 DEF Retain
  <2>2. ~sound' => faults'
    BY <1>24 DEF Retain, Restored
  <2> QED
    BY <2>1, <2>2 DEF Restored
<1>25. ASSUME NEW a \in Units, NEW u \in Units, Fire(a, u) PROVE Restored'
  <2>1. UNCHANGED <<files, enabled, backup, touched, group, pc, step, sound>> /\ (faults => faults')
    BY <1>25 DEF Fire
  <2> QED
    BY <2>1, SameRestored
<1>26. ASSUME NEW u \in Units, End(u) PROVE Restored'
  <2>1. UNCHANGED <<files, enabled, backup, touched, group, pc, step, sound>> /\ (faults => faults')
    BY <1>26 DEF End
  <2> QED
    BY <2>1, SameRestored
<1>27. CASE Die
  <2>1. pc' \notin {"restoring", "rearming", "verifying"}
    BY <1>27 DEF Die
  <2>2. ~sound' => faults'
    BY <1>27 DEF Die, Restored
  <2> QED
    BY <2>1, <2>2 DEF Restored
<1>28. CASE Reboot
  <2>1. pc' \notin {"restoring", "rearming", "verifying"}
    BY <1>28 DEF Reboot
  <2>2. ~sound' => faults'
    BY <1>28 DEF Reboot, Restored
  <2> QED
    BY <2>1, <2>2 DEF Restored
<1>29. CASE OperatorResolves
  BY <1>29 DEF OperatorResolves, Restored
<1>30. CASE UNCHANGED vars
  <2>1. UNCHANGED <<files, enabled, backup, touched, group, pc, step, sound>> /\ (faults => faults')
    BY <1>30 DEF vars
  <2> QED
    BY <2>1, SameRestored
<1> QED
  BY <1>1, <1>2, <1>3, <1>4, <1>5, <1>6, <1>7, <1>8, <1>9, <1>10, <1>11, <1>12, <1>13, <1>14, <1>15, <1>16, <1>17, <1>18, <1>19, <1>20, <1>21, <1>22, <1>23, <1>24, <1>25, <1>26, <1>27, <1>28, <1>29, <1>30
     DEF Next, Operate, RollBack, Surroundings

-----------------------------------------------------------------------------
(* The theorems.                                                            *)

LEMMA InitInvariant == Init => IInv
<1> SUFFICES ASSUME Init PROVE IInv
  OBVIOUS
<1>1. TypeOK
  BY InitTyped
<1>2. pc = "idle" /\ backup = None /\ sound = TRUE
  BY DEF Init
<1> QED
  BY <1>1, <1>2 DEF IInv, Marked, Modified, Forward, Backward, Bounded, Restored

LEMMA StepInvariant == IInv /\ [Next]_vars => IInv'
<1> SUFFICES ASSUME IInv, [Next]_vars PROVE IInv'
  OBVIOUS
<1>1. TypeOK /\ Marked /\ Forward /\ Bounded /\ Restored
  BY DEF IInv, Backward
<1>2. TypeOK' /\ Marked' /\ Forward' /\ Bounded' /\ Restored'
  BY <1>1, StepTyped, StepMarked, StepForward, StepBounded, StepRestored
<1> QED
  BY <1>2 DEF IInv, Backward

(* The inductive invariant holds: an operation in progress is marked and has *)
(* its originals, and its rollback restores what it changed or reports it.   *)
THEOREM Invariance == Spec => []IInv
<1>1. Init => IInv
  BY InitInvariant
<1>2. IInv /\ [Next]_vars => IInv'
  BY StepInvariant
<1> QED
  BY <1>1, <1>2, PTL DEF Spec

(* Every variable keeps its type.                                            *)
THEOREM Typing == Spec => []TypeOK
<1>1. IInv => TypeOK
  BY DEF IInv
<1> QED
  BY <1>1, Invariance, PTL

(* The originals are back when the rollback ends without a fault.            *)
LEMMA Originals ==
  ASSUME IInv
  PROVE  (pc = "verifying" /\ step > Len(RollbackUnits) /\ ~faults) \/ pc = "unmodified" =>
           (backup # None => files = backup.files /\ enabled = backup.enabled)
<1>1. Typed /\ Marked /\ Forward /\ Bounded /\ Restored
  BY TypedIsTypeOK DEF IInv, Backward
<1>2. ASSUME pc = "verifying", step > Len(RollbackUnits), ~faults, backup # None
      PROVE  files = backup.files /\ enabled = backup.enabled
  <2>1. /\ RollbackUnits \in Seq(Units) /\ step \in Nat /\ enabled \in SUBSET Units
        /\ Members(RollbackUnits) = Members(touched) \cup Members(group.activate)
        /\ backup.enabled \in SUBSET Units
    BY <1>1, <1>2, GroupFacts, BackupFacts DEF Typed
  <2>2. Passed(RollbackUnits, step) = Members(RollbackUnits)
    BY <1>2, <2>1, PassedFacts
  <2>3. files = backup.files /\ \A u \in Members(RollbackUnits) : u \in enabled <=> u \in backup.enabled
    BY <1>1, <1>2, <2>2 DEF Restored
  <2>4. \A u \in Units \ Members(RollbackUnits) : u \in enabled <=> u \in backup.enabled
    BY <1>1, <1>2, <2>1 DEF Bounded, Modified
  <2> QED
    BY <2>1, <2>3, <2>4
<1>3. pc = "unmodified" /\ backup # None => files = backup.files /\ enabled = backup.enabled
  BY <1>1 DEF Forward
<1> QED
  BY <1>2, <1>3

LEMMA GroupsInitially == Init => Group!Init
<1> SUFFICES ASSUME Init PROVE Group!Init
  OBVIOUS
<1>1. Typed /\ marker = None
  BY InitTyped, TypedIsTypeOK DEF Init
<1> QED
  BY <1>1 DEF Group!Init, Typed, FileMaps

(* What a completed operation has made of the originals is the abstract step. *)
Replaced(f, e, g, h) == g = Target(f) /\ h = Armed(f, e)

LEMMA ReplacedApplies ==
  ASSUME Typed, marker # None, marker' = None,
         Replaced(IF backup = None THEN files ELSE backup.files,
                  IF backup = None THEN enabled ELSE backup.enabled, files', enabled')
  PROVE  Group!Next
<1> DEFINE f == IF backup = None THEN files ELSE backup.files
           e == IF backup = None THEN enabled ELSE backup.enabled
<1>1. files' = Target(f) /\ enabled' = Armed(f, e)
  BY DEF Replaced
<1>2. /\ f = IF marker = None \/ backup = None THEN files ELSE backup.files
      /\ e = IF marker = None \/ backup = None THEN enabled ELSE backup.enabled
      /\ files' = (IF marker = None \/ backup = None THEN files ELSE backup.files)'
      /\ enabled' = (IF marker = None \/ backup = None THEN enabled ELSE backup.enabled)'
  OBVIOUS
<1>3. \A s : Group!Members(s) = Members(s)
  BY DEF Group!Members, Members
<1>4. Group!Removed(group) = {u \in Members(group.remove) : f[u] # None}
  BY <1>2, <1>3 DEF Group!Removed
<1>5. Group!Apply(group, gen)
  BY <1>1, <1>2, <1>3, <1>4 DEF Group!Apply, Target, Armed
<1>6. group \in Groups /\ gen \in Definitions
  BY DEF Typed, Definitions
<1> QED
  BY <1>5, <1>6 DEF Group!Next

LEMMA GroupsStep == IInv /\ [Next]_vars => [Group!Next]_Group!vars
<1> SUFFICES ASSUME IInv, [Next]_vars PROVE [Group!Next]_Group!vars
  OBVIOUS
<1>0. Typed /\ Marked /\ Forward /\ Bounded /\ Restored
  BY TypedIsTypeOK DEF IInv, Backward
<1> DEFINE Same == /\ UNCHANGED (IF marker = None \/ backup = None THEN files ELSE backup.files)
                   /\ UNCHANGED (IF marker = None \/ backup = None THEN enabled ELSE backup.enabled)
<1>a. Same => [Group!Next]_Group!vars
  BY DEF Group!vars
<1>b. /\ pc \in Modified \cup {"validating"} => backup # None
      /\ pc # "idle" => marker # None
      /\ pc = "staging" => backup = None
      /\ marker = None => backup = None
  BY <1>0 DEF Marked
<1>c. /\ {"in_progress", "recovery_required"} \cap {None} = {}
      /\ \A b \in Snapshots : b # None
  BY GroupsAssumption
<1> USE DEF disk, systemd, request, memory, Goto, Again, Return
<1>1. ASSUME NEW g \in Groups, Begin(g) PROVE [Group!Next]_Group!vars
  <2>1. backup = None /\ backup' = None /\ files' = files /\ enabled' = enabled
    BY <1>1, <1>b DEF Begin
  <2>2. Same
    BY <2>1
  <2> QED
    BY <2>2, <1>a
<1>2. CASE Snapshot
  <2>1. /\ backup = None /\ files' = files /\ enabled' = enabled
        /\ backup'.files = files /\ backup'.enabled = enabled
    BY <1>2, <1>b DEF Snapshot
  <2>2. Same
    BY <2>1
  <2> QED
    BY <2>2, <1>a
<1>3. CASE NothingToDo
  <2>1. backup = None /\ backup' = None /\ files' = files /\ enabled' = enabled
    BY <1>3, <1>b DEF NothingToDo
  <2>2. Same
    BY <2>1
  <2> QED
    BY <2>2, <1>a
<1>4. CASE Validate
  <2>1. UNCHANGED <<marker, backup, files, enabled>>
    BY <1>4 DEF Validate
  <2>2. Same
    BY <2>1
  <2> QED
    BY <2>2, <1>a
<1>5. CASE StopUnit
  <2>1. UNCHANGED <<marker, backup>> /\ marker # None /\ backup # None
    BY <1>5, <1>b DEF StopUnit, Modified
  <2>2. Same
    BY <2>1
  <2> QED
    BY <2>2, <1>a
<1>6. CASE ObserveJobs
  <2>1. UNCHANGED <<marker, backup, files, enabled>>
    BY <1>6 DEF ObserveJobs
  <2>2. Same
    BY <2>1
  <2> QED
    BY <2>2, <1>a
<1>7. CASE ChangeFile
  <2>1. UNCHANGED <<marker, backup>> /\ marker # None /\ backup # None
    BY <1>7, <1>b DEF ChangeFile, Modified
  <2>2. Same
    BY <2>1
  <2> QED
    BY <2>2, <1>a
<1>8. CASE Reload
  <2>1. UNCHANGED <<marker, backup, files, enabled>>
    BY <1>8 DEF Reload
  <2>2. Same
    BY <2>1
  <2> QED
    BY <2>2, <1>a
<1>9. CASE PreserveJob
  <2>1. UNCHANGED <<marker, backup, files, enabled>>
    BY <1>9 DEF PreserveJob
  <2>2. Same
    BY <2>1
  <2> QED
    BY <2>2, <1>a
<1>10. CASE StartJob
  <2>1. UNCHANGED <<marker, backup, files, enabled>>
    BY <1>10 DEF StartJob
  <2>2. Same
    BY <2>1
  <2> QED
    BY <2>2, <1>a
<1>11. CASE JobsStarted
  <2>1. UNCHANGED <<marker, backup, files, enabled>>
    BY <1>11 DEF JobsStarted
  <2>2. Same
    BY <2>1
  <2> QED
    BY <2>2, <1>a
<1>12. CASE ActivateUnit
  <2>1. UNCHANGED <<marker, backup>> /\ marker # None /\ backup # None
    BY <1>12, <1>b DEF ActivateUnit, Modified
  <2>2. Same
    BY <2>1
  <2> QED
    BY <2>2, <1>a
<1>13. CASE Succeed
  <2>1. /\ pc = "activating" /\ backup # None /\ marker # None /\ marker' = None /\ backup' = None
        /\ files' = files /\ enabled' = enabled
        /\ group.activate \in Seq(Units) /\ step \in Nat /\ step > Len(group.activate)
    BY <1>13, <1>0, <1>b, GroupFacts DEF Succeed, Modified, Typed
  <2>2. Passed(group.activate, step) = Members(group.activate)
    BY <2>1, PassedFacts
  <2>3. files = Target(backup.files) /\ enabled = (backup.enabled \ Withdrawn) \cup Members(group.activate)
    BY <2>1, <2>2, <1>0 DEF Forward
  <2>4. Withdrawn = Members(group.deactivate) \cup {u \in Members(group.remove) : backup.files[u] # None}
    BY <1>0, GroupFacts DEF Withdrawn, Known
  <2>5. Replaced(backup.files, backup.enabled, files', enabled')
    BY <2>1, <2>3, <2>4 DEF Replaced, Armed
  <2> QED
    BY <2>1, <2>5, <1>0, ReplacedApplies
<1>14. CASE Fail
  <2>1. UNCHANGED <<marker, backup, files, enabled>>
    BY <1>14 DEF Fail
  <2>2. Same
    BY <2>1
  <2> QED
    BY <2>2, <1>a
<1>15. CASE PhaseLost
  <2>1. UNCHANGED <<marker, backup, files, enabled>>
    BY <1>15 DEF PhaseLost
  <2>2. Same
    BY <2>1
  <2> QED
    BY <2>2, <1>a
<1>16. CASE Quiesce
  <2>1. UNCHANGED <<marker, backup>> /\ marker # None /\ backup # None
    BY <1>16, <1>b DEF Quiesce, Modified
  <2>2. Same
    BY <2>1
  <2> QED
    BY <2>2, <1>a
<1>17. CASE Quiesced
  <2>1. UNCHANGED <<marker, backup, files, enabled>>
    BY <1>17 DEF Quiesced
  <2>2. Same
    BY <2>1
  <2> QED
    BY <2>2, <1>a
<1>18. CASE RestoreFile
  <2>1. UNCHANGED <<marker, backup>> /\ marker # None /\ backup # None
    BY <1>18, <1>b DEF RestoreFile, Modified
  <2>2. Same
    BY <2>1
  <2> QED
    BY <2>2, <1>a
<1>19. CASE ReloadRestored
  <2>1. UNCHANGED <<marker, backup, files, enabled>>
    BY <1>19 DEF ReloadRestored
  <2>2. Same
    BY <2>1
  <2> QED
    BY <2>2, <1>a
<1>20. CASE Rearm
  <2>1. UNCHANGED <<marker, backup>> /\ marker # None /\ backup # None
    BY <1>20, <1>b DEF Rearm, Modified
  <2>2. Same
    BY <2>1
  <2> QED
    BY <2>2, <1>a
<1>21. CASE Rearmed
  <2>1. UNCHANGED <<marker, backup, files, enabled>>
    BY <1>21 DEF Rearmed
  <2>2. Same
    BY <2>1
  <2> QED
    BY <2>2, <1>a
<1>22. CASE VerifyRestored
  <2>1. UNCHANGED <<marker, backup, files, enabled>>
    BY <1>22 DEF VerifyRestored
  <2>2. Same
    BY <2>1
  <2> QED
    BY <2>2, <1>a
<1>23. CASE Undone
  <2>1. marker # None /\ marker' = None /\ backup' = None /\ files' = files /\ enabled' = enabled
    BY <1>23, <1>b DEF Undone, Ended
  <2>2. backup # None => files = backup.files /\ enabled = backup.enabled
    BY <1>23, Originals DEF Undone, Ended
  <2>3. Same
    BY <2>1, <2>2
  <2> QED
    BY <2>3, <1>a
<1>24. CASE Retain
  <2>1. backup' = backup /\ files' = files /\ enabled' = enabled /\ marker # None
    BY <1>24, <1>b DEF Retain, Ended
  <2>2. marker' # None
    BY <1>24, <2>1, <1>c DEF Retain
  <2>3. Same
    BY <2>1, <2>2
  <2> QED
    BY <2>3, <1>a
<1>25. ASSUME NEW a \in Units, NEW u \in Units, Fire(a, u) PROVE [Group!Next]_Group!vars
  <2>1. UNCHANGED <<marker, backup, files, enabled>>
    BY <1>25 DEF Fire
  <2>2. Same
    BY <2>1
  <2> QED
    BY <2>2, <1>a
<1>26. ASSUME NEW u \in Units, End(u) PROVE [Group!Next]_Group!vars
  <2>1. UNCHANGED <<marker, backup, files, enabled>>
    BY <1>26 DEF End
  <2>2. Same
    BY <2>1
  <2> QED
    BY <2>2, <1>a
<1>27. CASE Die
  <2>1. UNCHANGED <<marker, backup, files, enabled>>
    BY <1>27 DEF Die
  <2>2. Same
    BY <2>1
  <2> QED
    BY <2>2, <1>a
<1>28. CASE Reboot
  <2>1. UNCHANGED <<marker, backup, files, enabled>>
    BY <1>28 DEF Reboot
  <2>2. Same
    BY <2>1
  <2> QED
    BY <2>2, <1>a
<1>29. CASE OperatorResolves
  <2> DEFINE f == IF backup = None THEN files ELSE backup.files
             e == IF backup = None THEN enabled ELSE backup.enabled
  <2>1. marker # None /\ marker' = None /\ backup' = None
    BY <1>29 DEF OperatorResolves
  <2>2. \/ files' = f /\ enabled' = e
        \/ files' = Target(f) /\ enabled' = Armed(f, e)
    BY <1>29 DEF OperatorResolves
  <2>3. CASE files' = f /\ enabled' = e
    <3>1. Same
      BY <2>1, <2>3
    <3> QED
      BY <3>1, <1>a
  <2>4. CASE files' = Target(f) /\ enabled' = Armed(f, e)
    <3>1. Replaced(f, e, files', enabled')
      BY <2>4 DEF Replaced
    <3> QED
      BY <2>1, <3>1, <1>0, ReplacedApplies
  <2> QED
    BY <2>2, <2>3, <2>4
<1>30. CASE UNCHANGED vars
  <2>1. UNCHANGED <<marker, backup, files, enabled>>
    BY <1>30 DEF vars
  <2>2. Same
    BY <2>1
  <2> QED
    BY <2>2, <1>a
<1> QED
  BY <1>1, <1>2, <1>3, <1>4, <1>5, <1>6, <1>7, <1>8, <1>9, <1>10, <1>11, <1>12, <1>13, <1>14, <1>15, <1>16, <1>17, <1>18, <1>19, <1>20, <1>21, <1>22, <1>23, <1>24, <1>25, <1>26, <1>27, <1>28, <1>29, <1>30
     DEF Next, Operate, RollBack, Surroundings

(* Files and enablement of a group change together or not at all, whatever   *)
(* fails or dies in between (replace_units, remove_units).                   *)
THEOREM GroupsImplemented == Spec => ImplementsGroups
BY Invariance, GroupsInitially, GroupsStep, PTL DEF Spec, ImplementsGroups, Group!Spec

-----------------------------------------------------------------------------
(* Jobs.                                                                    *)

LEMMA SameJobs ==
  ASSUME UNCHANGED <<touched, group>> PROVE Started' = Started
  BY DEF Started

LEMMA StepJobs == TypeOK /\ Marked /\ Forward /\ Jobs /\ [Next]_vars => Jobs'
<1> SUFFICES ASSUME Typed, Marked, Forward, Jobs, [Next]_vars PROVE Jobs'
  BY TypedIsTypeOK
<1> USE DEF disk, systemd, request, memory, Goto, Again, Return
<1>a. pc \in Modified \cup {"validating"} => backup # None
  BY DEF Marked
<1>b. /\ Stops \in Seq(Units) /\ RollbackUnits \in Seq(Units) /\ touched \in Seq(Units)
      /\ group.activate \in Seq(Units) /\ group.once \in Seq(Units) /\ step \in Nat \ {0}
      /\ Members(RollbackUnits) = Members(touched) \cup Members(group.activate)
      /\ Members(group.once) \cap (Members(group.activate) \cup Members(Stops)) = {}
      /\ Members(group.once) \subseteq Members(group.write)
      /\ Members(group.write) \subseteq Units
      /\ running \in FileMaps /\ loaded \in FileMaps
  BY GroupFacts DEF Typed
<1>c. ASSUME UNCHANGED <<touched, group, gen, backup, loaded, preserved>>, pc \in Modified, pc' \in Modified,
             pc' \in {"stopping", "changing", "starting", "activating"} => pc' = pc,
             pc' \in {"quiescing", "restoring"} => pc \notin {"rearming", "verifying"},
             \A j \in Started : running'[j] \in {running[j], None, loaded[j]}
      PROVE  Jobs'
  <2>1. Started' = Started
    BY <1>c, SameJobs
  <2>2. pc \in {"starting", "activating", "quiescing", "restoring"} => \A j \in Started : running'[j] \in {None, gen}
    BY <1>c DEF Jobs
  <2> QED
    BY <1>c, <2>1, <2>2 DEF Jobs, Modified
<1>1. ASSUME NEW g \in Groups, Begin(g) PROVE Jobs'
  BY <1>1 DEF Begin, Jobs, Modified
<1>2. CASE Snapshot
  BY <1>2 DEF Snapshot, Jobs, Modified
<1>3. CASE NothingToDo
  BY <1>3 DEF NothingToDo, Jobs, Modified
<1>4. CASE Validate
  <2>1. touched = << >> /\ touched' = << >> /\ pc' = "stopping"
    BY <1>4 DEF Validate, Jobs, Modified
  <2>2. Members(<< >>) = {}
    BY DEF Members
  <2>3. Started' = {}
    BY <2>1, <2>2 DEF Started
  <2> QED
    BY <2>1, <2>3 DEF Jobs, Modified
<1>5. CASE StopUnit
  <2> DEFINE u == Stops[step]
  <2>1. /\ pc = "stopping" /\ pc' \in {"stopping", "quiescing"} /\ step \in 1 .. Len(Stops)
        /\ UNCHANGED <<backup, group, gen>> /\ touched' \in {touched, Append(touched, u)}
    BY <1>5, <1>b DEF StopUnit
  <2>2. u \in Units /\ u \in Members(Stops)
    BY <2>1, <1>b, PassedFacts
  <2>3. Members(Append(touched, u)) = Members(touched) \cup {u}
    BY <2>2, <1>b, MembersAppend
  <2>4. Members(touched)' \in {Members(touched), Members(touched) \cup {u}}
    BY <2>1, <2>3
  <2>5. Started' = {}
    BY <2>1, <2>2, <2>4, <1>b DEF Started, Jobs
  <2> QED
    BY <2>1, <2>5 DEF Jobs, Modified
<1>6. CASE ObserveJobs
  <2>1. /\ pc = "stopping" /\ pc' = "changing" /\ UNCHANGED <<backup, group, touched>>
        /\ preserved' = {u \in Members(group.once) : u \in backup.active \/ running[u] # None}
    BY <1>6 DEF ObserveJobs
  <2>2. Started' = {}
    BY <2>1, SameJobs DEF Jobs
  <2> QED
    BY <2>1, <2>2 DEF Jobs, Modified
<1>7. CASE ChangeFile
  <2>1. /\ UNCHANGED <<touched, group, gen, backup, loaded, preserved>> /\ pc \in Modified /\ pc' \in Modified
        /\ pc' \in {"stopping", "changing", "starting", "activating"} => pc' = pc
        /\ pc' \in {"quiescing", "restoring"} => pc \notin {"rearming", "verifying"}
        /\ running' = running
    BY <1>7 DEF ChangeFile, Modified
  <2> QED
    BY <2>1, <1>c
<1>8. CASE Reload
  <2>1. /\ pc = "changing" /\ pc' \in {"starting", "quiescing"} /\ UNCHANGED <<backup, group, gen, touched, preserved>>
        /\ loaded' = files /\ step \in Nat /\ step > Len(Changes)
    BY <1>8, <1>b DEF Reload
  <2>2. Started' = {}
    BY <2>1, SameJobs DEF Jobs
  <2>3. Passed(Changes, step) = Members(Changes)
    BY <2>1, GroupFacts, PassedFacts
  <2>4. \A u \in Members(group.write) : files[u] = gen
    BY <2>1, <2>3, <1>b, GroupFacts DEF Forward, New
  <2>5. \A j \in Members(group.once) : loaded'[j] = gen
    BY <2>1, <2>4, <1>b
  <2> QED
    BY <2>1, <2>2, <2>5 DEF Jobs, Modified
<1>9. CASE PreserveJob
  <2>1. /\ pc = "starting" /\ pc' = pc /\ UNCHANGED <<backup, group, gen, touched, loaded, running>>
        /\ preserved \subseteq preserved'
    BY <1>9 DEF PreserveJob
  <2>2. Started' = Started
    BY <2>1, SameJobs
  <2> QED
    BY <2>1, <2>2 DEF Jobs, Modified
<1>10. CASE StartJob
  <2> DEFINE u == group.once[step]
  <2>1. /\ pc = "starting" /\ pc' \in {"starting", "quiescing"} /\ step \in 1 .. Len(group.once)
        /\ UNCHANGED <<backup, group, gen, loaded, preserved>> /\ touched' = Append(touched, u)
        /\ u \notin preserved /\ running[u] = None
        /\ running' \in {running, [running EXCEPT ![u] = loaded[u]]}
    BY <1>10, <1>b DEF StartJob
  <2>2. u \in Units /\ u \in Members(group.once)
    BY <2>1, <1>b, PassedFacts
  <2>3. Members(touched)' = Members(touched) \cup {u}
    BY <2>1, <2>2, <1>b, MembersAppend
  <2>4. Started' = Started \cup {u}
    BY <2>1, <2>2, <2>3 DEF Started
  <2>5. u \notin backup.active /\ loaded[u] = gen
    BY <2>1, <2>2 DEF Jobs
  <2>6. running'[u] \in {None, loaded[u]} /\ \A v \in Units \ {u} : running'[v] = running[v]
    BY <2>1, <2>2, <1>b DEF FileMaps
  <2>7. Started \subseteq Units
    BY <1>b DEF Started
  <2>8. \A j \in Started' : loaded'[j] = gen /\ running'[j] \in {None, gen}
    BY <2>1, <2>4, <2>5, <2>6, <2>7 DEF Jobs
  <2> QED
    BY <2>1, <2>4, <2>5, <2>8 DEF Jobs, Modified
<1>11. CASE JobsStarted
  <2>1. /\ pc = "starting" /\ pc' = "activating" /\ UNCHANGED <<backup, group, gen, touched, loaded, running>>
    BY <1>11 DEF JobsStarted
  <2>2. Started' = Started
    BY <2>1, SameJobs
  <2> QED
    BY <2>1, <2>2 DEF Jobs, Modified
<1>12. CASE ActivateUnit
  <2> DEFINE u == group.activate[step]
  <2>1. /\ pc = "activating" /\ pc' \in {"activating", "quiescing"} /\ step \in 1 .. Len(group.activate)
        /\ UNCHANGED <<backup, group, gen, loaded>> /\ touched' \in {touched, Append(touched, u)}
        /\ running' \in {running, [running EXCEPT ![u] = None], [running EXCEPT ![u] = loaded[u]]}
    BY <1>12, <1>b DEF ActivateUnit
  <2>2. u \in Units /\ u \in Members(group.activate)
    BY <2>1, <1>b, PassedFacts
  <2>3. Members(Append(touched, u)) = Members(touched) \cup {u}
    BY <2>2, <1>b, MembersAppend
  <2>4. Members(touched)' \in {Members(touched), Members(touched) \cup {u}}
    BY <2>1, <2>3
  <2>5. Started' = Started
    BY <2>1, <2>2, <2>4, <1>b DEF Started
  <2>6. \A v \in Units \ {u} : running'[v] = running[v]
    BY <2>1, <2>2, <1>b DEF FileMaps
  <2>7. \A j \in Started : running'[j] = running[j]
    BY <2>2, <2>6, <1>b DEF Started
  <2> QED
    BY <2>1, <2>5, <2>7 DEF Jobs, Modified
<1>13. CASE Succeed
  BY <1>13 DEF Succeed, Jobs, Modified
<1>14. CASE Fail
  <2>1. CASE pc \in {"staging", "validating"}
    BY <1>14, <2>1 DEF Fail, Jobs, Modified
  <2>2. CASE pc \notin {"staging", "validating"}
    <3>1. /\ UNCHANGED <<touched, group, gen, backup, loaded, preserved>> /\ pc \in Modified /\ pc' = "quiescing"
          /\ pc \notin {"rearming", "verifying"} /\ running' = running
      BY <1>14, <2>2 DEF Fail, Modified
    <3> QED
      BY <3>1, <1>c DEF Modified
  <2> QED
    BY <2>1, <2>2
<1>15. CASE PhaseLost
  <2>1. UNCHANGED <<touched, group, gen, backup, loaded, preserved, running, pc>> /\ Started' = Started
    BY <1>15, SameJobs DEF PhaseLost
  <2> QED
    BY <2>1 DEF Jobs
<1>16. CASE Quiesce
  <2> DEFINE u == RollbackUnits[step]
  <2>1. /\ UNCHANGED <<touched, group, gen, backup, loaded, preserved>> /\ pc = "quiescing" /\ pc' = pc
        /\ running' \in {running, [running EXCEPT ![u] = None]}
    BY <1>16 DEF Quiesce
  <2>2. \A j \in Units : running'[j] \in {running[j], None}
    BY <2>1, <1>b DEF FileMaps
  <2>3. Started \subseteq Units
    BY <1>b DEF Started
  <2> QED
    BY <2>1, <2>2, <2>3, <1>c DEF Modified
<1>17. CASE Quiesced
  <2>1. /\ UNCHANGED <<touched, group, gen, backup, loaded, preserved>> /\ pc \in Modified /\ pc' \in Modified
        /\ pc' \in {"stopping", "changing", "starting", "activating"} => pc' = pc
        /\ pc' \in {"quiescing", "restoring"} => pc \notin {"rearming", "verifying"}
        /\ running' = running
    BY <1>17 DEF Quiesced, Modified
  <2> QED
    BY <2>1, <1>c
<1>18. CASE RestoreFile
  <2>1. /\ UNCHANGED <<touched, group, gen, backup, loaded, preserved>> /\ pc \in Modified /\ pc' \in Modified
        /\ pc' \in {"stopping", "changing", "starting", "activating"} => pc' = pc
        /\ pc' \in {"quiescing", "restoring"} => pc \notin {"rearming", "verifying"}
        /\ running' = running
    BY <1>18 DEF RestoreFile, Modified
  <2> QED
    BY <2>1, <1>c
<1>19. CASE ReloadRestored
  <2>1. /\ UNCHANGED <<touched, group, backup>> /\ pc = "restoring" /\ pc' \in {"rearming", "verifying"}
    BY <1>19 DEF ReloadRestored
  <2>2. Started' = Started
    BY <2>1, SameJobs
  <2> QED
    BY <2>1, <2>2 DEF Jobs, Modified
<1>20. CASE Rearm
  <2>1. /\ UNCHANGED <<touched, group, backup>> /\ pc = "rearming" /\ pc' = pc
    BY <1>20 DEF Rearm
  <2>2. Started' = Started
    BY <2>1, SameJobs
  <2> QED
    BY <2>1, <2>2 DEF Jobs, Modified
<1>21. CASE Rearmed
  <2>1. /\ UNCHANGED <<touched, group, gen, backup, loaded, preserved>> /\ pc \in Modified /\ pc' \in Modified
        /\ pc' \in {"stopping", "changing", "starting", "activating"} => pc' = pc
        /\ pc' \in {"quiescing", "restoring"} => pc \notin {"rearming", "verifying"}
        /\ running' = running
    BY <1>21 DEF Rearmed, Modified
  <2> QED
    BY <2>1, <1>c
<1>22. CASE VerifyRestored
  <2>1. /\ UNCHANGED <<touched, group, gen, backup, loaded, preserved>> /\ pc \in Modified /\ pc' \in Modified
        /\ pc' \in {"stopping", "changing", "starting", "activating"} => pc' = pc
        /\ pc' \in {"quiescing", "restoring"} => pc \notin {"rearming", "verifying"}
        /\ running' = running
    BY <1>22 DEF VerifyRestored, Modified
  <2> QED
    BY <2>1, <1>c
<1>23. CASE Undone
  BY <1>23 DEF Undone, Jobs, Modified
<1>24. CASE Retain
  BY <1>24 DEF Retain, Jobs, Modified
<1>25. ASSUME NEW a \in Units, NEW u \in Units, Fire(a, u) PROVE Jobs'
  <2>1. UNCHANGED <<touched, group, gen, backup, loaded, preserved, pc>> /\ Started' = Started
    BY <1>25, SameJobs DEF Fire
  <2>2. running' = [running EXCEPT ![u] = loaded[u]]
    BY <1>25 DEF Fire
  <2>3. \A j \in Units : running'[j] \in {running[j], loaded[j]}
    BY <2>2, <1>b DEF FileMaps
  <2>4. Started \subseteq Units
    BY <1>b DEF Started
  <2>5. pc \in {"starting", "activating", "quiescing", "restoring"} => \A j \in Started : running'[j] \in {None, gen}
    BY <2>3, <2>4 DEF Jobs
  <2> QED
    BY <2>1, <2>5 DEF Jobs
<1>26. ASSUME NEW u \in Units, End(u) PROVE Jobs'
  <2>1. UNCHANGED <<touched, group, gen, backup, loaded, preserved, pc>> /\ Started' = Started
    BY <1>26, SameJobs DEF End
  <2>2. running' = [running EXCEPT ![u] = None]
    BY <1>26 DEF End
  <2>3. \A j \in Units : running'[j] \in {running[j], None}
    BY <2>2, <1>b DEF FileMaps
  <2>4. Started \subseteq Units
    BY <1>b DEF Started
  <2>5. pc \in {"starting", "activating", "quiescing", "restoring"} => \A j \in Started : running'[j] \in {None, gen}
    BY <2>3, <2>4 DEF Jobs
  <2> QED
    BY <2>1, <2>5 DEF Jobs
<1>27. CASE Die
  BY <1>27 DEF Die, Jobs, Modified
<1>28. CASE Reboot
  BY <1>28 DEF Reboot, Jobs, Modified
<1>29. CASE OperatorResolves
  BY <1>29 DEF OperatorResolves, Jobs, Modified
<1>30. CASE UNCHANGED vars
  <2>1. UNCHANGED <<touched, group, gen, backup, loaded, preserved, running, pc>> /\ Started' = Started
    BY <1>30, SameJobs DEF vars
  <2> QED
    BY <2>1 DEF Jobs
<1> QED
  BY <1>1, <1>2, <1>3, <1>4, <1>5, <1>6, <1>7, <1>8, <1>9, <1>10, <1>11, <1>12, <1>13, <1>14, <1>15, <1>16, <1>17, <1>18, <1>19, <1>20, <1>21, <1>22, <1>23, <1>24, <1>25, <1>26, <1>27, <1>28, <1>29, <1>30
     DEF Next, Operate, RollBack, Surroundings

(* What JobsLeftAlone says of a step.                                       *)
LeftAlone ==
  OperationStep /\ backup # None => \A j \in Members(group.once) :
    /\ running[j] \notin {None, gen} => running'[j] = running[j]
    /\ j \in backup.active /\ running[j] = None => running'[j] = None

LEMMA StepLeavesJobs == TypeOK /\ Marked /\ Jobs /\ [Next]_vars => LeftAlone
<1> SUFFICES ASSUME Typed, Marked, Jobs, [Next]_vars PROVE LeftAlone
  BY TypedIsTypeOK
<1> USE DEF disk, systemd, request, memory, Goto, Again, Return
<1>a. pc \in Modified \cup {"validating"} => backup # None
  BY DEF Marked
<1>b. /\ Stops \in Seq(Units) /\ RollbackUnits \in Seq(Units) /\ touched \in Seq(Units)
      /\ group.activate \in Seq(Units) /\ group.once \in Seq(Units) /\ step \in Nat \ {0}
      /\ Members(RollbackUnits) = Members(touched) \cup Members(group.activate)
      /\ Members(group.once) \cap (Members(group.activate) \cup Members(Stops)) = {}
      /\ Members(group.once) \subseteq Members(group.write)
      /\ Members(group.write) \subseteq Units
      /\ running \in FileMaps /\ loaded \in FileMaps
  BY GroupFacts DEF Typed
<1>c. running' = running => LeftAlone
  BY DEF LeftAlone
<1>d. ASSUME NEW u \in Units, u \notin Members(group.once), \A v \in Units \ {u} : running'[v] = running[v]
      PROVE  LeftAlone
  BY <1>b, <1>d DEF LeftAlone
<1>1. ASSUME NEW g \in Groups, Begin(g) PROVE LeftAlone
  BY <1>1, <1>c DEF Begin
<1>2. CASE Snapshot
  BY <1>2, <1>c DEF Snapshot
<1>3. CASE NothingToDo
  BY <1>3, <1>c DEF NothingToDo
<1>4. CASE Validate
  BY <1>4, <1>c DEF Validate
<1>5. CASE StopUnit
  <2> DEFINE u == Stops[step]
  <2>1. step \in 1 .. Len(Stops) /\ running' \in {running, [running EXCEPT ![u] = None]}
    BY <1>5, <1>b DEF StopUnit
  <2>2. u \in Units /\ u \in Members(Stops)
    BY <2>1, <1>b, PassedFacts
  <2>3. \A v \in Units \ {u} : running'[v] = running[v]
    BY <2>1, <2>2, <1>b DEF FileMaps
  <2> QED
    BY <2>2, <2>3, <1>b, <1>d
<1>6. CASE ObserveJobs
  BY <1>6, <1>c DEF ObserveJobs
<1>7. CASE ChangeFile
  BY <1>7, <1>c DEF ChangeFile
<1>8. CASE Reload
  BY <1>8, <1>c DEF Reload
<1>9. CASE PreserveJob
  BY <1>9, <1>c DEF PreserveJob
<1>10. CASE StartJob
  <2> DEFINE u == group.once[step]
  <2>1. /\ pc = "starting" /\ step \in 1 .. Len(group.once) /\ u \notin preserved /\ running[u] = None
        /\ running' \in {running, [running EXCEPT ![u] = loaded[u]]}
    BY <1>10, <1>b DEF StartJob
  <2>2. u \in Units /\ u \in Members(group.once)
    BY <2>1, <1>b, PassedFacts
  <2>3. \A v \in Units \ {u} : running'[v] = running[v]
    BY <2>1, <2>2, <1>b DEF FileMaps
  <2>4. u \notin backup.active
    BY <2>1, <2>2 DEF Jobs
  <2> QED
    BY <2>1, <2>3, <2>4, <1>b DEF LeftAlone
<1>11. CASE JobsStarted
  BY <1>11, <1>c DEF JobsStarted
<1>12. CASE ActivateUnit
  <2> DEFINE u == group.activate[step]
  <2>1. /\ step \in 1 .. Len(group.activate)
        /\ running' \in {running, [running EXCEPT ![u] = None], [running EXCEPT ![u] = loaded[u]]}
    BY <1>12, <1>b DEF ActivateUnit
  <2>2. u \in Units /\ u \in Members(group.activate)
    BY <2>1, <1>b, PassedFacts
  <2>3. \A v \in Units \ {u} : running'[v] = running[v]
    BY <2>1, <2>2, <1>b DEF FileMaps
  <2> QED
    BY <2>2, <2>3, <1>b, <1>d
<1>13. CASE Succeed
  BY <1>13, <1>c DEF Succeed
<1>14. CASE Fail
  BY <1>14, <1>c DEF Fail
<1>15. CASE PhaseLost
  BY <1>15, <1>c DEF PhaseLost
<1>16. CASE Quiesce
  <2> DEFINE u == RollbackUnits[step]
  <2>1. /\ pc = "quiescing" /\ step \in 1 .. Len(RollbackUnits)
        /\ running' \in {running, [running EXCEPT ![u] = None]}
    BY <1>16, <1>b DEF Quiesce
  <2>2. u \in Units /\ u \in Members(touched) \cup Members(group.activate)
    BY <2>1, <1>b, PassedFacts
  <2>3. /\ \A v \in Units \ {u} : running'[v] = running[v]
        /\ running'[u] \in {None, running[u]}
    BY <2>1, <2>2, <1>b DEF FileMaps
  <2>4. u \in Members(group.once) => running[u] \in {None, gen}
    BY <2>1, <2>2, <1>b DEF Jobs, Started
  <2> QED
    BY <2>3, <2>4, <1>b DEF LeftAlone
<1>17. CASE Quiesced
  BY <1>17, <1>c DEF Quiesced
<1>18. CASE RestoreFile
  BY <1>18, <1>c DEF RestoreFile
<1>19. CASE ReloadRestored
  BY <1>19, <1>c DEF ReloadRestored
<1>20. CASE Rearm
  <2> DEFINE u == RollbackUnits[RestoredLast(step)]
             up == IF u \in backup.active THEN [running EXCEPT ![u] = loaded[u]] ELSE running
  <2>1. pc = "rearming" /\ step \in 1 .. Len(RollbackUnits)
    BY <1>20, <1>b DEF Rearm
  <2>6. \/ running' \in {running, up}
        \/ u \in backup.active /\ running' = [running EXCEPT ![u] = None]
    BY <1>20 DEF Rearm
  <2>2. RestoredLast(step) \in 1 .. Len(RollbackUnits)
    BY <2>1 DEF RestoredLast
  <2>3. u \in Units /\ u \in Members(touched) \cup Members(group.activate)
    BY <2>2, <1>b, PassedFacts
  <2>4. CASE running' = running
    BY <2>4, <1>c
  <2>5. CASE running' # running
    <3>1. u \in backup.active /\ \A v \in Units \ {u} : running'[v] = running[v]
      BY <2>6, <2>3, <2>5, <1>b DEF FileMaps
    <3>2. u \notin Members(group.once)
      BY <2>1, <2>3, <3>1, <1>b DEF Jobs, Started, Modified
    <3> QED
      BY <2>3, <3>1, <3>2, <1>d
  <2> QED
    BY <2>4, <2>5
<1>21. CASE Rearmed
  BY <1>21, <1>c DEF Rearmed
<1>22. CASE VerifyRestored
  BY <1>22, <1>c DEF VerifyRestored
<1>23. CASE Undone
  BY <1>23, <1>c DEF Undone
<1>24. CASE Retain
  BY <1>24, <1>c DEF Retain
<1>25. ASSUME NEW a \in Units, NEW u \in Units, Fire(a, u) PROVE LeftAlone
  BY <1>25 DEF Fire, LeftAlone, OperationStep
<1>26. ASSUME NEW u \in Units, End(u) PROVE LeftAlone
  BY <1>26 DEF End, LeftAlone, OperationStep
<1>27. CASE Die
  BY <1>27 DEF Die, LeftAlone, OperationStep
<1>28. CASE Reboot
  BY <1>28 DEF Reboot, LeftAlone, OperationStep
<1>29. CASE OperatorResolves
  BY <1>29 DEF OperatorResolves, LeftAlone, OperationStep
<1>30. CASE UNCHANGED vars
  BY <1>30, <1>c DEF vars
<1> QED
  BY <1>1, <1>2, <1>3, <1>4, <1>5, <1>6, <1>7, <1>8, <1>9, <1>10, <1>11, <1>12, <1>13, <1>14, <1>15, <1>16, <1>17, <1>18, <1>19, <1>20, <1>21, <1>22, <1>23, <1>24, <1>25, <1>26, <1>27, <1>28, <1>29, <1>30
     DEF Next, Operate, RollBack, Surroundings

(* A job that ran before the operation is neither stopped nor started by it, *)
(* in the operation and in its rollback (start_once of _reconcile_units).    *)
THEOREM RunningJobsLeftAlone == Spec => JobsLeftAlone
<1>1. Init => IInv /\ Jobs
  BY InitInvariant DEF Init, Jobs, Modified
<1>2. IInv /\ Jobs /\ [Next]_vars => (IInv /\ Jobs)' /\ LeftAlone
  BY StepInvariant, StepJobs, StepLeavesJobs DEF IInv
<1>3. JobsLeftAlone <=> [][LeftAlone]_vars
  BY DEF JobsLeftAlone, LeftAlone
<1> QED
  BY <1>1, <1>2, <1>3, PTL DEF Spec

-----------------------------------------------------------------------------
(* Who wrote the definitions that run.                                      *)

(* Definitions are numbered in their order, and the originals are older than *)
(* the operation that keeps them.                                           *)
Older    == {d \in Definitions : d < gen} \cup {None}
Numbered == {d \in Definitions : d <= gen} \cup {None}

Dated ==
  /\ \A u \in Units : files[u] \in Numbered /\ loaded[u] \in Numbered /\ running[u] \in Numbered
  /\ pc = "staging" => \A u \in Units : files[u] \in Older
  /\ backup # None => \A u \in Units : backup.files[u] \in Older

(* Where systemd has loaded what is on disk.                                *)
Loaded ==
  /\ marker = None => loaded = files
  /\ pc \in {"staging", "validating", "unmodified", "stopping", "starting", "activating", "rearming"} =>
       loaded = files
  /\ pc = "verifying" /\ ~faults => loaded = files

(* Positions of the rollback whose units were restarted if they had run, or   *)
(* else were looked at.                                                     *)
Rearmings(n) == {m \in 1 .. Len(RollbackUnits) : m < n /\ ~Repeated(RestoredLast(m))}

Restarted(n) == {RollbackUnits[RestoredLast(m)] : m \in Rearmings(n)}

Expelled ==
  /\ pc = "rearming" /\ ~faults => \A u \in Restarted(step) \cap backup.active : running[u] # gen
  /\ pc = "verifying" /\ ~faults =>
       /\ \A u \in Members(RollbackUnits) \cap backup.active : running[u] # gen
       /\ \A u \in Passed(RollbackUnits, step) : running[u] # gen

LEMMA NumberFacts ==
  ASSUME Typed
  PROVE  /\ Older \subseteq Numbered /\ Numbered \subseteq Definitions \cup {None}
         /\ gen \in Numbered /\ gen \notin Older /\ None \in Older /\ None # gen
BY GroupsAssumption DEF Typed, Definitions, Older, Numbered

LEMMA LaterNumbers ==
  ASSUME Typed, gen' = gen + 1, gen' \in 0 .. MaxOps
  PROVE  Numbered = Older' /\ Numbered \subseteq Numbered'
BY DEF Typed, Definitions, Older, Numbered

(* What runs after a command or a step of systemd ran before or was loaded.  *)
Ran == \A v \in Units : running'[v] \in {running[v], None, loaded[v]}

LEMMA RanFacts ==
  ASSUME Typed
  PROVE  /\ running' = running => Ran
         /\ \A u \in Units : running' = [running EXCEPT ![u] = None] => Ran
         /\ \A u \in Units : running' = [running EXCEPT ![u] = loaded[u]] => Ran
BY DEF Typed, FileMaps, Ran

LEMMA DatedKept ==
  ASSUME Typed, Dated, gen' = gen, backup' \in {backup, None},
         \/ pc' # "staging"
         \/ pc' = pc /\ files' = files,
         Ran, loaded' \in {loaded, files}, \A v \in Units : files'[v] \in Numbered
  PROVE  Dated'
<1>1. Older' = Older /\ Numbered' = Numbered
  BY DEF Older, Numbered
<1>2. \A v \in Units : loaded'[v] \in Numbered /\ running'[v] \in Numbered
  BY NumberFacts DEF Dated, Ran
<1> QED
  BY <1>1, <1>2 DEF Dated

LEMMA RearmRan ==
  ASSUME Typed, Rearm
  PROVE  Ran
<1> DEFINE u  == RollbackUnits[RestoredLast(step)]
           up == IF u \in backup.active THEN [running EXCEPT ![u] = loaded[u]] ELSE running
<1>1. pc = "rearming" /\ step <= Len(RollbackUnits)
  BY DEF Rearm
<1>2. running' \in {running, up} \/ running' = [running EXCEPT ![u] = None]
  BY DEF Rearm
<1>3. RollbackUnits \in Seq(Units) /\ Len(RollbackUnits) \in Nat /\ step \in 1 .. Len(RollbackUnits)
  BY <1>1, GroupFacts DEF Typed
<1>4. RestoredLast(step) \in 1 .. Len(RollbackUnits)
  BY <1>3 DEF RestoredLast
<1>5. u \in Units
  BY <1>3, <1>4, PassedFacts
<1> QED
  BY <1>2, <1>5, RanFacts

LEMMA StepDated == TypeOK /\ Marked /\ Dated /\ [Next]_vars => Dated'
<1> SUFFICES ASSUME Typed, Marked, Dated, [Next]_vars PROVE Dated'
  BY TypedIsTypeOK
<1> USE DEF disk, systemd, request, memory, Goto, Again, Return
<1>a. pc \in Modified \cup {"validating"} => backup # None
  BY DEF Marked
<1>b. /\ Stops \in Seq(Units) /\ Changes \in Seq(Units) /\ RollbackUnits \in Seq(Units)
      /\ group.activate \in Seq(Units) /\ group.once \in Seq(Units) /\ step \in Nat \ {0}
      /\ running \in FileMaps /\ loaded \in FileMaps /\ files \in FileMaps
  BY GroupFacts DEF Typed
<1>c. \A v \in Units : files[v] \in Numbered /\ loaded[v] \in Numbered /\ running[v] \in Numbered
  BY DEF Dated
(* Steps that stop and start units, or none.                                *)
<1>d. ASSUME UNCHANGED <<files, gen>>, backup' \in {backup, None}, loaded' \in {loaded, files},
             pc' # "staging" \/ pc' = pc, Ran
      PROVE  Dated'
  BY <1>c, <1>d, DatedKept
<1>e. ASSUME UNCHANGED <<files, gen, running>>, backup' \in {backup, None}, loaded' \in {loaded, files},
             pc' # "staging" \/ pc' = pc
      PROVE  Dated'
  BY <1>d, <1>e, RanFacts
(* Steps that change files.                                                 *)
<1>f. ASSUME UNCHANGED <<gen, running, loaded, backup>>, pc' # "staging",
             NEW u \in Units, NEW d \in Numbered, files' \in {files, [files EXCEPT ![u] = d]}
      PROVE  Dated'
  <2>1. \A v \in Units : files'[v] \in Numbered
    BY <1>b, <1>c, <1>f DEF FileMaps
  <2> QED
    BY <1>f, <2>1, RanFacts, DatedKept
<1>1. ASSUME NEW g \in Groups, Begin(g) PROVE Dated'
  <2>1. /\ gen' = gen + 1 /\ gen < MaxOps /\ marker = None
        /\ UNCHANGED <<files, loaded, running, backup>>
    BY <1>1 DEF Begin
  <2>2. gen' \in 0 .. MaxOps /\ backup' = None
    BY <2>1, GroupsAssumption DEF Typed, Marked
  <2>3. Numbered = Older' /\ Numbered \subseteq Numbered'
    BY <2>1, <2>2, LaterNumbers
  <2> QED
    BY <1>c, <2>1, <2>2, <2>3 DEF Dated
<1>2. CASE Snapshot
  <2>1. /\ UNCHANGED <<files, loaded, running, gen>> /\ pc = "staging" /\ pc' = "validating"
        /\ backup'.files = files
    BY <1>2 DEF Snapshot
  <2>2. Older' = Older /\ Numbered' = Numbered
    BY <2>1 DEF Older, Numbered
  <2> QED
    BY <2>1, <2>2 DEF Dated
<1>3. CASE NothingToDo
  BY <1>3, <1>e DEF NothingToDo
<1>4. CASE Validate
  BY <1>4, <1>e DEF Validate
<1>5. CASE StopUnit
  <2> DEFINE u == Stops[step]
  <2>1. /\ step \in 1 .. Len(Stops) /\ running' \in {running, [running EXCEPT ![u] = None]}
        /\ UNCHANGED <<files, gen, backup, loaded>> /\ pc' # "staging"
    BY <1>5, <1>b DEF StopUnit
  <2>2. u \in Units
    BY <2>1, <1>b, PassedFacts
  <2>3. Ran
    BY <2>1, <2>2, RanFacts
  <2> QED
    BY <2>1, <2>3, <1>d
<1>6. CASE ObserveJobs
  BY <1>6, <1>e DEF ObserveJobs
<1>7. CASE ChangeFile
  <2> DEFINE u == Changes[step]
             d == IF u \in Members(group.write) THEN gen ELSE None
  <2>1. /\ step \in 1 .. Len(Changes) /\ files' = [files EXCEPT ![u] = d]
        /\ UNCHANGED <<gen, running, loaded, backup>> /\ pc' # "staging"
    BY <1>7, <1>b DEF ChangeFile
  <2>2. u \in Units
    BY <2>1, <1>b, PassedFacts
  <2>3. d \in Numbered
    BY NumberFacts
  <2> QED
    BY <2>1, <2>2, <2>3, <1>f
<1>8. CASE Reload
  BY <1>8, <1>e DEF Reload
<1>9. CASE PreserveJob
  BY <1>9, <1>e DEF PreserveJob
<1>10. CASE StartJob
  <2> DEFINE u == group.once[step]
  <2>1. /\ step \in 1 .. Len(group.once) /\ running' \in {running, [running EXCEPT ![u] = loaded[u]]}
        /\ UNCHANGED <<files, gen, backup, loaded>> /\ pc' # "staging"
    BY <1>10, <1>b DEF StartJob
  <2>2. u \in Units
    BY <2>1, <1>b, PassedFacts
  <2>3. Ran
    BY <2>1, <2>2, RanFacts
  <2> QED
    BY <2>1, <2>3, <1>d
<1>11. CASE JobsStarted
  BY <1>11, <1>e DEF JobsStarted
<1>12. CASE ActivateUnit
  <2> DEFINE u == group.activate[step]
  <2>1. /\ step \in 1 .. Len(group.activate)
        /\ running' \in {running, [running EXCEPT ![u] = None], [running EXCEPT ![u] = loaded[u]]}
        /\ UNCHANGED <<files, gen, backup, loaded>> /\ pc' # "staging"
    BY <1>12, <1>b DEF ActivateUnit
  <2>2. u \in Units
    BY <2>1, <1>b, PassedFacts
  <2>3. Ran
    BY <2>1, <2>2, RanFacts
  <2> QED
    BY <2>1, <2>3, <1>d
<1>13. CASE Succeed
  BY <1>13, <1>e DEF Succeed
<1>14. CASE Fail
  BY <1>14, <1>e DEF Fail
<1>15. CASE PhaseLost
  BY <1>15, <1>e DEF PhaseLost
<1>16. CASE Quiesce
  <2> DEFINE u == RollbackUnits[step]
  <2>1. /\ step \in 1 .. Len(RollbackUnits) /\ running' \in {running, [running EXCEPT ![u] = None]}
        /\ UNCHANGED <<files, gen, backup, loaded, pc>>
    BY <1>16, <1>b DEF Quiesce
  <2>2. u \in Units
    BY <2>1, <1>b, PassedFacts
  <2>3. Ran
    BY <2>1, <2>2, RanFacts
  <2> QED
    BY <2>1, <2>3, <1>d
<1>17. CASE Quiesced
  BY <1>17, <1>e DEF Quiesced
<1>18. CASE RestoreFile
  <2> DEFINE u == Changes[step]
             d == backup.files[u]
  <2>1. /\ step \in 1 .. Len(Changes) /\ files' \in {files, [files EXCEPT ![u] = d]}
        /\ UNCHANGED <<gen, running, loaded, backup>> /\ pc = "restoring" /\ pc' = pc
    BY <1>18, <1>b DEF RestoreFile
  <2>2. u \in Units
    BY <2>1, <1>b, PassedFacts
  <2>3. d \in Numbered
    BY <2>1, <2>2, <1>a, NumberFacts DEF Dated, Modified
  <2>4. pc' # "staging"
    BY <2>1
  <2> QED
    BY <2>1, <2>2, <2>3, <2>4, <1>f
<1>19. CASE ReloadRestored
  BY <1>19, <1>e DEF ReloadRestored
<1>20. CASE Rearm
  <2>1. /\ pc = "rearming" /\ pc' = pc /\ UNCHANGED <<files, gen, backup, loaded>>
    BY <1>20 DEF Rearm
  <2>2. Ran
    BY <1>20, RearmRan
  <2> QED
    BY <2>1, <2>2, <1>d
<1>21. CASE Rearmed
  BY <1>21, <1>e DEF Rearmed
<1>22. CASE VerifyRestored
  BY <1>22, <1>e DEF VerifyRestored
<1>23. CASE Undone
  BY <1>23, <1>e DEF Undone
<1>24. CASE Retain
  BY <1>24, <1>e DEF Retain
<1>25. ASSUME NEW a \in Units, NEW u \in Units, Fire(a, u) PROVE Dated'
  BY <1>25, <1>d, RanFacts DEF Fire
<1>26. ASSUME NEW u \in Units, End(u) PROVE Dated'
  BY <1>26, <1>d, RanFacts DEF End
<1>27. CASE Die
  BY <1>27, <1>e DEF Die
<1>28. CASE Reboot
  <2>1. /\ pc' = "idle" /\ UNCHANGED <<files, gen, backup>> /\ loaded' = files
        /\ running' = Booted(files, enabled)
    BY <1>28 DEF Reboot
  <2>2. Older' = Older /\ Numbered' = Numbered
    BY <2>1 DEF Older, Numbered
  <2>3. \A v \in Units : running'[v] \in Numbered
    BY <1>c, <2>1, NumberFacts DEF Booted
  <2> QED
    BY <1>c, <2>1, <2>2, <2>3 DEF Dated
<1>29. CASE OperatorResolves
  <2> DEFINE f == IF backup = None THEN files ELSE backup.files
  <2>1. /\ files' = f \/ files' = Target(f)
        /\ loaded' = files' /\ running' = Booted(files', enabled')
        /\ pc' = "idle" /\ gen' = gen /\ backup' = None
    BY <1>29 DEF OperatorResolves
  <2>2. Older' = Older /\ Numbered' = Numbered
    BY <2>1 DEF Older, Numbered
  <2>3. \A v \in Units : f[v] \in Numbered
    BY <1>c, NumberFacts DEF Dated
  <2>4. \A v \in Units : Target(f)[v] \in {gen, None, f[v]}
    BY DEF Target
  <2>5. \A v \in Units : files'[v] \in Numbered
    BY <2>1, <2>3, <2>4, NumberFacts
  <2>6. \A v \in Units : running'[v] \in {files'[v], None}
    BY <2>1 DEF Booted
  <2>7. \A v \in Units : loaded'[v] \in Numbered /\ running'[v] \in Numbered
    BY <2>1, <2>5, <2>6, NumberFacts
  <2> QED
    BY <2>1, <2>2, <2>5, <2>7 DEF Dated
<1>30. CASE UNCHANGED vars
  BY <1>30, <1>e DEF vars
<1> QED
  BY <1>1, <1>2, <1>3, <1>4, <1>5, <1>6, <1>7, <1>8, <1>9, <1>10, <1>11, <1>12, <1>13, <1>14, <1>15, <1>16, <1>17, <1>18, <1>19, <1>20, <1>21, <1>22, <1>23, <1>24, <1>25, <1>26, <1>27, <1>28, <1>29, <1>30
     DEF Next, Operate, RollBack, Surroundings

(* The positions at which the files are loaded.                             *)
Synced == {"staging", "validating", "unmodified", "stopping", "starting", "activating", "rearming"}

LEMMA StepLoaded == TypeOK /\ Marked /\ Restored /\ Loaded /\ [Next]_vars => Loaded'
<1> SUFFICES ASSUME Typed, Marked, Restored, Loaded, [Next]_vars PROVE Loaded'
  BY TypedIsTypeOK
<1> USE DEF disk, systemd, request, memory, Goto, Again, Return
<1>a. /\ pc # "idle" => marker # None
      /\ None \notin {"in_progress", "recovery_required"}
  BY GroupsAssumption DEF Marked
<1>b. ~sound => faults
  BY DEF Restored
(* Steps that leave them equal, ...                                         *)
<1>c. ASSUME loaded' = files' PROVE Loaded'
  BY <1>c DEF Loaded
(* ... and others, in the middle of the operation.                          *)
<1>d. ASSUME marker' = marker, pc # "idle", pc' \notin Synced, pc' = "verifying" => faults' PROVE Loaded'
  BY <1>a, <1>d DEF Loaded, Synced
<1>e. pc \in Synced => loaded = files
  BY DEF Loaded, Synced
<1>1. ASSUME NEW g \in Groups, Begin(g) PROVE Loaded'
  <2>1. marker = None /\ UNCHANGED <<files, loaded>>
    BY <1>1 DEF Begin
  <2> QED
    BY <2>1, <1>c DEF Loaded
<1>2. CASE Snapshot
  BY <1>2, <1>c, <1>e DEF Snapshot, Synced
<1>3. CASE NothingToDo
  BY <1>3, <1>c, <1>e DEF NothingToDo, Synced
<1>4. CASE Validate
  BY <1>4, <1>c, <1>e DEF Validate, Synced
<1>5. CASE StopUnit
  BY <1>5, <1>c, <1>e DEF StopUnit, Synced
<1>6. CASE ObserveJobs
  BY <1>6, <1>d DEF ObserveJobs, Synced
<1>7. CASE ChangeFile
  BY <1>7, <1>d DEF ChangeFile, Synced
<1>8. CASE Reload
  BY <1>8, <1>c DEF Reload
<1>9. CASE PreserveJob
  BY <1>9, <1>c, <1>e DEF PreserveJob, Synced
<1>10. CASE StartJob
  BY <1>10, <1>c, <1>e DEF StartJob, Synced
<1>11. CASE JobsStarted
  BY <1>11, <1>c, <1>e DEF JobsStarted, Synced
<1>12. CASE ActivateUnit
  BY <1>12, <1>c, <1>e DEF ActivateUnit, Synced
<1>13. CASE Succeed
  BY <1>13, <1>c, <1>e DEF Succeed, Synced
<1>14. CASE Fail
  <2>1. CASE pc' = "unmodified"
    BY <1>14, <2>1, <1>c, <1>e DEF Fail, Synced
  <2>2. CASE pc' # "unmodified"
    BY <1>14, <2>2, <1>d DEF Fail, Synced
  <2> QED
    BY <2>1, <2>2
<1>15. CASE PhaseLost
  <2>1. CASE pc = "unmodified"
    BY <1>15, <2>1, <1>c, <1>e DEF PhaseLost, Synced
  <2>2. CASE pc # "unmodified"
    BY <1>15, <2>2, <1>d DEF PhaseLost, Synced
  <2> QED
    BY <2>1, <2>2
<1>16. CASE Quiesce
  BY <1>16, <1>d DEF Quiesce, Synced
<1>17. CASE Quiesced
  BY <1>17, <1>b, <1>d DEF Quiesced, Synced
<1>18. CASE RestoreFile
  BY <1>18, <1>d DEF RestoreFile, Synced
<1>19. CASE ReloadRestored
  <2>1. CASE loaded' = files
    BY <1>19, <2>1, <1>c DEF ReloadRestored
  <2>2. CASE loaded' # files
    BY <1>19, <2>2, <1>d DEF ReloadRestored, Synced
  <2> QED
    BY <2>1, <2>2
<1>20. CASE Rearm
  BY <1>20, <1>c, <1>e DEF Rearm, Synced
<1>21. CASE Rearmed
  BY <1>21, <1>c, <1>e DEF Rearmed, Synced
<1>22. CASE VerifyRestored
  <2>1. pc = "verifying" /\ pc' = pc /\ UNCHANGED <<files, loaded, marker>>
    BY <1>22 DEF VerifyRestored
  <2>2. faults => faults'
    BY <1>22 DEF VerifyRestored
  <2>3. CASE faults
    BY <2>1, <2>2, <2>3, <1>d DEF Synced
  <2>4. CASE ~faults
    BY <2>1, <2>4, <1>c DEF Loaded
  <2> QED
    BY <2>3, <2>4
<1>23. CASE Undone
  BY <1>23, <1>c DEF Undone, Ended, Loaded
<1>24. CASE Retain
  <2>1. pc # "idle" /\ marker' # None /\ pc' = "idle"
    BY <1>24, <1>a DEF Retain, Ended
  <2> QED
    BY <2>1 DEF Loaded
<1>25. ASSUME NEW a \in Units, NEW u \in Units, Fire(a, u) PROVE Loaded'
  BY <1>25 DEF Fire, Loaded
<1>26. ASSUME NEW u \in Units, End(u) PROVE Loaded'
  BY <1>26 DEF End, Loaded
<1>27. CASE Die
  BY <1>27, <1>d DEF Die, Synced
<1>28. CASE Reboot
  BY <1>28, <1>c DEF Reboot
<1>29. CASE OperatorResolves
  BY <1>29, <1>c DEF OperatorResolves
<1>30. CASE UNCHANGED vars
  BY <1>30 DEF vars, Loaded
<1> QED
  BY <1>1, <1>2, <1>3, <1>4, <1>5, <1>6, <1>7, <1>8, <1>9, <1>10, <1>11, <1>12, <1>13, <1>14, <1>15, <1>16, <1>17, <1>18, <1>19, <1>20, <1>21, <1>22, <1>23, <1>24, <1>25, <1>26, <1>27, <1>28, <1>29, <1>30
     DEF Next, Operate, RollBack, Surroundings

(* After the rollback has reloaded, nothing loaded is of the operation.      *)
LEMMA NothingNewLoaded ==
  ASSUME Typed, Marked, Restored, Dated, Loaded, pc = "rearming" \/ (pc = "verifying" /\ ~faults)
  PROVE  backup # None /\ \A v \in Units : loaded[v] # gen
<1>1. loaded = files /\ files = backup.files /\ backup # None
  BY DEF Loaded, Restored, Marked, Modified
<1>2. \A v \in Units : backup.files[v] \in Older
  BY <1>1 DEF Dated
<1> QED
  BY <1>1, <1>2, NumberFacts

(* The rearming begins with nothing, goes one unit at a time, and ends when   *)
(* every unit of the rollback had its turn.                                 *)
LEMMA RestartedFacts ==
  ASSUME Typed
  PROVE  /\ Restarted(1) = {}
         /\ \A n \in 1 .. Len(RollbackUnits) :
              Restarted(n + 1) \subseteq
                Restarted(n) \cup (IF Repeated(RestoredLast(n)) THEN {} ELSE {RollbackUnits[RestoredLast(n)]})
         /\ \A n \in Nat : n > Len(RollbackUnits) => Members(RollbackUnits) \subseteq Restarted(n)
         /\ \A n \in Nat : Restarted(n) \subseteq Units
<1>1. /\ RollbackUnits \in Seq(Units) /\ Len(RollbackUnits) \in Nat
      /\ DOMAIN RollbackUnits = 1 .. Len(RollbackUnits)
      /\ touched \in Seq(Units) /\ Len(touched) \in Nat
  BY GroupFacts DEF Typed
<1>2. Restarted(1) = {}
  BY DEF Restarted, Rearmings
<1>3. ASSUME NEW n \in 1 .. Len(RollbackUnits), NEW u \in Restarted(n + 1), u \notin Restarted(n)
      PROVE  ~Repeated(RestoredLast(n)) /\ u = RollbackUnits[RestoredLast(n)]
  <2>1. PICK m \in Rearmings(n + 1) : u = RollbackUnits[RestoredLast(m)]
    BY <1>3 DEF Restarted
  <2>2. m \in 1 .. Len(RollbackUnits) /\ m < n + 1 /\ ~Repeated(RestoredLast(m))
    BY <2>1 DEF Rearmings
  <2>3. m \notin Rearmings(n)
    BY <1>3, <2>1 DEF Restarted
  <2>4. m = n
    BY <2>2, <2>3, <1>1 DEF Rearmings
  <2> QED
    BY <2>1, <2>2, <2>4
<1>4. ASSUME NEW n \in Nat, n > Len(RollbackUnits), NEW u \in Members(RollbackUnits)
      PROVE  u \in Restarted(n)
  <2>1. \E k \in 1 .. Len(RollbackUnits) : RollbackUnits[k] = u /\ ~Repeated(k)
    <3>1. PICK k \in 1 .. Len(RollbackUnits) : RollbackUnits[k] = u
      BY <1>1, <1>4 DEF Members
    <3>2. CASE Repeated(k)
      <4>1. PICK j \in DOMAIN touched : touched[j] = u
        BY <3>1, <3>2 DEF Repeated, Members
      <4>2. j \in 1 .. Len(touched) /\ k > Len(touched)
        BY <4>1, <3>2, <1>1 DEF Repeated
      <4>3. group.activate \in Seq(Units)
        BY GroupFacts
      <4>4. RollbackUnits[j] = u
        BY <4>1, <4>2, <4>3, <1>1 DEF RollbackUnits
      <4>5. j \in 1 .. Len(RollbackUnits) /\ ~Repeated(j)
        BY <4>2, <3>1, <1>1 DEF Repeated
      <4> QED
        BY <4>4, <4>5
    <3> QED
      BY <3>1, <3>2
  <2>2. PICK k \in 1 .. Len(RollbackUnits) : RollbackUnits[k] = u /\ ~Repeated(k)
    BY <2>1
  <2>3. PICK m \in 1 .. Len(RollbackUnits) : RestoredLast(m) = k
    <3>1. Len(RollbackUnits) + 1 - k \in 1 .. Len(RollbackUnits)
      BY <2>2, <1>1
    <3>2. Len(RollbackUnits) + 1 - (Len(RollbackUnits) + 1 - k) = k
      BY <2>2, <1>1
    <3> QED
      BY <2>2, <3>1, <3>2 DEF RestoredLast
  <2>4. m \in Rearmings(n)
    BY <2>2, <2>3, <1>1, <1>4 DEF Rearmings
  <2> QED
    BY <2>2, <2>3, <2>4 DEF Restarted
<1>5. ASSUME NEW n \in Nat, NEW m \in Rearmings(n) PROVE RollbackUnits[RestoredLast(m)] \in Units
  <2>1. m \in 1 .. Len(RollbackUnits)
    BY DEF Rearmings
  <2>2. RestoredLast(m) \in 1 .. Len(RollbackUnits)
    BY <2>1, <1>1 DEF RestoredLast
  <2> QED
    BY <2>2, <1>1, PassedFacts
<1>6. \A n \in Nat : Restarted(n) \subseteq Units
  BY <1>5 DEF Restarted
<1> QED
  BY <1>2, <1>3, <1>4, <1>6

LEMMA SameRestarted ==
  ASSUME UNCHANGED <<touched, group, backup>>
  PROVE  /\ RollbackUnits' = RollbackUnits
         /\ step' = step => Restarted(step)' = Restarted(step)
         /\ step' = step + 1 => Restarted(step)' = Restarted(step + 1)
<1>1. RollbackUnits' = RollbackUnits
  BY DEF RollbackUnits
<1>2. \A n : RestoredLast(n)' = RestoredLast(n) /\ Repeated(n)' = Repeated(n)
  BY <1>1 DEF RestoredLast, Repeated, Stops, Known
<1> QED
  BY <1>1, <1>2 DEF Restarted, Rearmings

LEMMA StepExpelled ==
  TypeOK /\ Marked /\ Restored /\ Dated /\ Loaded /\ Expelled /\ [Next]_vars => Expelled'
<1> SUFFICES ASSUME Typed, Marked, Restored, Dated, Loaded, Expelled, [Next]_vars PROVE Expelled'
  BY TypedIsTypeOK
<1> USE DEF disk, systemd, request, memory, Goto, Again, Return
<1>a. /\ RollbackUnits \in Seq(Units) /\ Len(RollbackUnits) \in Nat /\ step \in Nat \ {0}
      /\ running \in FileMaps /\ Members(RollbackUnits) \subseteq Units
      /\ Passed(RollbackUnits, step) \subseteq Units
  <2>1. RollbackUnits \in Seq(Units) /\ step \in Nat
    BY GroupFacts DEF Typed
  <2>2. Members(RollbackUnits) \subseteq Units
    BY <2>1, MembersConcat
  <2>3. Passed(RollbackUnits, step) \subseteq Members(RollbackUnits)
    BY <2>1, PassedFacts
  <2> QED
    BY <2>1, <2>2, <2>3 DEF Typed
<1>b. ~sound => faults
  BY DEF Restored
<1>c. pc' \notin {"rearming", "verifying"} => Expelled'
  BY DEF Expelled
(* What runs is of the operation only if it ran before.                     *)
<1>d. ASSUME UNCHANGED <<gen, loaded>>, Ran, pc = "rearming" \/ (pc = "verifying" /\ ~faults)
      PROVE  \A v \in Units : running[v] # gen => running'[v] # gen'
  BY <1>d, NothingNewLoaded, NumberFacts DEF Ran
<1>e. ASSUME UNCHANGED <<gen, loaded, touched, group, backup, pc, step>>, Ran, faults' = faults
      PROVE  Expelled'
  <2>1. RollbackUnits' = RollbackUnits /\ Restarted(step)' = Restarted(step)
    BY <1>e, SameRestarted
  <2>2. Restarted(step) \subseteq Units
    BY <1>a, RestartedFacts
  <2>3. Passed(RollbackUnits, step)' = Passed(RollbackUnits, step)
    BY <1>e, <2>1
  <2>4. Members(RollbackUnits)' = Members(RollbackUnits)
    BY <2>1
  <2>5. ASSUME pc = "rearming", ~faults PROVE \A u \in Restarted(step) \cap backup.active : running'[u] # gen'
    BY <1>e, <1>d, <2>2, <2>5 DEF Expelled
  <2>6. ASSUME pc = "verifying", ~faults
        PROVE  /\ \A u \in Members(RollbackUnits) \cap backup.active : running'[u] # gen'
               /\ \A u \in Passed(RollbackUnits, step) : running'[u] # gen'
    BY <1>e, <1>d, <1>a, <2>6 DEF Expelled
  <2> QED
    BY <1>e, <2>1, <2>3, <2>4, <2>5, <2>6 DEF Expelled
<1>1. ASSUME NEW g \in Groups, Begin(g) PROVE Expelled'
  BY <1>1, <1>c DEF Begin
<1>2. CASE Snapshot
  BY <1>2, <1>c DEF Snapshot
<1>3. CASE NothingToDo
  BY <1>3, <1>c DEF NothingToDo
<1>4. CASE Validate
  BY <1>4, <1>c DEF Validate
<1>5. CASE StopUnit
  BY <1>5, <1>c DEF StopUnit
<1>6. CASE ObserveJobs
  BY <1>6, <1>c DEF ObserveJobs
<1>7. CASE ChangeFile
  BY <1>7, <1>c DEF ChangeFile
<1>8. CASE Reload
  BY <1>8, <1>c DEF Reload
<1>9. CASE PreserveJob
  BY <1>9, <1>c DEF PreserveJob
<1>10. CASE StartJob
  BY <1>10, <1>c DEF StartJob
<1>11. CASE JobsStarted
  BY <1>11, <1>c DEF JobsStarted
<1>12. CASE ActivateUnit
  BY <1>12, <1>c DEF ActivateUnit
<1>13. CASE Succeed
  BY <1>13, <1>c DEF Succeed
<1>14. CASE Fail
  BY <1>14, <1>c DEF Fail
<1>15. CASE PhaseLost
  BY <1>15, <1>c DEF PhaseLost
<1>16. CASE Quiesce
  BY <1>16, <1>c DEF Quiesce
<1>17. CASE Quiesced
  BY <1>17, <1>b, <1>c DEF Quiesced, Expelled
<1>18. CASE RestoreFile
  BY <1>18, <1>c DEF RestoreFile
<1>19. CASE ReloadRestored
  <2>1. CASE pc' = "rearming"
    <3>1. UNCHANGED <<touched, group, backup>> /\ step' = 1
      BY <1>19 DEF ReloadRestored
    <3>2. Restarted(step)' = {}
      <4>1. RollbackUnits' = RollbackUnits
        BY <3>1, SameRestarted
      <4> QED
        BY <3>1, <4>1, <1>a DEF Restarted, Rearmings
    <3> QED
      BY <2>1, <3>2 DEF Expelled
  <2>2. CASE pc' # "rearming"
    <3>1. pc' = "verifying" /\ faults'
      BY <1>19, <1>b, <2>2 DEF ReloadRestored
    <3> QED
      BY <3>1 DEF Expelled
  <2> QED
    BY <2>1, <2>2
<1>20. CASE Rearm
  <2> DEFINE n  == RestoredLast(step)
             u  == RollbackUnits[n]
             up == IF u \in backup.active THEN [running EXCEPT ![u] = loaded[u]] ELSE running
  <2>1. /\ pc = "rearming" /\ pc' = pc /\ step' = step + 1 /\ step \in 1 .. Len(RollbackUnits)
        /\ UNCHANGED <<gen, loaded, touched, group, backup>>
    BY <1>20, <1>a DEF Rearm
  <2>2. Ran
    BY <1>20, RearmRan
  <2>3. CASE faults'
    BY <2>1, <2>3 DEF Expelled
  <2>4. CASE ~faults'
    <3>1. ~faults /\ (Repeated(n) \/ running' = up)
      BY <1>20, <2>4 DEF Rearm
    <3>2. /\ Restarted(step)' = Restarted(step + 1)
          /\ Restarted(step) \subseteq Units
          /\ Restarted(step + 1) \subseteq Restarted(step) \cup (IF Repeated(n) THEN {} ELSE {u})
      BY <2>1, SameRestarted, RestartedFacts
    <3>3. \A v \in Restarted(step) \cap backup.active : running'[v] # gen'
      BY <2>1, <2>2, <3>1, <3>2, <1>d DEF Expelled
    <3>4. ASSUME ~Repeated(n), u \in backup.active PROVE running'[u] # gen'
      <4>1. n \in 1 .. Len(RollbackUnits)
        BY <2>1, <1>a DEF RestoredLast
      <4>2. u \in Units
        BY <4>1, <1>a, PassedFacts
      <4>3. running' = [running EXCEPT ![u] = loaded[u]]
        BY <3>1, <3>4
      <4>4. running'[u] = loaded[u]
        BY <4>2, <4>3, <1>a DEF FileMaps
      <4> QED
        BY <4>2, <4>4, <2>1, NothingNewLoaded
    <3> QED
      BY <2>1, <3>2, <3>3, <3>4 DEF Expelled
  <2> QED
    BY <2>3, <2>4
<1>21. CASE Rearmed
  <2>1. /\ pc = "rearming" /\ pc' = "verifying" /\ step' = 1 /\ step > Len(RollbackUnits)
        /\ UNCHANGED <<gen, running, touched, group, backup, faults>>
    BY <1>21 DEF Rearmed
  <2>2. RollbackUnits' = RollbackUnits
    BY <2>1, SameRestarted
  <2>3. Passed(RollbackUnits, step)' = {}
    BY <2>1, <2>2, <1>a, PassedFacts
  <2>4. Members(RollbackUnits) \subseteq Restarted(step)
    BY <2>1, <1>a, RestartedFacts
  <2>5. Members(RollbackUnits)' = Members(RollbackUnits)
    BY <2>2
  <2> QED
    BY <2>1, <2>3, <2>4, <2>5 DEF Expelled
<1>22. CASE VerifyRestored
  <2> DEFINE u == RollbackUnits[step]
  <2>1. /\ pc = "verifying" /\ pc' = pc /\ step' = step + 1 /\ step \in 1 .. Len(RollbackUnits)
        /\ UNCHANGED <<gen, running, touched, group, backup>>
    BY <1>22, <1>a DEF VerifyRestored
  <2>2. CASE faults'
    BY <2>1, <2>2 DEF Expelled
  <2>3. CASE ~faults'
    <3>1. ~faults /\ (Repeated(step) \/ AsBefore(u))
      <4>1. faults => faults'
        BY <1>22 DEF VerifyRestored
      <4> QED
        BY <1>22, <2>3, <4>1 DEF VerifyRestored
    <3>2. RollbackUnits' = RollbackUnits
      BY <2>1, SameRestarted
    <3>3. Passed(RollbackUnits, step + 1) = Passed(RollbackUnits, step) \cup {u} /\ u \in Members(RollbackUnits)
      BY <2>1, <1>a, PassedFacts
    <3>4. Passed(RollbackUnits, step)' = Passed(RollbackUnits, step) \cup {u}
      BY <2>1, <3>2, <3>3
    <3>5. /\ \A v \in Members(RollbackUnits) \cap backup.active : running[v] # gen
          /\ \A v \in Passed(RollbackUnits, step) : running[v] # gen
      BY <2>1, <3>1 DEF Expelled
    <3>6. running[u] # gen
      <4>1. CASE Repeated(step)
        BY <4>1, <2>1, <3>5, RepeatedPassed
      <4>2. CASE AsBefore(u)
        BY <4>2, <3>3, <3>5, NumberFacts DEF AsBefore
      <4> QED
        BY <3>1, <4>1, <4>2
    <3>7. Members(RollbackUnits)' = Members(RollbackUnits)
      BY <3>2
    <3> QED
      BY <2>1, <3>4, <3>5, <3>6, <3>7 DEF Expelled
  <2> QED
    BY <2>2, <2>3
<1>23. CASE Undone
  BY <1>23, <1>c DEF Undone
<1>24. CASE Retain
  BY <1>24, <1>c DEF Retain
<1>25. ASSUME NEW a \in Units, NEW u \in Units, Fire(a, u) PROVE Expelled'
  BY <1>25, <1>e, RanFacts DEF Fire
<1>26. ASSUME NEW u \in Units, End(u) PROVE Expelled'
  BY <1>26, <1>e, RanFacts DEF End
<1>27. CASE Die
  BY <1>27, <1>c DEF Die
<1>28. CASE Reboot
  BY <1>28, <1>c DEF Reboot
<1>29. CASE OperatorResolves
  BY <1>29, <1>c DEF OperatorResolves
<1>30. CASE UNCHANGED vars
  BY <1>30, <1>e, RanFacts DEF vars
<1> QED
  BY <1>1, <1>2, <1>3, <1>4, <1>5, <1>6, <1>7, <1>8, <1>9, <1>10, <1>11, <1>12, <1>13, <1>14, <1>15, <1>16, <1>17, <1>18, <1>19, <1>20, <1>21, <1>22, <1>23, <1>24, <1>25, <1>26, <1>27, <1>28, <1>29, <1>30
     DEF Next, Operate, RollBack, Surroundings

(* What NothingUndoneRuns says of a step.                                   *)
Undoing ==
  pc # "idle" /\ marker # None /\ marker' = None =>
    /\ loaded = files
    /\ pc = "verifying" => \A u \in Members(RollbackUnits) : running[u] # gen

LEMMA StepUndoes == TypeOK /\ Loaded /\ Expelled /\ [Next]_vars => Undoing
<1> SUFFICES ASSUME Typed, Loaded, Expelled, [Next]_vars, pc # "idle", marker # None, marker' = None
             PROVE  loaded = files /\ (pc = "verifying" => \A u \in Members(RollbackUnits) : running[u] # gen)
  BY TypedIsTypeOK DEF Undoing
<1> USE DEF disk, systemd, request, memory
<1>1. NothingToDo \/ Succeed \/ Undone
  <2>1. "in_progress" # None /\ "recovery_required" # None
    BY GroupsAssumption
  <2> QED
    BY <2>1 DEF Next, Operate, RollBack, Surroundings, vars, Begin, Snapshot, Validate, StopUnit, ObserveJobs,
      ChangeFile, Reload, PreserveJob, StartJob, JobsStarted, ActivateUnit, Fail, PhaseLost, Quiesce, Quiesced,
      RestoreFile, ReloadRestored, Rearm, Rearmed, VerifyRestored, Retain, Fire, End, Die, Reboot, OperatorResolves
<1>2. CASE NothingToDo
  BY <1>2 DEF NothingToDo, Loaded
<1>3. CASE Succeed
  BY <1>3 DEF Succeed, Loaded
<1>4. CASE Undone
  <2>1. pc = "unmodified" \/ (pc = "verifying" /\ ~faults /\ step > Len(RollbackUnits))
    BY <1>4 DEF Undone, Ended
  <2>2. pc = "verifying" => Passed(RollbackUnits, step) = Members(RollbackUnits)
    BY <2>1, GroupFacts, PassedFacts DEF Typed
  <2> QED
    BY <2>1, <2>2 DEF Loaded, Expelled
<1> QED
  BY <1>1, <1>2, <1>3, <1>4

LEMMA InitDated == Init => Dated /\ Loaded /\ Expelled
<1> SUFFICES ASSUME Init PROVE Dated /\ Loaded /\ Expelled
  OBVIOUS
<1>1. /\ pc = "idle" /\ backup = None /\ gen = 0 /\ loaded = files
      /\ files \in [Units -> {0, None}] /\ running = Booted(files, enabled)
  BY DEF Init
<1>2. 0 \in Numbered /\ None \in Numbered
  BY <1>1, GroupsAssumption DEF Numbered, Definitions
<1>3. \A u \in Units : files[u] \in Numbered /\ running[u] \in Numbered
  BY <1>1, <1>2 DEF Booted
<1> QED
  BY <1>1, <1>3 DEF Dated, Loaded, Expelled

(* NothingUndoneRuns holds: however an operation ends whose marker goes,      *)
(* systemd has loaded what is on disk, and if it was rolled back, no unit that *)
(* it stopped or started runs its definition, also not one that a timer        *)
(* started meanwhile.                                                       *)
THEOREM NothingUndoneStays == Spec => NothingUndoneRuns
<1>1. Init => IInv /\ Dated /\ Loaded /\ Expelled
  BY InitInvariant, InitDated
<1>2. IInv /\ Dated /\ Loaded /\ Expelled /\ [Next]_vars =>
        (IInv /\ Dated /\ Loaded /\ Expelled)' /\ Undoing
  BY StepInvariant, StepDated, StepLoaded, StepExpelled, StepUndoes DEF IInv, Backward
<1>3. NothingUndoneRuns <=> [][Undoing]_vars
  BY DEF NothingUndoneRuns, Undoing
<1> QED
  BY <1>1, <1>2, <1>3, PTL DEF Spec

-----------------------------------------------------------------------------
(* What the rollback has stopped stays stopped.                             *)

Activators == {a \in Units : Triggers[a] # {}}

(* An activator without a file does not run, except in the middle of an       *)
(* operation, ...                                                           *)
Missing(a) == ~Known(a) /\ (a \notin Members(touched) \/ a \in Members(group.remove))

Grounded ==
  /\ marker = None \/ pc \in {"staging", "validating", "unmodified"} =>
       \A a \in Activators : files[a] = None => running[a] = None
  /\ backup # None => \A a \in Activators \cap backup.active : Known(a)
  /\ pc \in Modified \cup {"validating"} => \A a \in Activators : Missing(a) => running[a] = None
  /\ pc \in {"starting", "activating"} =>
       \A a \in Activators \cap Members(group.remove) : running[a] = None
  /\ pc = "verifying" /\ ~faults =>
       \A a \in Activators \cap Passed(RollbackUnits, step) : ~Known(a) => running[a] = None

(* ... the operation touches what starts a unit before the unit, or never, ... *)
OldTimers == group.once # << >> => \A u \in Members(group.activate) : Known(u)

Before(a, k) ==
  \/ \E m \in DOMAIN touched : m < k /\ touched[m] = a
  \/ ~Known(a) /\ a \notin Members(touched) \cup Members(group.activate)

Handled(u) == Skipped(u) \/ u \in Members(touched)

Touching == {"stopping", "changing", "starting", "activating", "quiescing", "restoring"}

Ordered ==
  /\ pc \in Modified => Members(touched) \subseteq Members(Changes)
  /\ pc = "stopping" => Members(touched) \subseteq Members(Stops)
  /\ pc = "stopping" => \A u \in Passed(Stops, step) : Handled(u)
  /\ pc \in {"changing", "starting"} => \A u \in Members(Stops) : Handled(u)
  /\ pc = "activating" => Passed(group.activate, step) \subseteq Members(touched)
  /\ pc \in Touching /\ OldTimers =>
       \A k \in DOMAIN touched : \A a \in Units : touched[k] \in Triggers[a] => Before(a, k)

(* ... and so nothing starts again what the rollback stopped.                *)
Down(u) == running[u] = None \/ (Nonexistent(u) /\ u \notin Activators)

Stopped ==
  /\ pc = "quiescing" /\ sound /\ OldTimers => \A u \in Passed(RollbackUnits, step) : Down(u)
  /\ pc = "restoring" /\ sound /\ OldTimers => \A u \in Members(RollbackUnits) : Down(u)

(* What the order of the groups means for an operation.                      *)
LEMMA ActivatorFacts ==
  ASSUME Typed
  PROVE  /\ Activators \subseteq Units
         /\ \A a \in Units : \A u \in Triggers[a] :
              /\ u \in Units \ Activators /\ a \in Activators
              /\ u \notin Members(group.deactivate)
              /\ u \in Members(group.once) => a \in Members(group.deactivate)
              /\ \A n \in DOMAIN group.activate :
                   group.activate[n] = u => \E m \in DOMAIN group.activate : m < n /\ group.activate[m] = a
              /\ \A n \in DOMAIN group.remove :
                   group.remove[n] = u => \E m \in DOMAIN group.remove : m < n /\ group.remove[m] = a
         /\ Members(group.once) \cap Activators = {}
<1>1. group \in Groups
  BY DEF Typed
<1>2. \A a \in Units : Triggers[a] \subseteq Units
  BY GroupsAssumption
<1>3. \A a \in Units : \A u \in Triggers[a] : Triggers[u] = {}
  BY TriggersAssumption
<1>4. \A u \in Members(group.once) : Triggers[u] = {}
  BY <1>1, TriggersAssumption
<1>5. \A a \in Units : \A u \in Triggers[a] :
        /\ u \notin Members(group.deactivate)
        /\ u \in Members(group.once) => a \in Members(group.deactivate)
        /\ \A f \in {"remove", "activate"} : \A n \in DOMAIN group[f] :
             group[f][n] = u => \E m \in DOMAIN group[f] : m < n /\ group[f][m] = a
  BY <1>1, TriggersAssumption
<1>6. \A a \in Units : \A u \in Triggers[a] : u \in Units \ Activators /\ a \in Activators
  BY <1>2, <1>3 DEF Activators
<1>7. \A a \in Units : \A u \in Triggers[a] :
        /\ \A n \in DOMAIN group["activate"] :
             group["activate"][n] = u => \E m \in DOMAIN group["activate"] : m < n /\ group["activate"][m] = a
        /\ \A n \in DOMAIN group["remove"] :
             group["remove"][n] = u => \E m \in DOMAIN group["remove"] : m < n /\ group["remove"][m] = a
  BY <1>5
<1> QED
  BY <1>4, <1>5, <1>6, <1>7 DEF Activators

(* Activators run after a step only if they ran before.                      *)
Calm == \A a \in Activators : running'[a] \in {running[a], None}

LEMMA CalmFacts ==
  ASSUME Typed
  PROVE  /\ running' = running => Calm
         /\ \A u \in Units : running' \in {running, [running EXCEPT ![u] = None]} => Calm
         /\ \A a \in Units : \A u \in Triggers[a] : running' = [running EXCEPT ![u] = loaded[u]] => Calm
<1>1. Activators \subseteq Units /\ \A a \in Units : \A u \in Triggers[a] : u \in Units \ Activators
  BY ActivatorFacts
<1> QED
  BY <1>1 DEF Typed, FileMaps, Calm

LEMMA GroundedKept ==
  ASSUME Grounded, Calm, UNCHANGED <<files, backup, group, touched>>,
         \/ marker' # None
         \/ marker = None
         \/ pc \in {"staging", "validating", "unmodified"},
         pc' \in {"staging", "validating", "unmodified"} => pc \in {"staging", "validating", "unmodified"},
         pc' \in Modified \cup {"validating"} => pc \in Modified \cup {"validating"},
         pc' \in {"starting", "activating"} => pc \in {"starting", "activating"},
         pc' # "verifying"
  PROVE  Grounded'
<1>1. \A a : Missing(a)' = Missing(a) /\ Known(a)' = Known(a)
  BY DEF Missing, Known
<1> QED
  BY <1>1 DEF Grounded, Calm

LEMMA GroundedSame ==
  ASSUME Grounded, Calm, UNCHANGED <<files, backup, group, touched, marker, pc, step>>, faults' = faults
  PROVE  Grounded'
<1>1. \A a : Missing(a)' = Missing(a) /\ Known(a)' = Known(a)
  BY DEF Missing, Known
<1>2. RollbackUnits' = RollbackUnits
  BY DEF RollbackUnits
<1>3. Passed(RollbackUnits, step)' = Passed(RollbackUnits, step)
  BY <1>2
<1> QED
  BY <1>1, <1>3 DEF Grounded, Calm

LEMMA StepGrounded ==
  IInv /\ Jobs /\ Grounded /\ Members(touched) \subseteq Members(Changes) /\ [Next]_vars => Grounded'
<1> SUFFICES ASSUME Typed, Marked, Forward, Restored, Jobs, Grounded,
                    Members(touched) \subseteq Members(Changes), [Next]_vars
             PROVE  Grounded'
  BY TypedIsTypeOK DEF IInv, Backward
<1> USE DEF disk, systemd, request, memory, Goto, Again, Return
<1>a. /\ pc \in Modified \cup {"validating"} => backup # None
      /\ pc # "idle" => marker # None
      /\ marker = None => backup = None
      /\ None \notin {"in_progress", "recovery_required"}
  BY GroupsAssumption DEF Marked
<1>b. /\ Stops \in Seq(Units) /\ Changes \in Seq(Units) /\ RollbackUnits \in Seq(Units)
      /\ group.activate \in Seq(Units) /\ group.once \in Seq(Units) /\ step \in Nat \ {0}
      /\ Members(Changes) = Members(group.remove) \cup Members(group.write)
      /\ Members(RollbackUnits) = Members(touched) \cup Members(group.activate)
      /\ Members(group.write) \cap Members(group.remove) = {}
      /\ Members(group.once) \cup Members(group.activate) \subseteq Members(group.write)
      /\ touched \in Seq(Units) /\ running \in FileMaps
  BY GroupFacts DEF Typed
<1>c. ~sound => faults
  BY DEF Restored
<1>d. Activators \subseteq Units
  BY ActivatorFacts
(* A written unit is touched and started.                                      *)
<1>e. ASSUME NEW u \in Members(group.write), u \in Units,
             touched' \in {touched, Append(touched, u)}, u \in Members(touched)',
             UNCHANGED <<files, backup, group, marker>>,
             \A v \in Units \ {u} : running'[v] = running[v],
             pc \in {"starting", "activating"}, pc' \in {pc, "quiescing"}
      PROVE  Grounded'
  <2>a. Members(Append(touched, u)) = Members(touched) \cup {u}
    BY <1>b, <1>e, MembersAppend
  <2>1. Members(touched)' = Members(touched) \cup {u}
    BY <1>e, <2>a
  <2>2. \A a : Known(a)' = Known(a)
    BY <1>e DEF Known
  <2>3. \A a \in Activators : Missing(a)' => Missing(a) /\ a # u
    BY <1>b, <1>e, <2>1, <2>2 DEF Missing
  <2>4. \A a \in Activators : Missing(a)' => running'[a] = None
    BY <1>d, <1>e, <2>3 DEF Grounded, Modified
  <2>5. \A a \in Activators \cap Members(group.remove) : running'[a] = None
    BY <1>b, <1>d, <1>e DEF Grounded
  <2> QED
    BY <1>a, <1>e, <2>2, <2>4, <2>5 DEF Grounded
<1>1. ASSUME NEW g \in Groups, Begin(g) PROVE Grounded'
  <2>1. /\ marker = None /\ pc' = "staging" /\ UNCHANGED <<files, running, backup>> /\ backup = None
    BY <1>1, <1>a DEF Begin
  <2> QED
    BY <2>1 DEF Grounded, Modified
<1>2. CASE Snapshot
  <2>1. /\ pc = "staging" /\ pc' = "validating" /\ UNCHANGED <<files, running, group, touched>>
        /\ backup'.files = files /\ backup'.active = {u \in Units : running[u] # None}
    BY <1>2 DEF Snapshot
  <2>2. \A a \in Activators : files[a] = None => running[a] = None
    BY <2>1 DEF Grounded
  <2> QED
    BY <2>1, <2>2 DEF Grounded, Missing, Known
<1>3. CASE NothingToDo
  <2>1. pc = "staging" /\ pc' = "idle" /\ UNCHANGED <<files, running, backup>> /\ backup = None
    BY <1>3 DEF NothingToDo, Marked
  <2> QED
    BY <2>1 DEF Grounded, Modified
<1>4. CASE Validate
  <2>1. /\ pc = "validating" /\ pc' = "stopping" /\ UNCHANGED <<files, running, group, touched, backup, marker>>
    BY <1>4 DEF Validate
  <2>2. Calm
    BY <2>1, CalmFacts
  <2> QED
    BY <2>1, <2>2, GroundedKept DEF Modified
<1>5. CASE StopUnit
  <2> DEFINE u == Stops[step]
  <2>1. /\ pc = "stopping" /\ pc' \in {"stopping", "quiescing"} /\ step \in 1 .. Len(Stops)
        /\ UNCHANGED <<files, group, backup, marker>> /\ touched' \in {touched, Append(touched, u)}
        /\ running' \in {running, [running EXCEPT ![u] = None]}
    BY <1>5, <1>b DEF StopUnit
  <2>2. u \in Units
    BY <2>1, <1>b, PassedFacts
  <2>a. Members(Append(touched, u)) = Members(touched) \cup {u}
    BY <2>2, <1>b, MembersAppend
  <2>3. Members(touched) \subseteq Members(touched)'
    BY <2>a, <2>1
  <2>4. \A a : Known(a)' = Known(a)
    BY <2>1 DEF Known
  <2>5. Calm
    BY <2>1, <2>2, CalmFacts
  <2>6. \A a \in Activators : Missing(a)' => running'[a] = None
    BY <2>1, <2>3, <2>4, <2>5 DEF Grounded, Modified, Missing, Calm
  <2> QED
    BY <2>1, <2>4, <2>6, <1>a DEF Grounded
<1>6. CASE ObserveJobs
  <2>1. /\ pc = "stopping" /\ pc' = "changing" /\ UNCHANGED <<files, running, group, touched, backup, marker>>
    BY <1>6 DEF ObserveJobs
  <2>2. Calm
    BY <2>1, CalmFacts
  <2> QED
    BY <2>1, <2>2, GroundedKept DEF Modified
<1>f. ASSUME UNCHANGED <<running, group, touched, backup, marker>>, pc \in Modified, pc' \in Modified,
             pc' \notin {"starting", "activating", "verifying"}
      PROVE  Grounded'
  <2>1. \A a : Missing(a)' = Missing(a) /\ Known(a)' = Known(a)
    BY <1>f DEF Missing, Known
  <2>2. marker' # None
    BY <1>a, <1>f DEF Modified
  <2> QED
    BY <1>f, <2>1, <2>2 DEF Grounded, Modified
<1>7. CASE ChangeFile
  BY <1>7, <1>f DEF ChangeFile, Modified
<1>8. CASE Reload
  <2>1. /\ pc = "changing" /\ UNCHANGED <<running, group, touched, backup, marker>>
        /\ \/ pc' = "quiescing"
           \/ pc' = "starting" /\ \A u \in Members(group.remove) : Known(u) => running[u] = None
    BY <1>8 DEF Reload
  <2>2. CASE pc' = "quiescing"
    BY <2>1, <2>2, <1>f DEF Modified
  <2>3. CASE pc' = "starting"
    <3>1. \A a : Missing(a)' = Missing(a) /\ Known(a)' = Known(a)
      BY <2>1 DEF Missing, Known
    <3>2. \A a \in Activators : Missing(a) => running[a] = None
      BY <2>1 DEF Grounded, Modified
    <3>3. \A a \in Activators \cap Members(group.remove) : running[a] = None
      BY <2>1, <2>3, <3>2 DEF Missing
    <3> QED
      BY <2>1, <2>3, <3>1, <3>2, <3>3, <1>a DEF Grounded
  <2> QED
    BY <2>1, <2>2, <2>3
<1>9. CASE PreserveJob
  <2>1. pc = "starting" /\ pc' = pc /\ UNCHANGED <<files, running, group, touched, backup, marker>>
    BY <1>9 DEF PreserveJob
  <2>2. Calm
    BY <2>1, CalmFacts
  <2> QED
    BY <2>1, <2>2, GroundedKept
<1>10. CASE StartJob
  <2> DEFINE u == group.once[step]
  <2>1. /\ pc = "starting" /\ pc' \in {pc, "quiescing"} /\ step \in 1 .. Len(group.once)
        /\ UNCHANGED <<files, group, backup, marker>> /\ touched' = Append(touched, u)
        /\ running' \in {running, [running EXCEPT ![u] = loaded[u]]}
    BY <1>10, <1>b DEF StartJob
  <2>2. u \in Units /\ u \in Members(group.once)
    BY <2>1, <1>b, PassedFacts
  <2>3. u \in Members(touched)'
    BY <2>1, <2>2, <1>b, MembersAppend
  <2>4. \A v \in Units \ {u} : running'[v] = running[v]
    BY <2>1, <2>2, <1>b DEF FileMaps
  <2> QED
    BY <2>1, <2>2, <2>3, <2>4, <1>b, <1>e
<1>11. CASE JobsStarted
  <2>1. pc = "starting" /\ pc' = "activating" /\ UNCHANGED <<files, running, group, touched, backup, marker>>
    BY <1>11 DEF JobsStarted
  <2>2. Calm
    BY <2>1, CalmFacts
  <2> QED
    BY <2>1, <2>2, GroundedKept DEF Modified
<1>12. CASE ActivateUnit
  <2> DEFINE u == group.activate[step]
  <2>1. /\ pc = "activating" /\ pc' \in {pc, "quiescing"} /\ step \in 1 .. Len(group.activate)
        /\ UNCHANGED <<files, group, backup, marker>>
        /\ touched' = (IF u \in Members(touched) THEN touched ELSE Append(touched, u))
        /\ running' \in {running, [running EXCEPT ![u] = None], [running EXCEPT ![u] = loaded[u]]}
    BY <1>12, <1>b DEF ActivateUnit
  <2>2. u \in Units /\ u \in Members(group.activate)
    BY <2>1, <1>b, PassedFacts
  <2>3. u \in Members(touched)'
    BY <2>1, <2>2, <1>b, MembersAppend
  <2>4. \A v \in Units \ {u} : running'[v] = running[v]
    BY <2>1, <2>2, <1>b DEF FileMaps
  <2>5. touched' \in {touched, Append(touched, u)}
    BY <2>1
  <2> QED
    BY <2>1, <2>2, <2>3, <2>4, <2>5, <1>b, <1>e
<1>13. CASE Succeed
  <2>1. /\ pc = "activating" /\ pc' = "idle" /\ backup' = None /\ UNCHANGED <<files, running>>
        /\ files = Target(backup.files)
    BY <1>13 DEF Succeed, Forward
  <2>2. ASSUME NEW a \in Activators, files[a] = None PROVE running[a] = None
    <3>1. CASE a \in Members(group.remove)
      BY <2>1, <3>1 DEF Grounded
    <3>2. CASE a \notin Members(group.remove)
      <4>1. files[a] = (IF a \in Members(group.write) THEN gen ELSE backup.files[a])
        BY <2>1, <3>2, <1>d DEF Target
      <4>2. gen # None
        BY NumberFacts
      <4>3. a \notin Members(group.write) /\ ~Known(a)
        BY <2>2, <4>1, <4>2 DEF Known
      <4>4. a \notin Members(touched)
        BY <3>2, <4>3, <1>b
      <4> QED
        BY <2>1, <4>3, <4>4 DEF Missing, Grounded, Modified
    <3> QED
      BY <3>1, <3>2
  <2> QED
    BY <2>1, <2>2 DEF Grounded, Modified
<1>14. CASE Fail
  <2>1. UNCHANGED <<files, running, group, touched, backup, marker>>
    BY <1>14 DEF Fail
  <2>2. Calm
    BY <2>1, CalmFacts
  <2>3. \/ pc \in {"staging", "validating"} /\ pc' = "unmodified"
        \/ pc \in Modified /\ pc' = "quiescing"
    BY <1>14 DEF Fail, Modified
  <2>4. CASE pc' = "unmodified"
    BY <2>1, <2>2, <2>3, <2>4, GroundedKept DEF Modified
  <2>5. CASE pc' = "quiescing"
    BY <2>1, <2>3, <2>5, <1>f DEF Modified
  <2> QED
    BY <2>3, <2>4, <2>5
<1>15. CASE PhaseLost
  <2>1. pc \in {"unmodified", "quiescing"} /\ pc' = pc /\ UNCHANGED <<files, running, group, touched, backup, marker>>
    BY <1>15 DEF PhaseLost
  <2>2. Calm
    BY <2>1, CalmFacts
  <2> QED
    BY <2>1, <2>2, GroundedKept
<1>16. CASE Quiesce
  <2> DEFINE u == RollbackUnits[step]
  <2>1. /\ pc = "quiescing" /\ pc' = pc /\ step \in 1 .. Len(RollbackUnits)
        /\ UNCHANGED <<files, group, touched, backup, marker>>
        /\ running' \in {running, [running EXCEPT ![u] = None]}
    BY <1>16, <1>b DEF Quiesce
  <2>2. u \in Units
    BY <2>1, <1>b, PassedFacts
  <2>3. Calm
    BY <2>1, <2>2, CalmFacts
  <2> QED
    BY <2>1, <2>3, <1>a, GroundedKept
<1>17. CASE Quiesced
  <2>1. /\ UNCHANGED <<files, running, group, touched, backup, marker, faults>>
        /\ pc = "quiescing" /\ pc' = (IF sound THEN "restoring" ELSE "verifying")
    BY <1>17 DEF Quiesced
  <2>2. CASE pc' = "restoring"
    BY <2>1, <2>2, <1>f DEF Modified
  <2>3. CASE pc' = "verifying"
    <3>1. faults'
      BY <2>1, <2>3, <1>c
    <3>2. \A a : Missing(a)' = Missing(a) /\ Known(a)' = Known(a)
      BY <2>1 DEF Missing, Known
    <3> QED
      BY <2>1, <2>3, <3>1, <3>2, <1>a DEF Grounded, Modified
  <2> QED
    BY <2>1, <2>2, <2>3
<1>18. CASE RestoreFile
  BY <1>18, <1>f DEF RestoreFile, Modified
(* Steps of the rollback to its verification, with a fault or from the start. *)
<1>g. ASSUME UNCHANGED <<running, group, touched, backup, marker>>, pc \in Modified,
             pc' = "rearming" \/ (pc' = "verifying" /\ (faults' \/ step' = 1))
      PROVE  Grounded'
  <2>1. \A a : Missing(a)' = Missing(a) /\ Known(a)' = Known(a)
    BY <1>g DEF Missing, Known
  <2>2. marker' # None /\ pc' \in Modified \ {"starting", "activating"}
    BY <1>a, <1>g DEF Modified
  <2>3. RollbackUnits' = RollbackUnits
    BY <1>g DEF RollbackUnits
  <2>4. step' = 1 => Passed(RollbackUnits, step)' = {}
    BY <2>3, <1>b, PassedFacts
  <2> QED
    BY <1>g, <2>1, <2>2, <2>4 DEF Grounded
<1>19. CASE ReloadRestored
  <2>1. /\ UNCHANGED <<running, group, touched, backup, marker>> /\ pc = "restoring"
        /\ pc' \in {"rearming", "verifying"} /\ step' = 1
    BY <1>19 DEF ReloadRestored
  <2> QED
    BY <2>1, <1>g DEF Modified
<1>20. CASE Rearm
  <2> DEFINE n  == RestoredLast(step)
             u  == RollbackUnits[n]
             up == IF u \in backup.active THEN [running EXCEPT ![u] = loaded[u]] ELSE running
  <2>1. /\ pc = "rearming" /\ pc' = pc /\ step \in 1 .. Len(RollbackUnits)
        /\ UNCHANGED <<files, touched, group, backup, marker>>
    BY <1>20, <1>b DEF Rearm
  <2>2. running' \in {running, up} \/ running' = [running EXCEPT ![u] = None]
    BY <1>20 DEF Rearm
  <2>3. n \in 1 .. Len(RollbackUnits)
    BY <2>1, <1>b DEF RestoredLast
  <2>4. u \in Units
    BY <2>3, <1>b, PassedFacts
  <2>5. \A a \in Activators : running'[a] \in {running[a], None} \/ a \in backup.active
    BY <2>2, <2>4, <1>b, <1>d DEF FileMaps
  <2>6. \A a : Missing(a)' = Missing(a) /\ Known(a)' = Known(a)
    BY <2>1 DEF Missing, Known
  <2>7. \A a \in Activators : Missing(a) => running'[a] = None
    BY <2>1, <2>5, <1>a DEF Grounded, Missing, Modified
  <2> QED
    BY <2>1, <2>6, <2>7, <1>a DEF Grounded
<1>21. CASE Rearmed
  <2>1. /\ UNCHANGED <<running, group, touched, backup, marker>> /\ pc = "rearming"
        /\ pc' = "verifying" /\ step' = 1
    BY <1>21 DEF Rearmed
  <2> QED
    BY <2>1, <1>g DEF Modified
<1>22. CASE VerifyRestored
  <2> DEFINE u == RollbackUnits[step]
  <2>1. /\ pc = "verifying" /\ pc' = pc /\ step' = step + 1 /\ step \in 1 .. Len(RollbackUnits)
        /\ UNCHANGED <<running, touched, group, backup, marker>>
    BY <1>22, <1>b DEF VerifyRestored
  <2>2. CASE faults'
    BY <2>1, <2>2, <1>g DEF Modified
  <2>3. CASE ~faults'
    <3>1. ~faults /\ (Repeated(step) \/ AsBefore(u))
      <4>1. faults => faults'
        BY <1>22 DEF VerifyRestored
      <4> QED
        BY <1>22, <2>3, <4>1 DEF VerifyRestored
    <3>2. RollbackUnits' = RollbackUnits
      BY <2>1 DEF RollbackUnits
    <3>3. Passed(RollbackUnits, step + 1) = Passed(RollbackUnits, step) \cup {u}
      BY <2>1, <1>b, PassedFacts
    <3>4. Passed(RollbackUnits, step)' = Passed(RollbackUnits, step) \cup {u}
      BY <2>1, <3>2, <3>3
    <3>5. \A a \in Activators \cap Passed(RollbackUnits, step) : ~Known(a) => running[a] = None
      BY <2>1, <3>1 DEF Grounded
    <3>6. u \in Activators /\ ~Known(u) => running[u] = None
      <4>1. CASE Repeated(step)
        BY <4>1, <2>1, <3>5, RepeatedPassed
      <4>2. CASE AsBefore(u)
        BY <4>2, <2>1, <1>a DEF AsBefore, Grounded, Modified
      <4> QED
        BY <3>1, <4>1, <4>2
    <3>7. \A a : Missing(a)' = Missing(a) /\ Known(a)' = Known(a)
      BY <2>1 DEF Missing, Known
    <3> QED
      BY <2>1, <3>4, <3>5, <3>6, <3>7, <1>a DEF Grounded
  <2> QED
    BY <2>2, <2>3
<1>23. CASE Undone
  <2>1. pc' = "idle" /\ backup' = None /\ UNCHANGED <<files, running>>
    BY <1>23 DEF Undone
  <2>2. pc = "unmodified" \/ (pc = "verifying" /\ ~faults /\ step > Len(RollbackUnits))
    BY <1>23 DEF Undone, Ended
  <2>3. ASSUME NEW a \in Activators, files[a] = None PROVE running[a] = None
    <3>1. CASE pc = "unmodified"
      BY <2>3, <3>1 DEF Grounded
    <3>2. CASE pc = "verifying" /\ ~faults /\ step > Len(RollbackUnits)
      <4>1. files = backup.files
        BY <3>2 DEF Restored
      <4>2. ~Known(a)
        BY <2>3, <4>1 DEF Known
      <4>3. Passed(RollbackUnits, step) = Members(RollbackUnits)
        BY <3>2, <1>b, PassedFacts
      <4>4. CASE a \in Members(touched)
        BY <3>2, <4>2, <4>3, <4>4, <1>b DEF Grounded
      <4>5. CASE a \notin Members(touched)
        BY <3>2, <4>2, <4>5 DEF Grounded, Missing, Modified
      <4> QED
        BY <4>4, <4>5
    <3> QED
      BY <2>2, <3>1, <3>2
  <2> QED
    BY <2>1, <2>3 DEF Grounded, Modified
<1>h. ASSUME UNCHANGED backup, marker' # None, pc' = "idle" PROVE Grounded'
  BY <1>h DEF Grounded, Modified, Known
<1>24. CASE Retain
  <2>1. pc # "idle" /\ marker' \in {marker, "recovery_required"} /\ pc' = "idle" /\ UNCHANGED backup
    BY <1>24 DEF Retain, Ended
  <2> QED
    BY <2>1, <1>a, <1>h
<1>25. ASSUME NEW a \in Units, NEW u \in Units, Fire(a, u) PROVE Grounded'
  <2>1. /\ UNCHANGED <<files, backup, group, touched, marker, pc, step, faults>> /\ u \in Triggers[a]
        /\ running' = [running EXCEPT ![u] = loaded[u]]
    BY <1>25 DEF Fire
  <2> QED
    BY <2>1, CalmFacts, GroundedSame
<1>26. ASSUME NEW u \in Units, End(u) PROVE Grounded'
  <2>1. /\ UNCHANGED <<files, backup, group, touched, marker, pc, step, faults>>
        /\ running' = [running EXCEPT ![u] = None]
    BY <1>26 DEF End
  <2> QED
    BY <2>1, CalmFacts, GroundedSame
<1>27. CASE Die
  BY <1>27, <1>a, <1>h DEF Die
<1>28. CASE Reboot
  <2>1. pc' = "idle" /\ UNCHANGED <<files, backup>> /\ running' = Booted(files, enabled)
    BY <1>28 DEF Reboot
  <2>2. \A a \in Activators : files[a] = None => running'[a] = None
    BY <2>1, <1>d DEF Booted
  <2> QED
    BY <2>1, <2>2 DEF Grounded, Modified, Known
<1>29. CASE OperatorResolves
  <2>1. pc' = "idle" /\ backup' = None /\ running' = Booted(files', enabled')
    BY <1>29 DEF OperatorResolves
  <2>2. \A a \in Activators : files'[a] = None => running'[a] = None
    BY <2>1, <1>d DEF Booted
  <2> QED
    BY <2>1, <2>2 DEF Grounded, Modified
<1>30. CASE UNCHANGED vars
  BY <1>30, CalmFacts, GroundedSame DEF vars
<1> QED
  BY <1>1, <1>2, <1>3, <1>4, <1>5, <1>6, <1>7, <1>8, <1>9, <1>10, <1>11, <1>12, <1>13, <1>14, <1>15, <1>16, <1>17, <1>18, <1>19, <1>20, <1>21, <1>22, <1>23, <1>24, <1>25, <1>26, <1>27, <1>28, <1>29, <1>30
     DEF Next, Operate, RollBack, Surroundings

(* A unit that is appended to touched has been preceded by its activators.    *)
LEMMA BeforeAppended ==
  ASSUME Typed, NEW u \in Units, touched' = Append(touched, u), UNCHANGED <<backup, group>>,
         \A k \in DOMAIN touched : \A a \in Units : touched[k] \in Triggers[a] => Before(a, k),
         \A a \in Units : u \in Triggers[a] =>
           a \in Members(touched) \/ (~Known(a) /\ a \notin Members(group.activate)),
         \A k \in DOMAIN touched : touched[k] \in Triggers[u] =>
           u \in Members(touched) \/ Known(u) \/ u \in Members(group.activate)
  PROVE  \A k \in DOMAIN touched' : \A a \in Units : touched'[k] \in Triggers[a] => Before(a, k)'
<1>1. /\ touched \in Seq(Units) /\ Len(touched) \in Nat /\ DOMAIN touched = 1 .. Len(touched)
      /\ DOMAIN touched' = 1 .. (Len(touched) + 1)
      /\ touched'[Len(touched) + 1] = u
      /\ \A k \in 1 .. Len(touched) : touched'[k] = touched[k]
  BY DEF Typed
<1>2. Members(Append(touched, u)) = Members(touched) \cup {u}
  BY <1>1, MembersAppend
<1>3. Members(touched)' = Members(touched) \cup {u}
  BY <1>2
<1>4. \A a : Known(a)' = Known(a)
  BY DEF Known
<1>5. ASSUME NEW k \in 1 .. Len(touched), NEW a \in Units, touched'[k] \in Triggers[a] PROVE Before(a, k)'
  <2>1. Before(a, k) /\ touched[k] \in Triggers[a]
    BY <1>1, <1>5
  <2>2. CASE \E m \in DOMAIN touched : m < k /\ touched[m] = a
    <3>1. PICK m \in DOMAIN touched : m < k /\ touched[m] = a
      BY <2>2
    <3>2. m \in DOMAIN touched' /\ touched'[m] = a
      BY <3>1, <1>1
    <3> QED
      BY <3>1, <3>2 DEF Before
  <2>3. CASE ~Known(a) /\ a \notin Members(touched) \cup Members(group.activate)
    <3>1. a # u
      BY <2>1, <2>3, <1>1
    <3> QED
      BY <2>3, <3>1, <1>3, <1>4 DEF Before
  <2> QED
    BY <2>1, <2>2, <2>3 DEF Before
<1>6. ASSUME NEW a \in Units, u \in Triggers[a], NEW k, k = Len(touched) + 1 PROVE Before(a, k)'
  <2>1. CASE a \in Members(touched)
    <3>1. PICK m \in 1 .. Len(touched) : touched[m] = a
      BY <2>1, <1>1 DEF Members
    <3>2. m \in DOMAIN touched' /\ touched'[m] = a /\ m < k
      BY <3>1, <1>1, <1>6
    <3> QED
      BY <3>2 DEF Before
  <2>2. CASE a \notin Members(touched)
    <3>1. a # u
      BY <1>6, ActivatorFacts
    <3> QED
      BY <2>2, <3>1, <1>3, <1>4, <1>6 DEF Before
  <2> QED
    BY <2>1, <2>2
<1> SUFFICES ASSUME NEW k \in DOMAIN touched', NEW a \in Units, touched'[k] \in Triggers[a]
             PROVE  Before(a, k)'
  OBVIOUS
<1>7. CASE k \in 1 .. Len(touched)
  BY <1>5, <1>7
<1>8. CASE k = Len(touched) + 1
  BY <1>1, <1>6, <1>8
<1> QED
  BY <1>1, <1>7, <1>8

(* A group that removes units does nothing else.                             *)
LEMMA OnlyRemoved ==
  ASSUME Typed, NEW u \in Members(group.remove)
  PROVE  Stops = group.remove /\ Members(group.activate) = {}
<1>1. group \in Groups
  BY DEF Typed
<1>2. /\ group.remove \in Seq(Units) /\ group.deactivate \in Seq(Units)
      /\ Members(group.deactivate) \cup Members(group.activate) \subseteq Members(group.write)
      /\ group.write = << >> \/ group.remove = << >>
  BY <1>1, GroupsAssumption, GroupFacts
<1>3. Members(<< >>) = {}
  BY DEF Members
<1>4. group.write = << >>
  BY <1>2, <1>3
<1>5. Members(group.deactivate) = {} /\ Members(group.activate) = {}
  BY <1>2, <1>3, <1>4
<1>6. Len(group.deactivate) = 0
  <2>1. DOMAIN group.deactivate = {}
    BY <1>5 DEF Members
  <2>2. Len(group.deactivate) \in Nat /\ DOMAIN group.deactivate = 1 .. Len(group.deactivate)
    BY <1>2
  <2>3. Len(group.deactivate) > 0 => 1 \in DOMAIN group.deactivate
    BY <2>2
  <2> QED
    BY <2>1, <2>2, <2>3
<1>7. group.deactivate = << >>
  BY <1>2, <1>6, EmptySeq
<1> QED
  BY <1>2, <1>5, <1>7 DEF Stops

(* Where nothing is touched, the order stays.                                *)
LEMMA OrderedKept ==
  ASSUME Ordered, UNCHANGED <<backup, group, touched>>,
         pc' \in Modified => pc \in Modified,
         pc' = "stopping" => pc = "stopping" /\ step' = step,
         pc' \in {"changing", "starting"} => pc \in {"changing", "starting"},
         pc' = "activating" => pc = "activating" /\ step' = step,
         pc' \in Touching => pc \in Touching
  PROVE  Ordered'
<1>1. /\ \A u : Known(u)' = Known(u)
      /\ Stops' = Stops /\ Changes' = Changes
      /\ OldTimers' = OldTimers
  BY DEF Known, Stops, Changes, OldTimers
<1>2. \A u : Skipped(u)' = Skipped(u)
  BY <1>1 DEF Skipped
<1>3. /\ \A u : Handled(u)' = Handled(u)
      /\ \A a, k : Before(a, k)' = Before(a, k)
  BY <1>1, <1>2 DEF Handled, Before
<1>4. /\ pc' = "stopping" => Passed(Stops, step)' = Passed(Stops, step)
      /\ pc' = "activating" => Passed(group.activate, step)' = Passed(group.activate, step)
  BY <1>1
<1> QED
  BY <1>1, <1>3, <1>4 DEF Ordered

LEMMA StepOrdered == TypeOK /\ Jobs /\ Ordered /\ [Next]_vars => Ordered'
<1> SUFFICES ASSUME Typed, Jobs, Ordered, [Next]_vars PROVE Ordered'
  BY TypedIsTypeOK
<1> USE DEF disk, systemd, request, memory, Goto, Again, Return
<1>b. /\ Stops \in Seq(Units) /\ Changes \in Seq(Units)
      /\ group.deactivate \in Seq(Units) /\ group.remove \in Seq(Units) /\ group.write \in Seq(Units)
      /\ group.activate \in Seq(Units) /\ group.once \in Seq(Units) /\ step \in Nat \ {0}
      /\ Members(Stops) = Members(group.deactivate) \cup Members(group.remove)
      /\ Members(Changes) = Members(group.remove) \cup Members(group.write)
      /\ Members(group.write) \cap Members(group.remove) = {}
      /\ Members(group.deactivate) \cup Members(group.once) \cup Members(group.activate)
           \subseteq Members(group.write)
      /\ touched \in Seq(Units)
  BY GroupFacts DEF Typed
(* Outside the changes nothing is touched.                                  *)
<1>c. pc' \notin Modified => Ordered'
  BY DEF Ordered, Modified, Touching
<1>d. ASSUME pc' \in {"rearming", "verifying"}, pc \in Modified, UNCHANGED <<group, touched>>
      PROVE  Ordered'
  <2>1. Changes' = Changes
    BY <1>d DEF Changes
  <2> QED
    BY <1>d, <2>1 DEF Ordered, Touching
<1>1. ASSUME NEW g \in Groups, Begin(g) PROVE Ordered'
  BY <1>1, <1>c DEF Begin, Modified
<1>2. CASE Snapshot
  BY <1>2, <1>c DEF Snapshot, Modified
<1>3. CASE NothingToDo
  BY <1>3, <1>c DEF NothingToDo, Modified
<1>4. CASE Validate
  <2>1. pc' = "stopping" /\ step' = 1 /\ touched' = << >> /\ UNCHANGED group
    BY <1>4 DEF Validate, Jobs, Modified
  <2>2. Members(<< >>) = {}
    BY DEF Members
  <2>3. Passed(Stops, 1) = {}
    BY <1>b, PassedFacts
  <2>4. Stops' = Stops /\ Members(touched)' = {} /\ DOMAIN touched' = {}
    BY <2>1, <2>2 DEF Stops
  <2>5. Passed(Stops, step)' = {}
    BY <2>1, <2>3, <2>4
  <2> QED
    BY <2>1, <2>4, <2>5 DEF Ordered
<1>5. CASE StopUnit
  <2> DEFINE u == Stops[step]
  <2>1. /\ pc = "stopping" /\ step \in 1 .. Len(Stops) /\ UNCHANGED <<group, backup>>
        /\ \/ pc' = "stopping" /\ step' = step + 1
           \/ pc' = "quiescing"
        /\ \/ Skipped(u) /\ touched' = touched
           \/ ~Skipped(u) /\ touched' = Append(touched, u)
    BY <1>5, <1>b DEF StopUnit
  <2>2. u \in Units /\ u \in Members(Stops) /\ Passed(Stops, step + 1) = Passed(Stops, step) \cup {u}
    BY <2>1, <1>b, PassedFacts
  <2>3. Members(Append(touched, u)) = Members(touched) \cup {u}
    BY <2>2, <1>b, MembersAppend
  <2>4. /\ Members(touched)' \subseteq Members(touched) \cup {u}
        /\ Members(touched) \subseteq Members(touched)'
        /\ ~Skipped(u) => u \in Members(touched)'
    BY <2>1, <2>3
  <2>5. Stops' = Stops /\ Changes' = Changes /\ OldTimers' = OldTimers
    BY <2>1 DEF Stops, Changes, OldTimers, Known
  <2>6. \A v : Skipped(v)' = Skipped(v)
    BY <2>1 DEF Skipped, Known
  <2>7. \A v \in Passed(Stops, step + 1) : Handled(v)'
    BY <2>1, <2>2, <2>4, <2>6 DEF Ordered, Handled
  <2>8. step' = step + 1 => Passed(Stops, step)' = Passed(Stops, step + 1)
    BY <2>5
  <2>9. Members(touched)' \subseteq Members(Changes)' /\ Members(touched)' \subseteq Members(Stops)'
    BY <2>1, <2>2, <2>4, <2>5, <1>b DEF Ordered
  <2>10. ASSUME OldTimers, NEW k \in DOMAIN touched', NEW a \in Units, touched'[k] \in Triggers[a]
         PROVE  Before(a, k)'
    <3>1. \A j \in DOMAIN touched : \A b \in Units : touched[j] \in Triggers[b] => Before(b, j)
      BY <2>1, <2>10 DEF Ordered, Touching
    <3>2. CASE touched' = touched
      <4>1. Before(a, k)
        BY <2>10, <3>1, <3>2
      <4> QED
        BY <2>1, <3>2, <4>1 DEF Before, Known
    <3>3. CASE ~Skipped(u) /\ touched' = Append(touched, u)
      <4>1. ASSUME NEW b \in Units, u \in Triggers[b]
            PROVE  b \in Members(touched) \/ (~Known(b) /\ b \notin Members(group.activate))
        <5>1. u \in Members(group.remove)
          BY <4>1, <2>2, <1>b, ActivatorFacts
        <5>2. Stops = group.remove /\ Members(group.activate) = {}
          BY <5>1, OnlyRemoved
        <5>3. PICK m \in DOMAIN group.remove : m < step /\ group.remove[m] = b
          BY <2>1, <4>1, <5>2, <1>b, ActivatorFacts
        <5>4. b \in Passed(Stops, step)
          BY <5>2, <5>3 DEF Passed
        <5>5. Handled(b)
          BY <2>1, <5>4 DEF Ordered
        <5>6. b \in Members(group.remove)
          BY <5>3 DEF Members
        <5> QED
          BY <5>2, <5>5, <5>6 DEF Handled, Skipped
      <4>2. ASSUME NEW j \in DOMAIN touched, touched[j] \in Triggers[u]
            PROVE  Known(u)
        <5>1. touched[j] \in Members(Stops)
          BY <2>1, <4>2 DEF Ordered, Members
        <5>2. touched[j] \in Members(group.remove)
          BY <2>2, <4>2, <5>1, <1>b, ActivatorFacts
        <5>3. Stops = group.remove
          BY <5>2, OnlyRemoved
        <5> QED
          BY <2>2, <3>3, <5>3 DEF Skipped
      <4> QED
        BY <2>1, <2>2, <2>10, <3>1, <3>3, <4>1, <4>2, BeforeAppended
    <3> QED
      BY <2>1, <3>2, <3>3
  <2>11. CASE pc' = "stopping"
    BY <2>1, <2>5, <2>7, <2>8, <2>9, <2>10, <2>11 DEF Ordered
  <2>12. CASE pc' = "quiescing"
    BY <2>5, <2>9, <2>10, <2>12 DEF Ordered
  <2> QED
    BY <2>1, <2>11, <2>12
<1>6. CASE ObserveJobs
  <2>1. /\ pc = "stopping" /\ pc' = "changing" /\ step > Len(Stops) /\ UNCHANGED <<group, touched, backup>>
    BY <1>6 DEF ObserveJobs
  <2>2. Passed(Stops, step) = Members(Stops)
    BY <2>1, <1>b, PassedFacts
  <2>3. /\ \A u : Known(u)' = Known(u)
        /\ Stops' = Stops /\ Changes' = Changes /\ OldTimers' = OldTimers
    BY <2>1 DEF Known, Stops, Changes, OldTimers
  <2>4. /\ \A u : Handled(u)' = Handled(u)
        /\ \A a, k : Before(a, k)' = Before(a, k)
    BY <2>1, <2>3 DEF Handled, Before, Skipped
  <2> QED
    BY <2>1, <2>2, <2>3, <2>4 DEF Ordered, Touching, Modified
<1>7. CASE ChangeFile
  <2>1. /\ pc = "changing" /\ pc' \in {"changing", "quiescing"} /\ UNCHANGED <<group, touched, backup>>
    BY <1>7 DEF ChangeFile
  <2> QED
    BY <2>1, OrderedKept DEF Modified, Touching
<1>8. CASE Reload
  <2>1. /\ pc = "changing" /\ pc' \in {"starting", "quiescing"} /\ UNCHANGED <<group, touched, backup>>
    BY <1>8 DEF Reload
  <2> QED
    BY <2>1, OrderedKept DEF Modified, Touching
<1>9. CASE PreserveJob
  <2>1. /\ pc = "starting" /\ pc' = "starting" /\ UNCHANGED <<group, touched, backup>>
    BY <1>9 DEF PreserveJob
  <2> QED
    BY <2>1, OrderedKept DEF Modified, Touching
(* A unit that was written is touched and started.                           *)
<1>e. ASSUME NEW u \in Members(group.write), u \in Units, pc \in {"starting", "activating"},
             touched' = Append(touched, u), UNCHANGED <<group, backup>>
      PROVE  /\ Members(touched)' \subseteq Members(Changes)'
             /\ Members(touched)' = Members(touched) \cup {u}
             /\ \A v : Handled(v) => Handled(v)'
             /\ Stops' = Stops
  <2>1. Members(Append(touched, u)) = Members(touched) \cup {u}
    BY <1>b, <1>e, MembersAppend
  <2>2. Members(touched)' = Members(touched) \cup {u}
    BY <1>e, <2>1
  <2>3. Changes' = Changes /\ Stops' = Stops
    BY <1>e DEF Changes, Stops
  <2>4. \A v : Skipped(v)' = Skipped(v)
    BY <1>e DEF Skipped, Known
  <2> QED
    BY <1>b, <1>e, <2>2, <2>3, <2>4 DEF Ordered, Handled, Modified
<1>10. CASE StartJob
  <2> DEFINE u == group.once[step]
  <2>1. /\ pc = "starting" /\ pc' \in {"starting", "quiescing"} /\ step \in 1 .. Len(group.once)
        /\ UNCHANGED <<backup, group>> /\ touched' = Append(touched, u)
    BY <1>10, <1>b DEF StartJob
  <2>2. u \in Units /\ u \in Members(group.once) /\ group.once # << >>
    BY <2>1, <1>b, PassedFacts
  <2>3. /\ Members(touched)' \subseteq Members(Changes)'
        /\ \A v : Handled(v) => Handled(v)'
        /\ Stops' = Stops
    BY <2>1, <2>2, <1>b, <1>e
  <2>4. OldTimers' = OldTimers
    BY <2>1 DEF OldTimers, Known
  <2>5. ASSUME OldTimers
        PROVE  \A k \in DOMAIN touched' : \A a \in Units : touched'[k] \in Triggers[a] => Before(a, k)'
    <3>1. \A k \in DOMAIN touched : \A a \in Units : touched[k] \in Triggers[a] => Before(a, k)
      BY <2>1, <2>5 DEF Ordered, Touching
    <3>2. ASSUME NEW a \in Units, u \in Triggers[a]
          PROVE  a \in Members(touched) \/ (~Known(a) /\ a \notin Members(group.activate))
      <4>1. a \in Members(group.deactivate)
        BY <3>2, <2>2, ActivatorFacts
      <4>2. Handled(a)
        BY <4>1, <2>1, <1>b DEF Ordered
      <4>3. Skipped(a) => ~Known(a)
        BY DEF Skipped
      <4>4. ~Known(a) => a \notin Members(group.activate)
        BY <2>2, <2>5 DEF OldTimers
      <4> QED
        BY <4>2, <4>3, <4>4 DEF Handled
    <3>3. \A k \in DOMAIN touched : touched[k] \notin Triggers[u]
      BY <2>2, ActivatorFacts
    <3> QED
      BY <2>1, <2>2, <3>1, <3>2, <3>3, BeforeAppended
  <2> QED
    BY <2>1, <2>3, <2>4, <2>5 DEF Ordered
<1>11. CASE JobsStarted
  <2>1. /\ pc = "starting" /\ pc' = "activating" /\ step' = 1 /\ UNCHANGED <<group, touched, backup>>
    BY <1>11 DEF JobsStarted
  <2>2. Passed(group.activate, 1) = {}
    BY <1>b, PassedFacts
  <2>3. Passed(group.activate, step)' = {}
    BY <2>1, <2>2
  <2>4. /\ \A u : Known(u)' = Known(u)
        /\ Changes' = Changes /\ OldTimers' = OldTimers
    BY <2>1 DEF Known, Changes, OldTimers
  <2>5. \A a, k : Before(a, k)' = Before(a, k)
    BY <2>1, <2>4 DEF Before
  <2> QED
    BY <2>1, <2>3, <2>4, <2>5 DEF Ordered, Touching, Modified
<1>12. CASE ActivateUnit
  <2> DEFINE u == group.activate[step]
  <2>1. /\ pc = "activating" /\ step \in 1 .. Len(group.activate) /\ UNCHANGED <<backup, group>>
        /\ \/ pc' = "activating" /\ step' = step + 1
           \/ pc' = "quiescing"
        /\ touched' = (IF u \in Members(touched) THEN touched ELSE Append(touched, u))
    BY <1>12, <1>b DEF ActivateUnit
  <2>2. /\ u \in Units /\ u \in Members(group.activate)
        /\ Passed(group.activate, step + 1) = Passed(group.activate, step) \cup {u}
    BY <2>1, <1>b, PassedFacts
  <2>3. Members(Append(touched, u)) = Members(touched) \cup {u}
    BY <2>2, <1>b, MembersAppend
  <2>4. Members(touched)' = Members(touched) \cup {u}
    BY <2>1, <2>3
  <2>5. OldTimers' = OldTimers /\ Changes' = Changes
    BY <2>1 DEF OldTimers, Known, Changes
  <2>6. Members(touched)' \subseteq Members(Changes)'
    BY <2>1, <2>2, <2>4, <2>5, <1>b DEF Ordered, Modified
  <2>7. Passed(group.activate, step) \subseteq Members(touched)
    BY <2>1 DEF Ordered
  <2>8. pc' = "activating" => Passed(group.activate, step)' \subseteq Members(touched)'
    <3>1. pc' = "activating" => Passed(group.activate, step)' = Passed(group.activate, step + 1)
      BY <2>1
    <3> QED
      BY <3>1, <2>2, <2>4, <2>7
  <2>9. ASSUME OldTimers
        PROVE  \A k \in DOMAIN touched' : \A a \in Units : touched'[k] \in Triggers[a] => Before(a, k)'
    <3>1. \A k \in DOMAIN touched : \A a \in Units : touched[k] \in Triggers[a] => Before(a, k)
      BY <2>1, <2>9 DEF Ordered, Touching
    <3>2. CASE touched' = touched
      <4>1. \A a, k : Before(a, k)' = Before(a, k)
        BY <2>1, <3>2 DEF Before, Known
      <4> QED
        BY <3>1, <3>2, <4>1
    <3>3. CASE touched' = Append(touched, u)
      <4>1. ASSUME NEW a \in Units, u \in Triggers[a] PROVE a \in Members(touched)
        <5>1. step \in DOMAIN group.activate
          BY <2>1, <1>b
        <5>2. PICK m \in DOMAIN group.activate : m < step /\ group.activate[m] = a
          BY <4>1, <5>1, ActivatorFacts
        <5>3. a \in Passed(group.activate, step)
          BY <5>2 DEF Passed
        <5> QED
          BY <5>3, <2>7
      <4> QED
        BY <2>1, <2>2, <3>1, <3>3, <4>1, BeforeAppended
    <3> QED
      BY <2>1, <3>2, <3>3
  <2> QED
    BY <2>1, <2>5, <2>6, <2>8, <2>9 DEF Ordered
<1>13. CASE Succeed
  BY <1>13, <1>c DEF Succeed, Modified
<1>14. CASE Fail
  <2>1. /\ UNCHANGED <<group, touched, backup>>
        /\ \/ pc' = "unmodified"
           \/ pc' = "quiescing" /\ pc \in {"stopping", "changing", "starting", "activating"}
    BY <1>14 DEF Fail
  <2>2. CASE pc' = "unmodified"
    BY <2>2, <1>c DEF Modified
  <2>3. CASE pc' = "quiescing"
    BY <2>1, <2>3, OrderedKept DEF Modified, Touching
  <2> QED
    BY <2>1, <2>2, <2>3
<1>15. CASE PhaseLost
  <2>1. UNCHANGED <<group, touched, backup, pc, step>>
    BY <1>15 DEF PhaseLost
  <2> QED
    BY <2>1, OrderedKept
<1>16. CASE Quiesce
  <2>1. pc = "quiescing" /\ pc' = pc /\ UNCHANGED <<group, touched, backup>>
    BY <1>16 DEF Quiesce
  <2> QED
    BY <2>1, OrderedKept
<1>17. CASE Quiesced
  <2>1. pc = "quiescing" /\ pc' \in {"restoring", "verifying"} /\ UNCHANGED <<group, touched, backup>>
    BY <1>17 DEF Quiesced
  <2> QED
    BY <2>1, <1>d, OrderedKept DEF Modified, Touching
<1>18. CASE RestoreFile
  <2>1. pc = "restoring" /\ pc' = pc /\ UNCHANGED <<group, touched, backup>>
    BY <1>18 DEF RestoreFile
  <2> QED
    BY <2>1, OrderedKept
<1>19. CASE ReloadRestored
  BY <1>19, <1>d DEF ReloadRestored, Modified
<1>20. CASE Rearm
  BY <1>20, <1>d DEF Rearm, Modified
<1>21. CASE Rearmed
  BY <1>21, <1>d DEF Rearmed, Modified
<1>22. CASE VerifyRestored
  BY <1>22, <1>d DEF VerifyRestored, Modified
<1>23. CASE Undone
  BY <1>23, <1>c DEF Undone, Modified
<1>24. CASE Retain
  BY <1>24, <1>c DEF Retain, Modified
<1>25. ASSUME NEW a \in Units, NEW u \in Units, Fire(a, u) PROVE Ordered'
  <2>1. UNCHANGED <<group, touched, backup, pc, step>>
    BY <1>25 DEF Fire
  <2> QED
    BY <2>1, OrderedKept
<1>26. ASSUME NEW u \in Units, End(u) PROVE Ordered'
  <2>1. UNCHANGED <<group, touched, backup, pc, step>>
    BY <1>26 DEF End
  <2> QED
    BY <2>1, OrderedKept
<1>27. CASE Die
  BY <1>27, <1>c DEF Die, Modified
<1>28. CASE Reboot
  BY <1>28, <1>c DEF Reboot, Modified
<1>29. CASE OperatorResolves
  BY <1>29, <1>c DEF OperatorResolves, Modified
<1>30. CASE UNCHANGED vars
  <2>1. UNCHANGED <<group, touched, backup, pc, step>>
    BY <1>30 DEF vars
  <2> QED
    BY <2>1, OrderedKept
<1> QED
  BY <1>1, <1>2, <1>3, <1>4, <1>5, <1>6, <1>7, <1>8, <1>9, <1>10, <1>11, <1>12, <1>13, <1>14, <1>15, <1>16, <1>17, <1>18, <1>19, <1>20, <1>21, <1>22, <1>23, <1>24, <1>25, <1>26, <1>27, <1>28, <1>29, <1>30
     DEF Next, Operate, RollBack, Surroundings

(* The rollback stops what starts a unit before the unit, unless it was never *)
(* there.                                                                   *)
LEMMA RollbackOrder ==
  ASSUME Typed, Ordered, OldTimers, pc \in {"quiescing", "restoring"},
         NEW k \in DOMAIN RollbackUnits, NEW a \in Units, RollbackUnits[k] \in Triggers[a]
  PROVE  a \in Passed(RollbackUnits, k) \/ (~Known(a) /\ a \notin Members(RollbackUnits))
<1>1. /\ touched \in Seq(Units) /\ group.activate \in Seq(Units) /\ RollbackUnits \in Seq(Units)
      /\ Members(RollbackUnits) = Members(touched) \cup Members(group.activate)
  BY GroupFacts DEF Typed
<1>2. /\ Len(touched) \in Nat /\ DOMAIN touched = 1 .. Len(touched)
      /\ Len(group.activate) \in Nat /\ DOMAIN group.activate = 1 .. Len(group.activate)
      /\ DOMAIN RollbackUnits = 1 .. (Len(touched) + Len(group.activate))
  BY <1>1 DEF RollbackUnits
<1>3. /\ \A m \in 1 .. Len(touched) : RollbackUnits[m] = touched[m]
      /\ \A m \in 1 .. Len(group.activate) : RollbackUnits[Len(touched) + m] = group.activate[m]
  BY <1>1, <1>2 DEF RollbackUnits
<1>4. CASE k \in 1 .. Len(touched)
  <2>1. Before(a, k)
    BY <1>2, <1>3, <1>4 DEF Ordered, Touching
  <2>2. CASE \E m \in DOMAIN touched : m < k /\ touched[m] = a
    <3>1. PICK m \in 1 .. Len(touched) : m < k /\ touched[m] = a
      BY <2>2, <1>2
    <3>2. m \in DOMAIN RollbackUnits /\ RollbackUnits[m] = a
      BY <3>1, <1>2, <1>3
    <3> QED
      BY <3>1, <3>2 DEF Passed
  <2>3. CASE ~Known(a) /\ a \notin Members(touched) \cup Members(group.activate)
    BY <2>3, <1>1
  <2> QED
    BY <2>1, <2>2, <2>3 DEF Before
<1>5. CASE k > Len(touched)
  <2>1. k - Len(touched) \in 1 .. Len(group.activate) /\ k = Len(touched) + (k - Len(touched))
    BY <1>2, <1>5
  <2>2. group.activate[k - Len(touched)] \in Triggers[a]
    BY <2>1, <1>3
  <2>3. PICK m \in DOMAIN group.activate : m < k - Len(touched) /\ group.activate[m] = a
    BY <2>1, <2>2, <1>2, ActivatorFacts
  <2>4. Len(touched) + m \in DOMAIN RollbackUnits /\ Len(touched) + m < k
    BY <2>1, <2>3, <1>2
  <2>5. RollbackUnits[Len(touched) + m] = a
    BY <2>3, <1>2, <1>3
  <2> QED
    BY <2>4, <2>5 DEF Passed
<1> QED
  BY <1>2, <1>4, <1>5

LEMMA StoppedKept ==
  ASSUME Typed, Stopped, UNCHANGED <<files, backup, group, touched, pc, step, sound>>,
         \A v \in Units : running'[v] \in {running[v], None}
  PROVE  Stopped'
<1>1. /\ RollbackUnits' = RollbackUnits
      /\ \A v : Nonexistent(v)' = Nonexistent(v)
      /\ OldTimers' = OldTimers
  BY DEF RollbackUnits, Nonexistent, Known, OldTimers
<1>2. /\ Passed(RollbackUnits, step)' = Passed(RollbackUnits, step)
      /\ Members(RollbackUnits)' = Members(RollbackUnits)
  BY <1>1
<1>3. RollbackUnits \in Seq(Units) /\ step \in Nat
  BY GroupFacts DEF Typed
<1>4. Passed(RollbackUnits, step) \subseteq Members(RollbackUnits) /\ Members(RollbackUnits) \subseteq Units
  BY <1>3, PassedFacts, MembersConcat
<1>5. \A v \in Units : Down(v) => Down(v)'
  BY <1>1 DEF Down
<1> QED
  BY <1>1, <1>2, <1>4, <1>5 DEF Stopped

LEMMA StepStopped == IInv /\ Grounded /\ Ordered /\ Stopped /\ [Next]_vars => Stopped'
<1> SUFFICES ASSUME Typed, Marked, Grounded, Ordered, Stopped, [Next]_vars, Typed' PROVE Stopped'
  BY TypedIsTypeOK, StepTyped DEF IInv
<1> USE DEF disk, systemd, request, memory, Goto, Again, Return
<1>a. /\ touched \in Seq(Units) /\ group.activate \in Seq(Units) /\ RollbackUnits \in Seq(Units)
      /\ step \in Nat \ {0} /\ running \in FileMaps
      /\ Members(touched) \subseteq Members(RollbackUnits) /\ Members(RollbackUnits) \subseteq Units
  BY GroupFacts, MembersConcat DEF Typed
(* Nothing is said of the other steps, nor of the beginning of the rollback.  *)
<1>b. pc' \notin {"quiescing", "restoring"} => Stopped'
  BY DEF Stopped
<1>c. ASSUME pc' = "quiescing", step' = 1, UNCHANGED group PROVE Stopped'
  <2>1. touched' \in Seq(Units)
    BY DEF Typed
  <2>2. touched' \o group.activate \in Seq(Units)
    BY <2>1, <1>a
  <2>3. RollbackUnits' = touched' \o group.activate
    BY <1>c DEF RollbackUnits
  <2>4. Passed(touched' \o group.activate, 1) = {}
    BY <2>2, PassedFacts
  <2>5. Passed(RollbackUnits, step)' = {}
    BY <1>c, <2>3, <2>4
  <2> QED
    BY <1>c, <2>5 DEF Stopped
<1>1. ASSUME NEW g \in Groups, Begin(g) PROVE Stopped'
  BY <1>1, <1>b DEF Begin
<1>2. CASE Snapshot
  BY <1>2, <1>b DEF Snapshot
<1>3. CASE NothingToDo
  BY <1>3, <1>b DEF NothingToDo
<1>4. CASE Validate
  BY <1>4, <1>b DEF Validate
<1>5. CASE StopUnit
  BY <1>5, <1>b, <1>c DEF StopUnit
<1>6. CASE ObserveJobs
  BY <1>6, <1>b DEF ObserveJobs
<1>7. CASE ChangeFile
  BY <1>7, <1>b, <1>c DEF ChangeFile
<1>8. CASE Reload
  BY <1>8, <1>b, <1>c DEF Reload
<1>9. CASE PreserveJob
  BY <1>9, <1>b DEF PreserveJob
<1>10. CASE StartJob
  BY <1>10, <1>b, <1>c DEF StartJob
<1>11. CASE JobsStarted
  BY <1>11, <1>b DEF JobsStarted
<1>12. CASE ActivateUnit
  BY <1>12, <1>b, <1>c DEF ActivateUnit
<1>13. CASE Succeed
  BY <1>13, <1>b DEF Succeed
<1>14. CASE Fail
  BY <1>14, <1>b, <1>c DEF Fail
<1>15. CASE PhaseLost
  BY <1>15, StoppedKept DEF PhaseLost
<1>16. CASE Quiesce
  <2> DEFINE u == RollbackUnits[step]
  <2>1. /\ pc = "quiescing" /\ pc' = pc /\ step' = step + 1 /\ step \in 1 .. Len(RollbackUnits)
        /\ UNCHANGED <<files, backup, group, touched>>
    BY <1>16, <1>a DEF Quiesce
  <2>2. CASE sound' = FALSE
    BY <2>1, <2>2 DEF Stopped
  <2>3. CASE sound' # FALSE
    <3>1. /\ sound' = sound
          /\ \/ (Nonexistent(u) \/ Repeated(step)) /\ running' = running
             \/ running' = [running EXCEPT ![u] = None]
      BY <1>16, <2>3 DEF Quiesce
    <3>2. /\ RollbackUnits' = RollbackUnits
          /\ \A v : Nonexistent(v)' = Nonexistent(v)
          /\ OldTimers' = OldTimers
      BY <2>1 DEF RollbackUnits, Nonexistent, Known, OldTimers
    <3>3. u \in Units /\ Passed(RollbackUnits, step + 1) = Passed(RollbackUnits, step) \cup {u}
      BY <2>1, <1>a, PassedFacts
    <3>4. Passed(RollbackUnits, step)' = Passed(RollbackUnits, step) \cup {u}
      BY <2>1, <3>2, <3>3
    <3>5. Passed(RollbackUnits, step) \subseteq Units
      BY <1>a, PassedFacts
    <3>6. \A v \in Units : Down(v) => Down(v)'
      BY <3>1, <3>2, <3>3, <1>a DEF Down, FileMaps
    <3>7. ASSUME sound, OldTimers, NEW w, w = u PROVE Down(w)'
      <4>1. CASE Nonexistent(w) /\ running' = running
        <5>1. w \in Activators => running[w] = None
          BY <2>1, <4>1 DEF Grounded, Modified, Nonexistent, Missing
        <5>2. Down(w)
          BY <4>1, <5>1 DEF Down
        <5> QED
          BY <3>3, <3>6, <3>7, <5>2
      <4>2. CASE Repeated(step)
        <5>1. w \in Passed(RollbackUnits, step)
          BY <2>1, <3>7, <4>2, RepeatedPassed
        <5>2. Down(w)
          BY <2>1, <3>7, <5>1 DEF Stopped
        <5> QED
          BY <3>3, <3>6, <3>7, <5>2
      <4>3. CASE running' = [running EXCEPT ![w] = None]
        <5>1. running'[w] = None
          BY <3>3, <3>7, <4>3, <1>a DEF FileMaps
        <5> QED
          BY <5>1 DEF Down
      <4> QED
        BY <3>1, <3>7, <4>1, <4>2, <4>3
    <3>8. ASSUME sound, OldTimers, NEW v \in Passed(RollbackUnits, step) PROVE Down(v)'
      <4>1. Down(v)
        BY <2>1, <3>8 DEF Stopped
      <4> QED
        BY <4>1, <3>5, <3>6
    <3>9. ASSUME sound', OldTimers' PROVE \A v \in Passed(RollbackUnits, step)' : Down(v)'
      BY <3>9, <3>1, <3>2, <3>4, <3>7, <3>8
    <3> QED
      BY <2>1, <3>9 DEF Stopped
  <2> QED
    BY <2>2, <2>3
<1>17. CASE Quiesced
  <2>1. /\ pc = "quiescing" /\ step > Len(RollbackUnits)
        /\ UNCHANGED <<files, running, backup, group, touched, sound>>
        /\ pc' \in {"restoring", "verifying"}
    BY <1>17 DEF Quiesced
  <2>2. Passed(RollbackUnits, step) = Members(RollbackUnits)
    BY <2>1, <1>a, PassedFacts
  <2>3. /\ RollbackUnits' = RollbackUnits
        /\ \A v : Down(v)' = Down(v)
        /\ OldTimers' = OldTimers
    BY <2>1 DEF RollbackUnits, Down, Nonexistent, Known, OldTimers
  <2>4. Members(RollbackUnits)' = Members(RollbackUnits)
    BY <2>3
  <2> QED
    BY <2>1, <2>2, <2>3, <2>4 DEF Stopped
<1>18. CASE RestoreFile
  <2> DEFINE u == Changes[step]
  <2>1. /\ pc = "restoring" /\ pc' = pc
        /\ UNCHANGED <<running, backup, group, touched>>
        /\ files' \in {files, [files EXCEPT ![u] = backup.files[u]]}
    BY <1>18 DEF RestoreFile
  <2>2. sound' = sound \/ sound' = FALSE
    BY <1>18 DEF RestoreFile
  <2>3. /\ RollbackUnits' = RollbackUnits
        /\ \A v : Known(v)' = Known(v)
        /\ OldTimers' = OldTimers
    BY <2>1 DEF RollbackUnits, Known, OldTimers
  <2>4. \A v \in Units : files'[v] \in {files[v], backup.files[v]}
    BY <2>1 DEF Typed, FileMaps
  <2>5. \A v \in Units : Nonexistent(v) => Nonexistent(v)'
    BY <2>1, <2>3, <2>4 DEF Nonexistent, Known
  <2>6. \A v \in Units : Down(v) => Down(v)'
    BY <2>1, <2>5 DEF Down
  <2>7. Members(RollbackUnits)' = Members(RollbackUnits)
    BY <2>3
  <2>8. CASE sound' = FALSE
    BY <2>1, <2>8 DEF Stopped
  <2>9. CASE sound' = sound
    BY <2>1, <2>3, <2>6, <2>7, <2>9, <1>a DEF Stopped
  <2> QED
    BY <2>2, <2>8, <2>9
<1>19. CASE ReloadRestored
  BY <1>19, <1>b DEF ReloadRestored
<1>20. CASE Rearm
  BY <1>20, <1>b DEF Rearm
<1>21. CASE Rearmed
  BY <1>21, <1>b DEF Rearmed
<1>22. CASE VerifyRestored
  BY <1>22, <1>b DEF VerifyRestored
<1>23. CASE Undone
  BY <1>23, <1>b DEF Undone
<1>24. CASE Retain
  BY <1>24, <1>b DEF Retain
<1>25. ASSUME NEW a \in Units, NEW u \in Units, Fire(a, u) PROVE Stopped'
  <2>1. /\ UNCHANGED <<files, backup, group, touched, pc, step, sound>>
        /\ u \in Triggers[a] /\ running[a] # None
        /\ running' = [running EXCEPT ![u] = loaded[u]]
    BY <1>25 DEF Fire
  <2>2. /\ RollbackUnits' = RollbackUnits
        /\ \A v : Nonexistent(v)' = Nonexistent(v)
        /\ OldTimers' = OldTimers
    BY <2>1 DEF RollbackUnits, Nonexistent, Known, OldTimers
  <2>3. /\ Passed(RollbackUnits, step)' = Passed(RollbackUnits, step)
        /\ Members(RollbackUnits)' = Members(RollbackUnits)
    BY <2>1, <2>2
  <2>4. \A v \in Units \ {u} : Down(v) => Down(v)'
    BY <2>1, <2>2, <1>a DEF Down, FileMaps
  <2>5. a \in Activators /\ ~Down(a)
    BY <2>1 DEF Activators, Down
  (* An activator that runs is neither absent nor stopped.                     *)
  <2>6. ASSUME pc \in {"quiescing", "restoring"}, OldTimers, NEW k \in DOMAIN RollbackUnits,
               RollbackUnits[k] = u
        PROVE  a \in Passed(RollbackUnits, k)
    <3>1. ~Known(a) /\ a \notin Members(RollbackUnits) => running[a] = None
      BY <2>5, <2>6, <1>a DEF Grounded, Missing, Modified
    <3> QED
      BY <2>1, <2>6, <3>1, RollbackOrder
  <2>7. ASSUME pc = "quiescing", sound, OldTimers PROVE u \notin Passed(RollbackUnits, step)
    <3> SUFFICES ASSUME u \in Passed(RollbackUnits, step) PROVE FALSE
      OBVIOUS
    <3>1. PICK k \in DOMAIN RollbackUnits : k < step /\ RollbackUnits[k] = u
      BY DEF Passed
    <3>2. a \in Passed(RollbackUnits, k)
      BY <2>6, <2>7, <3>1
    <3>3. DOMAIN RollbackUnits = 1 .. Len(RollbackUnits) /\ Len(RollbackUnits) \in Nat
      BY <1>a
    <3>4. a \in Passed(RollbackUnits, step)
      BY <3>1, <3>2, <3>3, <1>a DEF Passed
    <3> QED
      BY <2>5, <2>7, <3>4 DEF Stopped
  <2>8. ASSUME pc = "restoring", sound, OldTimers PROVE u \notin Members(RollbackUnits)
    <3> SUFFICES ASSUME u \in Members(RollbackUnits) PROVE FALSE
      OBVIOUS
    <3>1. PICK k \in DOMAIN RollbackUnits : RollbackUnits[k] = u
      BY DEF Members
    <3>2. a \in Passed(RollbackUnits, k)
      BY <2>6, <2>8, <3>1
    <3>3. a \in Members(RollbackUnits)
      BY <3>2 DEF Passed, Members
    <3> QED
      BY <2>5, <2>8, <3>3 DEF Stopped
  <2>9. Passed(RollbackUnits, step) \subseteq Units
    BY <1>a, PassedFacts
  <2> QED
    BY <2>1, <2>2, <2>3, <2>4, <2>7, <2>8, <2>9, <1>a DEF Stopped
<1>26. ASSUME NEW u \in Units, End(u) PROVE Stopped'
  <2>1. /\ UNCHANGED <<files, backup, group, touched, pc, step, sound>>
        /\ running' = [running EXCEPT ![u] = None]
    BY <1>26 DEF End
  <2>2. \A v \in Units : running'[v] \in {running[v], None}
    BY <2>1, <1>a DEF FileMaps
  <2> QED
    BY <2>1, <2>2, StoppedKept
<1>27. CASE Die
  BY <1>27, <1>b DEF Die
<1>28. CASE Reboot
  BY <1>28, <1>b DEF Reboot
<1>29. CASE OperatorResolves
  BY <1>29, <1>b DEF OperatorResolves
<1>30. CASE UNCHANGED vars
  BY <1>30, StoppedKept DEF vars
<1> QED
  BY <1>1, <1>2, <1>3, <1>4, <1>5, <1>6, <1>7, <1>8, <1>9, <1>10, <1>11, <1>12, <1>13, <1>14, <1>15, <1>16, <1>17, <1>18, <1>19, <1>20, <1>21, <1>22, <1>23, <1>24, <1>25, <1>26, <1>27, <1>28, <1>29, <1>30
     DEF Next, Operate, RollBack, Surroundings

LEMMA InitStopped == Init => Grounded /\ Ordered /\ Stopped
<1> SUFFICES ASSUME Init PROVE Grounded /\ Ordered /\ Stopped
  OBVIOUS
<1>1. pc = "idle" /\ backup = None /\ running = Booted(files, enabled)
  BY DEF Init
<1>2. \A a \in Activators : files[a] = None => running[a] = None
  BY <1>1 DEF Booted, Activators
<1>3. Grounded
  BY <1>1, <1>2 DEF Grounded, Modified
<1>4. Ordered /\ Stopped
  BY <1>1 DEF Ordered, Stopped, Modified, Touching
<1> QED
  BY <1>3, <1>4

LEMMA InitJobs == Init => Jobs
  BY DEF Init, Jobs, Modified

LEMMA OnlyChanges == Jobs /\ Ordered => Members(touched) \subseteq Members(Changes)
<1> SUFFICES ASSUME Jobs, Ordered PROVE Members(touched) \subseteq Members(Changes)
  OBVIOUS
<1>1. Members(<< >>) = {}
  BY DEF Members
<1>2. CASE pc \in Modified
  BY <1>2 DEF Ordered
<1>3. CASE pc \notin Modified
  BY <1>1, <1>3 DEF Jobs
<1> QED
  BY <1>2, <1>3

(* QuiescentUnlessNewTimer holds: while the rollback restores files without a *)
(* fault, everything it touched is stopped or was never there, although       *)
(* timers and sockets fire all the time, unless the operation installed the   *)
(* timer of a job for the first time.                                       *)
THEOREM StoppedStaysDown == Spec => []QuiescentUnlessNewTimer
<1> DEFINE Inv == IInv /\ Jobs /\ Grounded /\ Ordered /\ Stopped
<1>1. Init => Inv
  BY InitInvariant, InitJobs, InitStopped
<1>2. Inv /\ [Next]_vars => Inv'
  BY StepInvariant, StepJobs, StepGrounded, StepOrdered, StepStopped, OnlyChanges DEF IInv
<1>3. Inv => QuiescentUnlessNewTimer
  BY DEF Stopped, Down, OldTimers, Quiescent, QuiescentUnlessNewTimer
<1> QED
  BY <1>1, <1>2, <1>3, PTL DEF Spec

=============================================================================
